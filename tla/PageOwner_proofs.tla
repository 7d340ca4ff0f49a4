-------------------------- MODULE PageOwner_proofs --------------------------
(***************************************************************************)
(* Proofs about page_owner: its answers are right for every memory size,   *)
(* every set of callers and any number of kernel operations and commands.  *)
(*                                                                         *)
(* OwnerInv is the inductive invariant.  BlocksInv says what the kernel's  *)
(* allocator keeps true of the blocks it has given out; MapsInv what       *)
(* owner_map and handle_map hold at each place of the code; OutInv how the *)
(* answer on the screen follows from the maps.  OwnerExact follows from it, *)
(* as head pages and blocks correspond one to one (HeadBlock,              *)
(* BlockHead), which makes the counts and the sums over both agree.        *)
(***************************************************************************)
EXTENDS PageOwner, Sums

\* The record of a page, and a block the kernel has given out.
Records == [alloc : BOOLEAN, order : 0..MaxOrder, handle : Nat, pid : Nat, free_handle : {0, FreeStack}]
Blocks == [pfn : Pfns, order : 0..MaxOrder, handle : Nat, pid : Nat]

\* The types of the variables.
OwnerTypes ==
  /\ dump \in [owner : [Pfns -> Records], live : SUBSET Blocks, bad : SUBSET Pfns, interrupts : BOOLEAN, ops : Nat]
  /\ pc \in Places
  /\ pos \in [owner_map : SUBSET Pfns, pfn : 0..MaxPfn, handle_map : SUBSET Pfns, todo : SUBSET Pfns, records : SUBSET Nat, cmds : Nat]

\* The pages of a block.
PagesOf(b) == Block(b.pfn, b.order)

\* What the kernel keeps true: blocks are aligned and apart, every page of a block has
\* the block's record, and a page that is given out is in a block.
BlocksInv ==
  /\ \A b \in dump.live : b.pfn % 2^b.order = 0
  /\ \A b \in dump.live : \A q \in PagesOf(b) :
       q \in Pfns /\ Owner(q).alloc /\ Owner(q).order = b.order /\ Owner(q).handle = b.handle /\ Owner(q).pid = b.pid
  /\ \A q \in Pfns : Owner(q).alloc => \E b \in dump.live : q \in PagesOf(b)
  /\ \A b, c \in dump.live : PagesOf(b) \cap PagesOf(c) # {} => b = c

\* The pages parser_all_pageowners is to find.
Heads == {p \in Pfns : Owner(p).alloc /\ p \notin dump.bad /\ IsHead(p)}

\* What the two maps hold, place by place; the sets are exact when every page and every
\* record could be read and no command was interrupted (Whole).
MapsInv ==
  /\ pos.owner_map \subseteq Heads
  /\ pos.handle_map \subseteq WithHandle
  /\ pc = "handles" => pos.todo \subseteq WithHandle
  /\ pc \in {"kernel", "pfn"} => pos.handle_map = {}
  /\ pc = "kernel" => pos.owner_map = {}
  /\ Whole =>
       /\ pc = "page_owner" => pos.owner_map \in {{}, Heads}
       /\ pc = "pfn" => pos.owner_map = {p \in Heads : p < pos.pfn}
       /\ pc \in {"owner", "handles"} => pos.owner_map = Heads
       /\ pc = "handles" => pos.handle_map \cup pos.todo = WithHandle
       /\ pc \in {"page_owner", "owner"} => pos.handle_map \in {{}, WithHandle}

\* What -t, and -n and -P, print.
HandleRows == {[row |-> r, pids |-> RowsBy("pid", {p \in pos.handle_map : Owner(p).handle = r.key /\ Owner(p).pid > 0})] :
                 r \in RowsBy("handle", pos.handle_map)}
Stacks(p) == {Owner(p).handle, Owner(p).free_handle} \ {0}
PageRows(flag, p) ==
  IF IsShown(flag, p) THEN {[stack |-> h, pid |-> Owner(p).pid, range |-> RangeOf(p)] : h \in Stacks(p)} ELSE {}

\* The answer follows from the maps.
OutInv ==
  /\ out.op \in {"none", "t", "m", "a", "f", "n", "P"}
  /\ out.op # "none" => pc = "page_owner"
  /\ out.op # "none" /\ Whole => pos.owner_map = Heads
  /\ out.op = "t" => out.rows = HandleRows
  /\ out.op = "t" /\ Whole => pos.handle_map = WithHandle
  /\ out.op = "m" => out.rows = RowsBy("pid", {p \in WithHandle : Owner(p).pid > 0})
  /\ out.op = "a" => out.ranges = {RangeOf(p) : p \in WithHandle}
  /\ out.op = "f" => out.ranges = {RangeOf(p) : p \in {q \in pos.owner_map : Owner(q).free_handle > 0}}
  /\ out.op \in {"n", "P"} => out.pfn \in Pfns /\ out.rows = PageRows(out.op, out.pfn)

\* The inductive invariant.
OwnerInv == OwnerTypes /\ BlocksInv /\ MapsInv /\ OutInv

-----------------------------------------------------------------------------

\* 2^n is positive: it is the number of subsets of 1..n.
LEMMA PowerOfTwo == ASSUME NEW n \in Nat PROVE 2^n \in Nat /\ 2^n > 0
<1>1. IsFiniteSet(1..n) /\ Cardinality(1..n) = n
  BY FS_Interval
<1>2. IsFiniteSet(SUBSET (1..n)) /\ Cardinality(SUBSET (1..n)) = 2^n
  BY <1>1, FS_SUBSET, Zenon
<1>3. Cardinality(SUBSET (1..n)) \in Nat /\ Cardinality(SUBSET (1..n)) # 0
  BY <1>2, FS_CardinalityType, FS_EmptySet
<1> QED BY <1>2, <1>3

\* Two multiples of k less than k apart are the same.
LEMMA AlignedApart ==
  ASSUME NEW k \in Nat, k > 0, NEW a \in Nat, NEW b \in Nat, a % k = 0, b % k = 0, a <= b, b < a + k
  PROVE  a = b
<1>1. a = k * (a \div k) /\ b = k * (b \div k) /\ a \div k \in Nat /\ b \div k \in Nat
  OBVIOUS
<1> DEFINE x == a \div k
           y == b \div k
<1>2. k * x <= k * y /\ k * y < k * x + k /\ x \in Nat /\ y \in Nat
  BY <1>1
<1> HIDE DEF x, y
<1>3. x <= y
  <2> SUFFICES ASSUME y + 1 <= x PROVE FALSE
    BY <1>2
  <2>1. k * (y + 1) <= k * x
    BY <1>2
  <2> QED BY <1>2, <2>1
<1>4. y <= x
  <2> SUFFICES ASSUME x + 1 <= y PROVE FALSE
    BY <1>2
  <2>1. k * (x + 1) <= k * y
    BY <1>2
  <2> QED BY <1>2, <2>1
<1> QED BY <1>1, <1>2, <1>3, <1>4 DEF x, y

\* The first page of a block is one of its pages; of a block of order 0 the only one.
LEMMA FirstPage ==
  ASSUME OwnerTypes, NEW b \in Blocks
  PROVE  /\ b.pfn \in PagesOf(b) /\ b.order \in Nat /\ b.pfn \in Nat
         /\ b.order = 0 => PagesOf(b) = {b.pfn}
<1>1. b.order \in Nat /\ b.pfn \in Nat
  BY OwnerAssumption DEF Blocks, Pfns
<1>2. 2^b.order \in Nat /\ 2^b.order > 0
  BY <1>1, PowerOfTwo
<1>3. b.order = 0 => 2^b.order = 1
  OBVIOUS
<1> QED BY <1>1, <1>2, <1>3 DEF PagesOf, Block

\* The invariant holds at the start.
LEMMA InitInv == InitOwner => OwnerInv
<1> SUFFICES ASSUME InitOwner PROVE OwnerInv
  OBVIOUS
<1> USE DEF InitOwner
<1>1. OwnerTypes
  BY OwnerAssumption DEF OwnerTypes, Records, Places, Pfns
<1>2. BlocksInv
  BY DEF BlocksInv, Owner
<1>3. MapsInv
  BY DEF MapsInv, WithHandle
<1>4. OutInv
  BY DEF OutInv
<1> QED BY <1>1, <1>2, <1>3, <1>4 DEF OwnerInv

\* What the kernel does before the dump concerns the blocks only.
LEMMA KernelStep ==
  ASSUME OwnerInv, NEW live \in SUBSET Blocks, NEW owner \in [Pfns -> Records], KernelOp(live, owner)
  PROVE  /\ OwnerTypes' /\ MapsInv' /\ OutInv'
         /\ dump'.live = live /\ dump'.owner = owner
<1> DEFINE F == [Pfns -> Records]
           L == SUBSET Blocks
           G == SUBSET Pfns
           Dumps == [owner : F, live : L, bad : G, interrupts : BOOLEAN, ops : Nat]
<1>0. dump \in Dumps /\ dump' = [dump EXCEPT !.live = live, !.owner = owner, !.ops = @ + 1]
  BY DEF OwnerInv, OwnerTypes, KernelOp
<1>1. OwnerTypes' /\ dump'.live = live /\ dump'.owner = owner
  <2>1. dump' \in Dumps
    <3>1. live \in L /\ owner \in F
      OBVIOUS
    <3> HIDE DEF F, L, G
    <3>2. dump' = [owner |-> owner, live |-> live, bad |-> dump.bad, interrupts |-> dump.interrupts, ops |-> dump.ops + 1]
      BY <1>0, Zenon
    <3>3. dump.bad \in G /\ dump.interrupts \in BOOLEAN /\ dump.ops + 1 \in Nat
      BY <1>0
    <3> QED BY <3>1, <3>2, <3>3
  <2>2. dump'.live = live /\ dump'.owner = owner
    BY <1>0
  <2>3. pc' \in Places /\ UNCHANGED pos
    BY DEF OwnerInv, OwnerTypes, KernelOp
  <2> QED BY <2>1, <2>2, <2>3 DEF OwnerInv, OwnerTypes
<1>2. MapsInv'
  BY DEF OwnerInv, MapsInv, KernelOp, WithHandle
<1>3. OutInv'
  BY DEF OwnerInv, OutInv, KernelOp
<1> QED BY <1>1, <1>2, <1>3

\* A new block is aligned, apart from the others, and all its pages get its record.
LEMMA AllocKeeps ==
  ASSUME OwnerInv, NEW p \in Pfns, NEW o \in 0..MaxOrder, NEW c \in Callers, Alloc(p, o, c[1], c[2])
  PROVE  OwnerInv'
<1> DEFINE new == [pfn |-> p, order |-> o, handle |-> c[1], pid |-> c[2]]
           live == dump.live \cup {new}
           owner == Written(Block(p, o), [q \in Block(p, o) |->
                      [dump.owner[q] EXCEPT !.alloc = TRUE, !.order = o, !.handle = c[1], !.pid = c[2]]])
<1>1. c[1] \in Nat /\ c[2] \in Nat /\ new \in Blocks
  BY OwnerAssumption DEF Blocks
<1>2. dump.owner \in [Pfns -> Records] /\ dump.live \in SUBSET Blocks
  BY DEF OwnerInv, OwnerTypes
<1>3. /\ p % 2^o = 0
      /\ \A q \in Block(p, o) : q \in Pfns /\ ~dump.owner[q].alloc
      /\ KernelOp(live, owner)
  BY Zenon DEF Alloc
<1>4. \A q \in Pfns : owner[q] = IF q \in Block(p, o)
                                 THEN [dump.owner[q] EXCEPT !.alloc = TRUE, !.order = o, !.handle = c[1], !.pid = c[2]]
                                 ELSE dump.owner[q]
  BY DEF Written
<1>5. owner \in [Pfns -> Records] /\ live \in SUBSET Blocks
  BY <1>1, <1>2, Zenon DEF Written, Records
<1> HIDE DEF live, owner
<1>6. OwnerTypes' /\ MapsInv' /\ OutInv' /\ dump'.live = live /\ dump'.owner = owner
  BY <1>3, <1>5, KernelStep
<1>7. PagesOf(new) = Block(p, o) /\ new.pfn = p /\ new.order = o /\ new.handle = c[1] /\ new.pid = c[2]
  BY DEF PagesOf
<1> HIDE DEF new
<1>8. \A b \in dump.live : \A q \in PagesOf(b) : q \in Pfns /\ dump.owner[q].alloc /\ q \notin Block(p, o)
  BY <1>3 DEF OwnerInv, BlocksInv, Owner
<1>9. BlocksInv'
  <2>1. \A b \in live : b.pfn % 2^b.order = 0
    BY <1>3, <1>7 DEF OwnerInv, BlocksInv, live
  <2>2. \A b \in live : \A q \in PagesOf(b) : q \in Pfns /\ owner[q].alloc /\ owner[q].order = b.order
                                               /\ owner[q].handle = b.handle /\ owner[q].pid = b.pid
    <3> SUFFICES ASSUME NEW b \in live, NEW q \in PagesOf(b)
                 PROVE  q \in Pfns /\ owner[q].alloc /\ owner[q].order = b.order
                          /\ owner[q].handle = b.handle /\ owner[q].pid = b.pid
      OBVIOUS
    <3>1. CASE b = new
      <4>1. q \in Pfns /\ q \in Block(p, o) /\ dump.owner[q] \in Records
        BY <3>1, <1>2, <1>3, <1>7
      <4> QED BY <3>1, <4>1, <1>4, <1>7, Zenon DEF Records
    <3>2. CASE b # new
      <4>1. b \in dump.live
        BY <3>2 DEF live
      <4>2. q \in Pfns /\ owner[q] = dump.owner[q]
        BY <4>1, <1>4, <1>8, Zenon
      <4> QED BY <4>1, <4>2 DEF OwnerInv, BlocksInv, Owner
    <3> QED BY <3>1, <3>2
  <2>3. \A q \in Pfns : owner[q].alloc => \E b \in live : q \in PagesOf(b)
    <3> SUFFICES ASSUME NEW q \in Pfns, owner[q].alloc PROVE \E b \in live : q \in PagesOf(b)
      OBVIOUS
    <3>1. CASE q \in Block(p, o)
      BY <3>1, <1>7 DEF live
    <3>2. CASE q \notin Block(p, o)
      <4>1. dump.owner[q].alloc
        BY <3>2, <1>4, Zenon
      <4> QED BY <4>1 DEF OwnerInv, BlocksInv, Owner, live
    <3> QED BY <3>1, <3>2
  <2>4. \A b, d \in live : PagesOf(b) \cap PagesOf(d) # {} => b = d
    BY <1>7, <1>8 DEF OwnerInv, BlocksInv, live
  <2> QED BY <2>1, <2>2, <2>3, <2>4, <1>6 DEF BlocksInv, Owner
<1> QED BY <1>6, <1>9 DEF OwnerInv

\* One block less, or several of order 0 in its place: every other page keeps its record.
LEMMA FreeKeeps ==
  ASSUME OwnerInv, NEW b \in dump.live, Free(b)
  PROVE  OwnerInv'
<1> DEFINE live == dump.live \ {b}
           owner == Written(PagesOf(b), [q \in Pfns |-> [dump.owner[q] EXCEPT !.alloc = FALSE, !.free_handle = FreeStack]])
<1>1. dump.owner \in [Pfns -> Records] /\ dump.live \in SUBSET Blocks
  BY DEF OwnerInv, OwnerTypes
<1>2. KernelOp(live, owner)
  BY Zenon DEF Free, PagesOf
<1>3. \A q \in Pfns : owner[q] = IF q \in PagesOf(b)
                                 THEN [dump.owner[q] EXCEPT !.alloc = FALSE, !.free_handle = FreeStack]
                                 ELSE dump.owner[q]
  BY DEF Written
<1>4. owner \in [Pfns -> Records] /\ live \in SUBSET Blocks
  BY <1>1, Zenon DEF Written, Records
<1> HIDE DEF live, owner
<1>5. OwnerTypes' /\ MapsInv' /\ OutInv' /\ dump'.live = live /\ dump'.owner = owner
  BY <1>2, <1>4, KernelStep
<1>6. BlocksInv'
  <2>1. \A d \in live : d \in dump.live /\ d # b
    BY DEF live
  <2>2. \A d \in live : \A q \in PagesOf(d) : q \notin PagesOf(b) /\ q \in Pfns
    BY <2>1 DEF OwnerInv, BlocksInv
  <2>3. \A d \in live : \A q \in PagesOf(d) : owner[q] = dump.owner[q]
    BY <2>2, <1>3, Zenon
  <2>4. \A d \in live : \A q \in PagesOf(d) : q \in Pfns /\ owner[q].alloc /\ owner[q].order = d.order
                                               /\ owner[q].handle = d.handle /\ owner[q].pid = d.pid
    BY <2>1, <2>2, <2>3 DEF OwnerInv, BlocksInv, Owner
  <2>5. ASSUME NEW q \in Pfns, owner[q].alloc PROVE \E d \in live : q \in PagesOf(d)
    <3>1. dump.owner[q] \in Records
      BY <1>1
    <3>2. q \notin PagesOf(b)
      BY <2>5, <3>1, <1>3, Zenon DEF Records
    <3>3. dump.owner[q].alloc
      BY <2>5, <3>2, <1>3, Zenon
    <3> QED BY <3>2, <3>3 DEF OwnerInv, BlocksInv, Owner, live
  <2> QED BY <2>1, <2>4, <2>5, <1>5 DEF OwnerInv, BlocksInv, Owner
<1> QED BY <1>5, <1>6 DEF OwnerInv

\* split_page leaves one block of order 0 for each page.
LEMMA SplitKeeps ==
  ASSUME OwnerInv, NEW b \in dump.live, Split(b)
  PROVE  OwnerInv'
<1> DEFINE One(q) == [b EXCEPT !.pfn = q, !.order = 0]
           live == (dump.live \ {b}) \cup {One(q) : q \in PagesOf(b)}
           owner == Written(PagesOf(b), [q \in Pfns |-> [dump.owner[q] EXCEPT !.order = 0]])
<1>1. dump.owner \in [Pfns -> Records] /\ dump.live \in SUBSET Blocks /\ b \in Blocks
  BY DEF OwnerInv, OwnerTypes
<1>2. KernelOp(live, owner)
  BY Zenon DEF Split, PagesOf
<1>3. \A q \in Pfns : owner[q] = IF q \in PagesOf(b) THEN [dump.owner[q] EXCEPT !.order = 0] ELSE dump.owner[q]
  BY DEF Written
<1>4. \A q \in PagesOf(b) : q \in Pfns /\ dump.owner[q].alloc /\ dump.owner[q].handle = b.handle /\ dump.owner[q].pid = b.pid
  BY DEF OwnerInv, BlocksInv, Owner
<1>5. \A q \in Pfns : /\ One(q) \in Blocks /\ One(q).pfn = q /\ One(q).order = 0 
                      /\ One(q).handle = b.handle /\ One(q).pid = b.pid
  <2>1. 0 \in 0..MaxOrder
    BY OwnerAssumption
  <2> TAKE q \in Pfns
  <2> QED BY <2>1, <1>1, Zenon DEF Blocks
<1>6. owner \in [Pfns -> Records]
  BY <1>1, OwnerAssumption DEF Written, Records
<1>7. \A q \in PagesOf(b) : One(q) \in live
  BY Zenon
<1>8. \A d \in live : (d \in dump.live /\ d # b) \/ \E q \in PagesOf(b) : d = One(q)
  BY Zenon
<1>9. \A d \in dump.live : d = b \/ d \in live
  BY Zenon
<1> HIDE DEF live, owner, One
<1>10. live \in SUBSET Blocks
  BY <1>1, <1>4, <1>5, <1>8
<1>11. OwnerTypes' /\ MapsInv' /\ OutInv' /\ dump'.live = live /\ dump'.owner = owner
  BY <1>2, <1>6, <1>10, KernelStep
<1>12. \A q \in Pfns : PagesOf(One(q)) = {q}
  BY <1>5, FirstPage DEF OwnerInv
<1>13. BlocksInv'
  <2>1. \A d \in dump.live : d # b => \A q \in PagesOf(d) : q \notin PagesOf(b) /\ q \in Pfns
    BY DEF OwnerInv, BlocksInv
  <2>2. ASSUME NEW d \in live
        PROVE  /\ d.pfn % 2^d.order = 0
               /\ \A q \in PagesOf(d) : q \in Pfns /\ owner[q].alloc /\ owner[q].order = d.order
                                          /\ owner[q].handle = d.handle /\ owner[q].pid = d.pid
    <3>1. CASE d \in dump.live /\ d # b
      <4>1. \A q \in PagesOf(d) : q \in Pfns /\ owner[q] = dump.owner[q]
        BY <3>1, <2>1, <1>3, Zenon
      <4> QED BY <3>1, <4>1 DEF OwnerInv, BlocksInv, Owner
    <3>2. ASSUME NEW r \in PagesOf(b), d = One(r) 
          PROVE  /\ d.pfn % 2^d.order = 0
                 /\ \A q \in PagesOf(d) : q \in Pfns /\ owner[q].alloc /\ owner[q].order = d.order
                                            /\ owner[q].handle = d.handle /\ owner[q].pid = d.pid
      <4>1. r \in Pfns /\ r \in Int /\ PagesOf(d) = {r} /\ d.pfn = r /\ d.order = 0 /\ d.handle = b.handle /\ d.pid = b.pid
        BY <3>2, <1>4, <1>5, <1>12 DEF Pfns
      <4>2. dump.owner[r] \in Records /\ owner[r] = [dump.owner[r] EXCEPT !.order = 0]
        BY <4>1, <1>1, <1>3
      <4>3. owner[r].alloc = dump.owner[r].alloc /\ owner[r].order = 0 /\ owner[r].handle = b.handle /\ owner[r].pid = b.pid
        BY <4>2, <1>4 DEF Records
      <4>4. d.pfn % 2^d.order = 0
        <5>1. 2^d.order = 1
          BY <4>1
        <5> QED BY <4>1, <5>1
      <4> QED BY <4>1, <4>3, <4>4, <1>4
    <3> QED BY <3>1, <3>2, <1>8
  <2>3. ASSUME NEW q \in Pfns, owner[q].alloc PROVE \E d \in live : q \in PagesOf(d)
    <3>1. CASE q \in PagesOf(b)
      BY <3>1, <1>7, <1>12
    <3>2. CASE q \notin PagesOf(b)
      <4>1. dump.owner[q].alloc
        BY <2>3, <3>2, <1>3, Zenon
      <4>2. PICK d \in dump.live : q \in PagesOf(d)
        BY <4>1 DEF OwnerInv, BlocksInv, Owner
      <4> QED BY <3>2, <4>2, <1>9
    <3> QED BY <3>1, <3>2
  <2>4. ASSUME NEW d \in live, NEW e \in live, PagesOf(d) \cap PagesOf(e) # {} PROVE d = e
    <3>1. PICK q \in PagesOf(d) : q \in PagesOf(e)
      BY <2>4
    <3>2. CASE q \in PagesOf(b)
      <4>1. ~(d \in dump.live /\ d # b) /\ ~(e \in dump.live /\ e # b)
        BY <3>1, <3>2, <2>1
      <4>2. PICK r \in PagesOf(b), s \in PagesOf(b) : d = One(r) /\ e = One(s)
        BY <4>1, <1>8
      <4> QED BY <4>2, <3>1, <1>4, <1>12
    <3>3. CASE q \notin PagesOf(b)
      <4>1. \A r \in PagesOf(b) : d # One(r) /\ e # One(r)
        BY <3>1, <3>3, <1>4, <1>12
      <4> QED BY <4>1, <3>1, <1>8 DEF OwnerInv, BlocksInv
    <3> QED BY <3>2, <3>3
  <2> QED BY <2>2, <2>3, <2>4, <1>11 DEF BlocksInv, Owner
<1> QED BY <1>11, <1>13 DEF OwnerInv

\* The dump is taken as the kernel left it.
LEMMA PanicKeeps == ASSUME OwnerInv, Panic PROVE OwnerInv'
<1>1. PICK bad \in SUBSET Pfns, i \in BOOLEAN : dump' = [dump EXCEPT !.bad = bad, !.interrupts = i]
  BY Zenon DEF Panic
<1>2. pc = "kernel" /\ pc' = "page_owner" /\ UNCHANGED <<pos, out>>
  BY DEF Panic
<1>3. OwnerTypes' /\ dump'.live = dump.live /\ dump'.owner = dump.owner
  <2> DEFINE F == [Pfns -> Records]
             L == SUBSET Blocks
             G == SUBSET Pfns
             Dumps == [owner : F, live : L, bad : G, interrupts : BOOLEAN, ops : Nat]
  <2>1. dump \in Dumps /\ bad \in G /\ pos' = pos
    BY <1>2 DEF OwnerInv, OwnerTypes
  <2>2. dump' \in Dumps /\ dump'.live = dump.live /\ dump'.owner = dump.owner
    <3> HIDE DEF F, L, G
    <3> QED BY <1>1, <2>1, Zenon
  <2>3. pc' \in Places
    BY <1>2 DEF Places
  <2> QED BY <2>1, <2>2, <2>3 DEF OwnerInv, OwnerTypes
<1>4. BlocksInv'
  BY <1>3 DEF OwnerInv, BlocksInv, Owner
<1>5. pos.owner_map = {} /\ pos.handle_map = {} /\ out.op = "none"
  BY <1>2 DEF OwnerInv, MapsInv, OutInv
<1>6. MapsInv' /\ OutInv'
  BY <1>2, <1>5 DEF MapsInv, OutInv, WithHandle
<1> QED BY <1>3, <1>4, <1>6 DEF OwnerInv

\* The plugin changes neither the dump nor what it shows of it.
LEMMA SameDump ==
  ASSUME OwnerInv, dump' = dump
  PROVE  /\ BlocksInv' /\ Heads' = Heads /\ Whole' = Whole
         /\ \A p : Owner(p)' = Owner(p) /\ RangeOf(p)' = RangeOf(p)
         /\ pos'.owner_map = pos.owner_map => WithHandle' = WithHandle
         /\ \A field, S : RowsBy(field, S)' = RowsBy(field, S)
         /\ \A flag, p : IsShown(flag, p)' = IsShown(flag, p) /\ PageRows(flag, p)' = PageRows(flag, p)
<1>1. \A p : Owner(p)' = Owner(p)
  BY DEF Owner
<1>2. BlocksInv'
  BY DEF OwnerInv, BlocksInv, Owner
<1>3. Heads' = Heads
  BY <1>1 DEF Heads, IsHead
<1>4. Whole' = Whole
  BY DEF Whole
<1>5. \A p : RangeOf(p)' = RangeOf(p)
  BY <1>1 DEF RangeOf
<1>6. pos'.owner_map = pos.owner_map => WithHandle' = WithHandle
  BY <1>1 DEF WithHandle
<1>7. \A S : SizeOf(S)' = SizeOf(S)
  <2>1. [p \in Pfns |-> 2^(Owner(p).order)]' = [p \in Pfns |-> 2^(Owner(p).order)]
    BY <1>1
  <2> QED BY <2>1 DEF SizeOf
<1>8. \A field, S : RowsBy(field, S)' = RowsBy(field, S)
  BY <1>1, <1>7, Zenon DEF RowsBy
<1>9. \A flag, p : IsShown(flag, p)' = IsShown(flag, p)
  BY <1>1 DEF IsShown
<1>10. \A flag, p : PageRows(flag, p)' = PageRows(flag, p)
  BY <1>1, <1>5, <1>9 DEF PageRows, Stacks
<1> QED BY <1>1, <1>2, <1>3, <1>4, <1>5, <1>6, <1>8, <1>9, <1>10

\* A command with an empty owner_map starts parser_all_pageowners.
LEMMA CmdMainKeeps == ASSUME OwnerInv, CmdMain PROVE OwnerInv'
<1>1. /\ pc = "page_owner" /\ dump' = dump
      /\ pc' = IF pos.owner_map = {} THEN "pfn" ELSE "owner"
      /\ pos' = [pos EXCEPT !.cmds = @ + 1, !.pfn = 0]
      /\ out' = [op |-> "none"]
  BY DEF CmdMain
<1>2. OwnerTypes'
  <2>1. 0 \in 0..MaxPfn /\ pos.cmds + 1 \in Nat
    BY OwnerAssumption DEF OwnerInv, OwnerTypes
  <2>2. pc' \in Places
    BY <1>1 DEF Places
  <2> QED BY <2>1, <2>2, <1>1, Zenon DEF OwnerInv, OwnerTypes
<1>3. pos'.owner_map = pos.owner_map /\ pos'.handle_map = pos.handle_map /\ pos'.todo = pos.todo /\ pos'.pfn = 0
  BY <1>1 DEF OwnerInv, OwnerTypes
<1>4. BlocksInv' /\ Heads' = Heads /\ Whole' = Whole /\ WithHandle' = WithHandle
  BY <1>1, <1>3, SameDump
<1>5. MapsInv'
  <2>1. pos.owner_map = {} => pos.handle_map = {}
    BY DEF OwnerInv, MapsInv, WithHandle
  <2>2. {p \in Heads : p < 0} = {}
    BY DEF Heads, Pfns
  <2> QED BY <2>1, <2>2, <1>1, <1>3, <1>4 DEF OwnerInv, MapsInv
<1>6. OutInv'
  BY <1>1 DEF OutInv
<1> QED BY <1>2, <1>4, <1>5, <1>6 DEF OwnerInv

\* One page of parser_all_pageowners, or its end.
LEMMA ParsePfnKeeps == ASSUME OwnerInv, ParsePfn PROVE OwnerInv'
<1>1. pc = "pfn" /\ dump' = dump /\ out' = out
  BY DEF ParsePfn
<1>2. out.op = "none" /\ OutInv'
  BY <1>1 DEF OwnerInv, OutInv
<1>3. pos.handle_map = {} /\ pos.owner_map \subseteq Heads /\ (Whole => pos.owner_map = {p \in Heads : p < pos.pfn})
  BY <1>1 DEF OwnerInv, MapsInv
<1>4. BlocksInv' /\ Heads' = Heads /\ Whole' = Whole
  BY <1>1, SameDump
<1>5. CASE pos.pfn = MaxPfn
  <2>1. pc' = "owner" /\ pos' = pos
    BY <1>5 DEF ParsePfn
  <2>2. OwnerTypes'
    BY <2>1, <1>1 DEF OwnerInv, OwnerTypes, Places
  <2>3. {p \in Heads : p < pos.pfn} = Heads
    BY <1>5, OwnerAssumption DEF Heads, Pfns
  <2>4. MapsInv'
    BY <2>1, <2>3, <1>3, <1>4 DEF MapsInv, WithHandle
  <2> QED BY <2>2, <2>4, <1>2, <1>4 DEF OwnerInv
<1>6. CASE pos.pfn # MaxPfn
  <2>1. /\ pc' = "pfn"
        /\ pos' = [pos EXCEPT !.pfn = @ + 1, !.owner_map = IF Owner(pos.pfn).alloc /\ pos.pfn \notin dump.bad /\ IsHead(pos.pfn)
                                                           THEN @ \cup {pos.pfn} ELSE @]
    BY <1>6, <1>1 DEF ParsePfn
  <2>2. pos.pfn \in Pfns /\ pos.pfn + 1 \in 0..MaxPfn
    BY <1>6, OwnerAssumption DEF OwnerInv, OwnerTypes, Pfns
  <2>3. /\ pos'.pfn = pos.pfn + 1 /\ pos'.handle_map = {}
        /\ pos'.owner_map = IF pos.pfn \in Heads THEN pos.owner_map \cup {pos.pfn} ELSE pos.owner_map
    BY <2>1, <2>2, <1>3 DEF OwnerInv, OwnerTypes, Heads
  <2>4. OwnerTypes'
    BY <2>1, <2>2, <1>1, Zenon DEF OwnerInv, OwnerTypes, Places
  <2>5. pos'.owner_map \subseteq Heads
    BY <2>3, <1>3
  <2>6. Whole => pos'.owner_map = {p \in Heads : p < pos.pfn + 1}
    BY <2>2, <2>3, <1>3 DEF Heads, Pfns
  <2>7. MapsInv'
    BY <2>1, <2>3, <2>5, <2>6, <1>4 DEF MapsInv, WithHandle
  <2> QED BY <2>4, <2>7, <1>2, <1>4 DEF OwnerInv
<1> QED BY <1>5, <1>6

\* -t takes the pages with a stack from owner_map.
LEMMA FillHandlesKeeps == ASSUME OwnerInv, FillHandles PROVE OwnerInv'
<1>1. /\ pc = "owner" /\ dump' = dump /\ out' = out /\ pc' = "handles"
      /\ pos' = [pos EXCEPT !.todo = IF pos.handle_map = {} THEN WithHandle ELSE {}]
  BY DEF FillHandles
<1>2. out.op = "none" /\ OutInv'
  BY <1>1 DEF OwnerInv, OutInv
<1>3. WithHandle \subseteq Pfns
  BY DEF OwnerInv, OwnerTypes, WithHandle
<1>4. OwnerTypes'
  BY <1>1, <1>3 DEF OwnerInv, OwnerTypes, Places
<1>5. /\ pos'.owner_map = pos.owner_map /\ pos'.handle_map = pos.handle_map
      /\ pos'.todo = IF pos.handle_map = {} THEN WithHandle ELSE {}
  BY <1>1 DEF OwnerInv, OwnerTypes
<1>6. BlocksInv' /\ Heads' = Heads /\ Whole' = Whole /\ WithHandle' = WithHandle
  BY <1>1, <1>5, SameDump
<1>7. MapsInv'
  BY <1>1, <1>5, <1>6 DEF OwnerInv, MapsInv
<1> QED BY <1>2, <1>4, <1>6, <1>7 DEF OwnerInv

\* One page of the loop that fills handle_map.
LEMMA CountHandleKeeps == ASSUME OwnerInv, CountHandle PROVE OwnerInv'
<1>1. pc = "handles" /\ dump' = dump /\ out' = out /\ pc' = pc
  BY DEF CountHandle
<1>2. PICK p \in pos.todo : pos' = [pos EXCEPT !.todo = @ \ {p}, !.handle_map = @ \cup {p}]
  BY Zenon DEF CountHandle
<1>3. out.op = "none" /\ OutInv'
  BY <1>1 DEF OwnerInv, OutInv
<1>4. OwnerTypes'
  BY <1>1, <1>2, Zenon DEF OwnerInv, OwnerTypes
<1>5. /\ pos'.owner_map = pos.owner_map /\ pos'.handle_map = pos.handle_map \cup {p}
      /\ pos'.todo = pos.todo \ {p}
  BY <1>2 DEF OwnerInv, OwnerTypes
<1>6. BlocksInv' /\ Heads' = Heads /\ Whole' = Whole /\ WithHandle' = WithHandle
  BY <1>1, <1>5, SameDump
<1>7. MapsInv'
  BY <1>1, <1>5, <1>6 DEF OwnerInv, MapsInv
<1> QED BY <1>3, <1>4, <1>6, <1>7 DEF OwnerInv

\* An interrupted command leaves the maps as they are.
LEMMA RestartKeeps == ASSUME OwnerInv, Restart PROVE OwnerInv'
<1>1. /\ dump.interrupts /\ pc \in {"pfn", "owner", "handles"} /\ pc' = "page_owner"
      /\ dump' = dump /\ pos' = pos /\ out' = out
  BY DEF Restart
<1>2. out.op = "none" /\ OutInv'
  BY <1>1 DEF OwnerInv, OutInv
<1>3. OwnerTypes'
  BY <1>1 DEF OwnerInv, OwnerTypes, Places
<1>4. BlocksInv' /\ Heads' = Heads /\ ~Whole' /\ WithHandle' = WithHandle
  BY <1>1, SameDump DEF Whole
<1>5. MapsInv'
  BY <1>1, <1>4 DEF OwnerInv, MapsInv
<1> QED BY <1>2, <1>3, <1>4, <1>5 DEF OwnerInv

\* An option that prints leaves the maps alone, and finds them whole if nothing was lost.
LEMMA PrintStep ==
  ASSUME OwnerInv, pc \in {"owner", "handles"}, pc = "handles" => pos.todo = {},
         dump' = dump, pc' \in {"page_owner", "crash"},
         NEW R \in SUBSET Nat, pos' = [pos EXCEPT !.records = R]
  PROVE  /\ OwnerTypes' /\ BlocksInv' /\ MapsInv'
         /\ pos'.owner_map = pos.owner_map /\ pos'.handle_map = pos.handle_map
         /\ Whole => pos.owner_map = Heads
         /\ Whole /\ pc = "handles" => pos.handle_map = WithHandle
<1>1. pc' \in Places
  BY DEF Places
<1>2. OwnerTypes'
  BY <1>1 DEF OwnerInv, OwnerTypes
<1>3. pos'.owner_map = pos.owner_map /\ pos'.handle_map = pos.handle_map
  BY DEF OwnerInv, OwnerTypes
<1>4. BlocksInv' /\ Heads' = Heads /\ Whole' = Whole /\ WithHandle' = WithHandle
  BY <1>3, SameDump
<1>5. Whole => pos.owner_map = Heads
  BY DEF OwnerInv, MapsInv
<1>6. Whole /\ pc = "handles" => pos.handle_map = WithHandle
  BY DEF OwnerInv, MapsInv
<1>7. MapsInv'
  BY <1>3, <1>4, <1>5, <1>6 DEF OwnerInv, MapsInv
<1> QED BY <1>2, <1>3, <1>4, <1>5, <1>6, <1>7

\* page_owner -t.
LEMMA PrintHandlesKeeps == ASSUME OwnerInv, PrintHandles PROVE OwnerInv'
<1> DEFINE R == pos.records \cup {Owner(p).handle : p \in pos.handle_map}
<1>1. /\ pc = "handles" /\ pos.todo = {} /\ dump' = dump /\ pc' = "page_owner"
      /\ pos' = [pos EXCEPT !.records = R]
      /\ out' = [op |-> "t", rows |-> HandleRows]
  BY DEF PrintHandles, HandleRows
<1>2. R \in SUBSET Nat
  BY DEF OwnerInv, OwnerTypes, Owner, Records
<1> HIDE DEF R
<1>3. /\ OwnerTypes' /\ BlocksInv' /\ MapsInv'
      /\ pos'.owner_map = pos.owner_map /\ pos'.handle_map = pos.handle_map
      /\ Whole => pos.owner_map = Heads /\ pos.handle_map = WithHandle
  BY <1>1, <1>2, PrintStep
<1>4. Heads' = Heads /\ Whole' = Whole /\ WithHandle' = WithHandle /\ (\A p : Owner(p)' = Owner(p))
      /\ \A field, S : RowsBy(field, S)' = RowsBy(field, S)
  BY <1>1, <1>3, SameDump
<1>5. HandleRows' = HandleRows
  BY <1>3, <1>4 DEF HandleRows
<1>6. OutInv'
  BY <1>1, <1>3, <1>4, <1>5 DEF OutInv
<1> QED BY <1>3, <1>6 DEF OwnerInv

\* page_owner -m.
LEMMA PrintMemoryKeeps == ASSUME OwnerInv, PrintMemory PROVE OwnerInv'
<1> DEFINE S == {p \in WithHandle : Owner(p).pid > 0}
<1>1. /\ pc = "owner" /\ dump' = dump /\ pc' = "page_owner" /\ pos' = pos
      /\ out'.op = "m" /\ out'.rows = RowsBy("pid", S)
  BY DEF PrintMemory
<1>2. pos.records \in SUBSET Nat /\ pos' = [pos EXCEPT !.records = pos.records]
  BY <1>1 DEF OwnerInv, OwnerTypes
<1>3. /\ OwnerTypes' /\ BlocksInv' /\ MapsInv' /\ pos'.owner_map = pos.owner_map
      /\ Whole => pos.owner_map = Heads
  BY <1>1, <1>2, PrintStep, Zenon
<1>4. Heads' = Heads /\ Whole' = Whole /\ WithHandle' = WithHandle /\ (\A p : Owner(p)' = Owner(p))
      /\ \A field, T : RowsBy(field, T)' = RowsBy(field, T)
  BY <1>1, <1>3, SameDump
<1>5. S' = S
  BY <1>4
<1>6. RowsBy("pid", S)' = RowsBy("pid", S)
  <2> HIDE DEF S
  <2> QED BY <1>4, <1>5
<1>7. OutInv'
  BY <1>1, <1>3, <1>4, <1>6 DEF OutInv
<1> QED BY <1>3, <1>7 DEF OwnerInv

\* page_owner -a.
LEMMA PrintAllKeeps == ASSUME OwnerInv, PrintAll PROVE OwnerInv'
<1> DEFINE R == pos.records \cup {Owner(p).handle : p \in WithHandle}
<1>1. /\ pc = "owner" /\ dump' = dump /\ pc' = "page_owner"
      /\ pos' = [pos EXCEPT !.records = R]
      /\ out' = [op |-> "a", ranges |-> {RangeOf(p) : p \in WithHandle}]
  BY DEF PrintAll
<1>2. R \in SUBSET Nat
  BY DEF OwnerInv, OwnerTypes, Owner, Records, WithHandle
<1> HIDE DEF R
<1>3. /\ OwnerTypes' /\ BlocksInv' /\ MapsInv' /\ pos'.owner_map = pos.owner_map
      /\ Whole => pos.owner_map = Heads
  BY <1>1, <1>2, PrintStep
<1>4. Heads' = Heads /\ Whole' = Whole /\ WithHandle' = WithHandle /\ (\A p : RangeOf(p)' = RangeOf(p))
  BY <1>1, <1>3, SameDump
<1>5. OutInv'
  BY <1>1, <1>3, <1>4 DEF OutInv
<1> QED BY <1>3, <1>5 DEF OwnerInv

\* page_owner -f.
LEMMA PrintFreeKeeps == ASSUME OwnerInv, PrintFree PROVE OwnerInv'
<1> DEFINE freed == {p \in pos.owner_map : Owner(p).free_handle > 0}
           R == pos.records \cup {Owner(p).free_handle : p \in freed}
<1>1. /\ pc = "owner" /\ dump' = dump /\ pc' = "page_owner"
      /\ pos' = [pos EXCEPT !.records = R]
      /\ out' = [op |-> "f", ranges |-> {RangeOf(p) : p \in freed}]
  BY DEF PrintFree
<1>2. R \in SUBSET Nat
  BY DEF OwnerInv, OwnerTypes, Owner, Records, FreeStack
<1> HIDE DEF R
<1>3. /\ OwnerTypes' /\ BlocksInv' /\ MapsInv' /\ pos'.owner_map = pos.owner_map
      /\ Whole => pos.owner_map = Heads
  BY <1>1, <1>2, PrintStep
<1>4. Heads' = Heads /\ Whole' = Whole /\ (\A p : Owner(p)' = Owner(p) /\ RangeOf(p)' = RangeOf(p))
  BY <1>1, SameDump
<1>5. OutInv'
  BY <1>1, <1>3, <1>4 DEF OutInv
<1> QED BY <1>3, <1>5 DEF OwnerInv

\* page_owner -n and -P.
LEMMA PrintPageKeeps ==
  ASSUME OwnerInv, NEW flag \in {"n", "P"}, NEW p \in Pfns, PrintPage(flag, p) PROVE OwnerInv'
<1>1. pc = "owner" /\ dump' = dump /\ pc' \in {"page_owner", "crash"}
  BY DEF PrintPage
<1>2. PICK R \in SUBSET Nat : pos' = [pos EXCEPT !.records = R]
  <2>1. pos.records \in SUBSET Nat /\ pos = [pos EXCEPT !.records = pos.records]
    BY DEF OwnerInv, OwnerTypes
  <2>2. Stacks(p) \subseteq Nat
    BY DEF OwnerInv, OwnerTypes, Owner, Records, FreeStack, Stacks
  <2>3. pos' = pos \/ pos' = [pos EXCEPT !.records = pos.records \cup Stacks(p)]
    BY DEF PrintPage, Stacks
  <2> QED BY <2>1, <2>2, <2>3
<1>3. /\ OwnerTypes' /\ BlocksInv' /\ MapsInv' /\ pos'.owner_map = pos.owner_map
      /\ Whole => pos.owner_map = Heads
  BY <1>1, <1>2, PrintStep
<1>4. Heads' = Heads /\ Whole' = Whole /\ PageRows(flag, p)' = PageRows(flag, p)
  BY <1>1, SameDump
<1>5. \/ pc' = "crash" /\ out' = out
      \/ pc' = "page_owner" /\ out' = [op |-> flag, pfn |-> p, rows |-> PageRows(flag, p)]
  BY DEF PrintPage, PageRows, Stacks
<1>6. out.op = "none"
  BY <1>1 DEF OwnerInv, OutInv
<1>7. OutInv'
  <2>1. CASE pc' = "crash" /\ out' = out
    BY <2>1, <1>6 DEF OutInv
  <2>2. CASE pc' = "page_owner" /\ out' = [op |-> flag, pfn |-> p, rows |-> PageRows(flag, p)]
    <3>1. out'.op = flag /\ out'.pfn = p /\ out'.rows = PageRows(flag, p)'
      BY <2>2, <1>4
    <3>2. out'.rows = PageRows(out.op, out.pfn)'
      BY <3>1
    <3> QED BY <2>2, <3>1, <3>2, <1>3, <1>4 DEF OutInv
  <2> QED BY <2>1, <2>2, <1>5
<1> QED BY <1>3, <1>7 DEF OwnerInv

\* Every step keeps the invariant.
LEMMA NextInv == ASSUME OwnerInv, [NextOwner]_owners PROVE OwnerInv'
<1>1. CASE NextOwner
  BY <1>1, AllocKeeps, FreeKeeps, SplitKeeps, PanicKeeps, CmdMainKeeps, ParsePfnKeeps, FillHandlesKeeps, CountHandleKeeps,
     PrintHandlesKeeps, PrintMemoryKeeps, PrintAllKeeps, PrintFreeKeeps, RestartKeeps, PrintPageKeeps DEF NextOwner
<1>2. CASE UNCHANGED owners
  <2>1. dump' = dump /\ pc' = pc /\ pos' = pos /\ out' = out
    BY <1>2 DEF owners
  <2>2. /\ BlocksInv' /\ Heads' = Heads /\ Whole' = Whole /\ WithHandle' = WithHandle
        /\ \A p : Owner(p)' = Owner(p) /\ RangeOf(p)' = RangeOf(p)
        /\ \A field, S : RowsBy(field, S)' = RowsBy(field, S)
        /\ \A flag, p : PageRows(flag, p)' = PageRows(flag, p)
    BY <2>1, SameDump
  <2>3. OwnerTypes' /\ MapsInv'
    BY <2>1, <2>2 DEF OwnerInv, OwnerTypes, MapsInv
  <2>4. HandleRows' = HandleRows
    BY <2>1, <2>2, Zenon DEF HandleRows
  <2>5. RowsBy("pid", {p \in WithHandle : Owner(p).pid > 0})' = RowsBy("pid", {p \in WithHandle : Owner(p).pid > 0})
    <3> DEFINE S == {p \in WithHandle : Owner(p).pid > 0}
    <3>1. S' = S
      BY <2>2
    <3> HIDE DEF S
    <3>2. RowsBy("pid", S)' = RowsBy("pid", S)
      BY <3>1, <2>2
    <3> QED BY <3>2 DEF S
  <2>6. OutInv'
    BY <2>1, <2>2, <2>4, <2>5 DEF OwnerInv, OutInv
  <2> QED BY <2>2, <2>3, <2>6 DEF OwnerInv
<1> QED BY <1>1, <1>2

-----------------------------------------------------------------------------

\* A page the plugin takes for the first of a block is the first of a block.
LEMMA HeadBlock ==
  ASSUME OwnerInv, NEW p \in Heads
  PROVE  \E b \in dump.live : /\ b.pfn = p /\ b.order = Owner(p).order
                              /\ b.handle = Owner(p).handle /\ b.pid = Owner(p).pid
<1>1. p \in Pfns /\ Owner(p).alloc /\ p % 2^(Owner(p).order) = 0
  BY DEF Heads, IsHead
<1>2. PICK b \in dump.live : p \in PagesOf(b)
  BY <1>1 DEF OwnerInv, BlocksInv
<1>3. /\ Owner(p).order = b.order /\ Owner(p).handle = b.handle /\ Owner(p).pid = b.pid
      /\ b.pfn % 2^b.order = 0
  BY <1>2 DEF OwnerInv, BlocksInv
<1>4. b.pfn \in Nat /\ p \in Nat /\ b.order \in Nat
  BY <1>1, OwnerAssumption DEF OwnerInv, OwnerTypes, Blocks, Pfns
<1>5. 2^b.order \in Nat /\ 2^b.order > 0
  BY <1>4, PowerOfTwo
<1>6. b.pfn <= p /\ p < b.pfn + 2^b.order
  BY <1>2, <1>4, <1>5 DEF PagesOf, Block
<1>7. b.pfn = p
  BY <1>1, <1>3, <1>4, <1>5, <1>6, AlignedApart, Zenon
<1> QED BY <1>3, <1>7

\* The first page of a block is taken for it when it can be read, and is that of no other.
LEMMA BlockHead ==
  ASSUME OwnerInv, NEW b \in dump.live
  PROVE  /\ b.pfn \in Pfns
         /\ Owner(b.pfn).order = b.order /\ Owner(b.pfn).handle = b.handle /\ Owner(b.pfn).pid = b.pid
         /\ dump.bad = {} => b.pfn \in Heads
         /\ \A c \in dump.live : c.pfn = b.pfn => c = b
<1>1. \A c \in dump.live : c.pfn \in PagesOf(c)
  BY FirstPage DEF OwnerInv, OwnerTypes
<1>2. /\ b.pfn \in Pfns /\ Owner(b.pfn).alloc
      /\ Owner(b.pfn).order = b.order /\ Owner(b.pfn).handle = b.handle /\ Owner(b.pfn).pid = b.pid
  BY <1>1 DEF OwnerInv, BlocksInv
<1>3. b.pfn % 2^b.order = 0
  BY DEF OwnerInv, BlocksInv
<1>4. dump.bad = {} => b.pfn \in Heads
  BY <1>2, <1>3 DEF Heads, IsHead
<1>5. \A c \in dump.live : c.pfn = b.pfn => c = b
  BY <1>1 DEF OwnerInv, BlocksInv
<1> QED BY <1>2, <1>4, <1>5

\* The pages listed by -a and -f are those of the blocks.
LEMMA BlocksFound == ASSUME OwnerInv PROVE OwnerBlocks
<1>1. \A p \in pos.owner_map : \E b \in dump.live : b.pfn = p /\ b.order = Owner(p).order
  BY HeadBlock DEF OwnerInv, MapsInv
<1>2. ASSUME out.op = "a", Whole
      PROVE  out.ranges = {<<b.pfn, b.pfn + 2^b.order>> : b \in {b \in dump.live : b.handle > 0}}
  <2>1. out.ranges = {RangeOf(p) : p \in WithHandle} /\ pos.owner_map = Heads
    BY <1>2 DEF OwnerInv, OutInv
  <2>2. \A p \in WithHandle : \E b \in dump.live : b.handle > 0 /\ RangeOf(p) = <<b.pfn, b.pfn + 2^b.order>>
    BY <2>1, HeadBlock DEF WithHandle, RangeOf
  <2>3. \A b \in dump.live : b.handle > 0 => b.pfn \in WithHandle /\ RangeOf(b.pfn) = <<b.pfn, b.pfn + 2^b.order>>
    BY <1>2, <2>1, BlockHead DEF Whole, WithHandle, RangeOf
  <2> QED BY <2>1, <2>2, <2>3
<1> QED BY <1>1, <1>2 DEF OwnerBlocks, Named

\* -n and -P show the block the page is in.
LEMMA PageShown == ASSUME OwnerInv PROVE OwnerOfPage
<1>1. ASSUME out.op \in {"n", "P"}
      PROVE  LET blocks == {b \in dump.live : out.pfn \in Block(b.pfn, b.order)}
             IN  /\ \A r \in out.rows : \E b \in blocks :
                      /\ r.stack \in {b.handle, FreeStack} /\ r.pid = b.pid
                      /\ r.range = <<b.pfn, b.pfn + 2^b.order>> <=> out.pfn = b.pfn
                 /\ out.pfn > 0 => \A b \in blocks : b.handle > 0 => \E r \in out.rows : r.stack = b.handle
  <2> DEFINE p == out.pfn
             blocks == {b \in dump.live : p \in Block(b.pfn, b.order)}
  <2>1. p \in Pfns /\ out.rows = PageRows(out.op, p)
    BY <1>1 DEF OwnerInv, OutInv
  <2>2. \A b \in blocks : /\ Owner(p).alloc /\ Owner(p).order = b.order
                          /\ Owner(p).handle = b.handle /\ Owner(p).pid = b.pid
    BY DEF OwnerInv, BlocksInv, PagesOf
  <2>3. Owner(p) \in Records
    BY <2>1 DEF OwnerInv, OwnerTypes, Owner
  <2>4. ASSUME NEW r \in out.rows
        PROVE  \E b \in blocks : /\ r.stack \in {b.handle, FreeStack} /\ r.pid = b.pid
                                 /\ r.range = <<b.pfn, b.pfn + 2^b.order>> <=> p = b.pfn
    <3>1. /\ Owner(p).alloc /\ r.pid = Owner(p).pid /\ r.range = <<p, p + 2^(Owner(p).order)>>
          /\ r.stack \in Stacks(p)
      BY <2>1 DEF PageRows, IsShown, RangeOf
    <3>2. PICK b \in blocks : TRUE
      BY <2>1, <3>1 DEF OwnerInv, BlocksInv, PagesOf
    <3>3. r.stack \in {b.handle, FreeStack} /\ r.pid = b.pid
      BY <3>1, <2>2, <2>3 DEF Stacks, Records
    <3>4. r.range = <<b.pfn, b.pfn + 2^b.order>> <=> p = b.pfn
      BY <3>1, <2>2
    <3> QED BY <3>3, <3>4
  <2>5. ASSUME p > 0, NEW b \in blocks, b.handle > 0 PROVE \E r \in out.rows : r.stack = b.handle
    <3>1. IsShown(out.op, p) /\ b.handle \in Stacks(p)
      BY <2>2, <2>5 DEF IsShown, Stacks
    <3> DEFINE row == [stack |-> b.handle, pid |-> Owner(p).pid, range |-> RangeOf(p)]
    <3>2. row \in out.rows /\ row.stack = b.handle
      BY <3>1, <2>1 DEF PageRows
    <3> QED BY <3>2
  <2> QED BY <2>4, <2>5
<1>2. ASSUME out.op = "f" PROVE \A r \in out.ranges : \E b \in dump.live : r = <<b.pfn, b.pfn + 2^b.order>>
  <2>1. out.ranges = {RangeOf(p) : p \in {q \in pos.owner_map : Owner(q).free_handle > 0}}
    BY <1>2 DEF OwnerInv, OutInv
  <2>2. \A p \in pos.owner_map : \E b \in dump.live : RangeOf(p) = <<b.pfn, b.pfn + 2^b.order>>
    BY HeadBlock DEF OwnerInv, MapsInv, RangeOf
  <2> QED BY <2>1, <2>2
<1> QED BY <1>1, <1>2 DEF OwnerOfPage

\* There are finitely many blocks and pages.
LEMMA LiveFinite == ASSUME OwnerInv PROVE IsFiniteSet(dump.live) /\ IsFiniteSet(Pfns)
<1>1. IsFiniteSet(Pfns)
  BY OwnerAssumption, FS_Interval DEF Pfns
<1>2. [b \in dump.live |-> b.pfn] \in Injection(dump.live, Pfns)
  BY BlockHead DEF Injection, IsInjective
<1> QED BY <1>1, <1>2, FS_Injection

\* Pages found and blocks that belong together are as many and as large, or the pages are
\* fewer and smaller.
LEMMA Agreement ==
  ASSUME OwnerInv, NEW S \in SUBSET Heads, NEW bs \in SUBSET dump.live,
         \A b \in dump.live : b.pfn \in S => b \in bs,
         Whole => \A b \in bs : b.pfn \in S
  PROVE  /\ Cardinality(S) <= Cardinality(bs) /\ SizeOf(S) <= AmountOf(bs)
         /\ Whole => Cardinality(S) = Cardinality(bs) /\ SizeOf(S) = AmountOf(bs)
<1> DEFINE m == [p \in S |-> CHOOSE b \in dump.live : b.pfn = p]
           T == {m[p] : p \in S}
           f == [p \in Pfns |-> 2^(Owner(p).order)]
           g == [b \in dump.live |-> 2^b.order]
<1>1. \A p \in S : m[p] \in dump.live /\ m[p].pfn = p
  BY HeadBlock
<1>2. T \in SUBSET bs /\ (Whole => T = bs)
  <2>1. \A b \in bs : b.pfn \in S => m[b.pfn] = b
    BY <1>1, BlockHead
  <2> QED BY <1>1, <2>1
<1>3. IsFiniteSet(bs) /\ IsFiniteSet(S) /\ IsFiniteSet(T)
  <2>1. IsFiniteSet(bs)
    BY LiveFinite, FS_Subset
  <2>2. S \in SUBSET Pfns
    BY DEF Heads
  <2>3. IsFiniteSet(S)
    BY <2>2, LiveFinite, FS_Subset
  <2>4. IsFiniteSet(T)
    BY <2>1, <1>2, FS_Subset
  <2> QED BY <2>1, <2>3, <2>4
<1>4. m \in Bijection(S, T)
  <2>1. m \in [S -> T] /\ DOMAIN m = S
    OBVIOUS
  <2>2. \A p, q \in S : m[p] = m[q] => p = q
    BY <1>1
  <2>3. \A t \in T : \E p \in S : m[p] = t
    OBVIOUS
  <2> HIDE DEF m, T
  <2> QED BY <2>1, <2>2, <2>3 DEF Bijection, Injection, Surjection, IsInjective
<1>5. Cardinality(S) = Cardinality(T)
  BY <1>3, <1>4, FS_Bijection DEF ExistsBijection
<1>6. \A b \in dump.live : g[b] \in Nat
  <2>1. \A b \in dump.live : b.order \in Nat
    BY OwnerAssumption DEF OwnerInv, OwnerTypes, Blocks
  <2> QED BY <2>1, PowerOfTwo
<1>7. \A p \in S : f[p] \in Int /\ g[m[p]] = f[p]
  <2> SUFFICES ASSUME NEW p \in S PROVE f[p] \in Int /\ g[m[p]] = f[p]
    BY Zenon
  <2>1. p \in Pfns
    BY DEF Heads
  <2>2. m[p] \in dump.live /\ Owner(p).order = m[p].order
    BY <1>1, BlockHead
  <2>3. f[p] = 2^(Owner(p).order) /\ g[m[p]] = 2^(m[p].order)
    BY <2>1, <2>2
  <2>4. g[m[p]] \in Nat
    BY <2>2, <1>6, Zenon
  <2> HIDE DEF m, f, g
  <2> QED BY <2>2, <2>3, <2>4
<1> HIDE DEF m, T, f, g
<1>8. SumFunctionOnSet(f, S) = SumFunctionOnSet(g, T)
  BY <1>3, <1>4, <1>7, SumMapped
<1>9. SumFunctionOnSet(g, T) <= SumFunctionOnSet(g, bs)
  BY <1>2, <1>3, <1>6, SumGrows
<1>10. SizeOf(S) = SumFunctionOnSet(f, S) /\ AmountOf(bs) = SumFunctionOnSet(g, bs)
  BY DEF SizeOf, AmountOf, f, g
<1>11. Cardinality(T) <= Cardinality(bs)
  BY <1>2, <1>3, FS_Subset
<1> QED BY <1>2, <1>5, <1>8, <1>9, <1>10, <1>11

\* A row counts the blocks of bs, all of them when nothing was lost.
Agrees(r, bs) == /\ r.cnt <= Cardinality(bs) /\ r.size <= AmountOf(bs)
                 /\ Whole => r.cnt = Cardinality(bs) /\ r.size = AmountOf(bs)

\* A row is about the pages with its key.
LEMMA RowOf ==
  ASSUME NEW field, NEW P, NEW r \in RowsBy(field, P)
  PROVE  LET of == {p \in P : Owner(p)[field] = r.key}
         IN  of # {} /\ r.cnt = Cardinality(of) /\ r.size = SizeOf(of)
<1>1. PICK v \in {Owner(p)[field] : p \in P} :
        r = LET of == {p \in P : Owner(p)[field] = v}
            IN  [key |-> v, cnt |-> Cardinality(of), size |-> SizeOf(of)]
  BY DEF RowsBy
<1>2. r.key = v
  BY <1>1
<1> DEFINE of == {p \in P : Owner(p)[field] = v}
<1>3. r.cnt = Cardinality(of) /\ r.size = SizeOf(of)
  BY <1>1
<1>4. of # {}
  BY <1>1
<1> QED BY <1>2, <1>3, <1>4

\* There is a row for each key.
LEMMA RowKeys ==
  ASSUME NEW field, NEW P
  PROVE  {r.key : r \in RowsBy(field, P)} = {Owner(p)[field] : p \in P}
<1> DEFINE Row(v) == LET of == {p \in P : Owner(p)[field] = v}
                     IN  [key |-> v, cnt |-> Cardinality(of), size |-> SizeOf(of)]
           V == {Owner(p)[field] : p \in P}
<1>1. RowsBy(field, P) = {Row(v) : v \in V}
  BY DEF RowsBy
<1>2. \A v : Row(v).key = v
  OBVIOUS
<1> HIDE DEF Row, V
<1>3. {r.key : r \in RowsBy(field, P)} = V
  BY <1>1, <1>2
<1> QED BY <1>3 DEF V

\* The rows of -m are about the blocks of their process.
LEMMA TotalsMemory == 
  ASSUME OwnerInv, out.op = "m"
  PROVE  /\ Whole => {r.key : r \in out.rows} = {b.pid : b \in {b \in dump.live : b.handle > 0 /\ b.pid > 0}}
         /\ \A r \in out.rows : Agrees(r, {b \in dump.live : b.handle > 0 /\ b.pid = r.key})
<1> DEFINE P == {p \in WithHandle : Owner(p).pid > 0}
<1>1. out.rows = RowsBy("pid", P) /\ (Whole => pos.owner_map = Heads)
  BY DEF OwnerInv, OutInv
<1>2. P \in SUBSET Heads
  BY DEF OwnerInv, MapsInv, WithHandle
<1>3. ASSUME NEW b \in dump.live
      PROVE  /\ b.pfn \in P => b.handle > 0 /\ b.pid > 0 /\ b.pid = Owner(b.pfn).pid
             /\ Whole /\ b.handle > 0 /\ b.pid > 0 => b.pfn \in P /\ b.pid = Owner(b.pfn).pid
  <2>1. /\ Owner(b.pfn).handle = b.handle /\ Owner(b.pfn).pid = b.pid
        /\ dump.bad = {} => b.pfn \in Heads
    BY BlockHead
  <2> QED BY <1>1, <2>1 DEF WithHandle, Whole
<1>4. ASSUME Whole
      PROVE  {Owner(p).pid : p \in P} = {b.pid : b \in {b \in dump.live : b.handle > 0 /\ b.pid > 0}}
  <2>1. \A p \in P : \E b \in dump.live : b.pfn = p
    BY <1>2, HeadBlock
  <2> HIDE DEF P
  <2> QED BY <1>3, <1>4, <2>1
<1>5. ASSUME NEW r \in out.rows
      PROVE  Agrees(r, {b \in dump.live : b.handle > 0 /\ b.pid = r.key})
  <2> DEFINE S == {p \in P : Owner(p).pid = r.key}
             bs == {b \in dump.live : b.handle > 0 /\ b.pid = r.key}
  <2>1. S # {} /\ r.cnt = Cardinality(S) /\ r.size = SizeOf(S)
    BY <1>1, RowOf
  <2>2. r.key > 0
    BY <2>1
  <2>3. S \in SUBSET Heads /\ bs \in SUBSET dump.live
    BY <1>2
  <2>4. \A b \in dump.live : b.pfn \in S => b \in bs
    BY <1>3
  <2>5. Whole => \A b \in bs : b.pfn \in S
    BY <1>3, <2>2
  <2> HIDE DEF S, bs
  <2>6. Agrees(r, bs)
    BY <2>1, <2>3, <2>4, <2>5, Agreement DEF Agrees
  <2> QED BY <2>6 DEF bs
<1> QED BY <1>1, <1>4, <1>5, RowKeys, Zenon

\* The rows of -t are about the blocks of their stack, and of a process under it.
LEMMA TotalsHandles ==
  ASSUME OwnerInv, out.op = "t"
  PROVE  /\ Whole => {t.row.key : t \in out.rows} = {b.handle : b \in {b \in dump.live : b.handle > 0}}
         /\ \A t \in out.rows :
              /\ Agrees(t.row, {b \in dump.live : b.handle > 0 /\ b.handle = t.row.key})
              /\ \A r \in t.pids :
                   Agrees(r, {b \in dump.live : b.handle > 0 /\ b.handle = t.row.key /\ b.pid = r.key})
<1> DEFINE P == pos.handle_map
           Under(h) == {p \in P : Owner(p).handle = h /\ Owner(p).pid > 0}
<1>1. /\ out.rows = {[row |-> r, pids |-> RowsBy("pid", Under(r.key))] : r \in RowsBy("handle", P)}
      /\ Whole => P = WithHandle /\ pos.owner_map = Heads
  BY DEF OwnerInv, OutInv, HandleRows
<1>2. P \in SUBSET Heads /\ \A p \in P : Owner(p).handle > 0
  BY DEF OwnerInv, MapsInv, WithHandle
<1>3. ASSUME NEW b \in dump.live
      PROVE  /\ b.pfn \in P => b.handle > 0
             /\ b.handle = Owner(b.pfn).handle /\ b.pid = Owner(b.pfn).pid
             /\ Whole /\ b.handle > 0 => b.pfn \in P
  <2>1. /\ Owner(b.pfn).handle = b.handle /\ Owner(b.pfn).pid = b.pid
        /\ dump.bad = {} => b.pfn \in Heads
    BY BlockHead
  <2> QED BY <1>1, <1>2, <2>1 DEF WithHandle, Whole
<1>4. ASSUME Whole
      PROVE  {Owner(p).handle : p \in P} = {b.handle : b \in {b \in dump.live : b.handle > 0}}
  <2>1. \A p \in P : \E b \in dump.live : b.pfn = p
    BY <1>2, HeadBlock
  <2> HIDE DEF P
  <2> QED BY <1>3, <1>4, <2>1
<1>5. {t.row.key : t \in out.rows} = {r.key : r \in RowsBy("handle", P)}
  <2> DEFINE Table(r) == [row |-> r, pids |-> RowsBy("pid", Under(r.key))]
             R == RowsBy("handle", P)
  <2>1. \A r : Table(r).row = r
    OBVIOUS
  <2>2. out.rows = {Table(r) : r \in R}
    BY <1>1
  <2> HIDE DEF Table, R
  <2>3. {t.row.key : t \in out.rows} = {r.key : r \in R}
    BY <2>1, <2>2
  <2> QED BY <2>3, Zenon DEF R
<1>6. ASSUME NEW t \in out.rows
      PROVE  /\ Agrees(t.row, {b \in dump.live : b.handle > 0 /\ b.handle = t.row.key})
             /\ \A r \in t.pids :
                  Agrees(r, {b \in dump.live : b.handle > 0 /\ b.handle = t.row.key /\ b.pid = r.key})
  <2>1. t.row \in RowsBy("handle", P) /\ t.pids = RowsBy("pid", Under(t.row.key))
    <3>1. PICK r \in RowsBy("handle", P) : t = [row |-> r, pids |-> RowsBy("pid", Under(r.key))]
      BY <1>1, Zenon
    <3>2. t.row = r /\ t.pids = RowsBy("pid", Under(r.key))
      BY <3>1
    <3> QED BY <3>2
  <2> DEFINE h == t.row.key
  <2>2. Agrees(t.row, {b \in dump.live : b.handle > 0 /\ b.handle = h})
    <3> DEFINE S == {p \in P : Owner(p).handle = h}
               bs == {b \in dump.live : b.handle > 0 /\ b.handle = h}
    <3>1. t.row.cnt = Cardinality(S) /\ t.row.size = SizeOf(S)
      <4>1. ASSUME NEW r \in RowsBy("handle", P)
            PROVE  r.cnt = Cardinality({p \in P : Owner(p).handle = r.key})
                   /\ r.size = SizeOf({p \in P : Owner(p).handle = r.key})
        BY RowOf
      <4> QED BY <2>1, <4>1
    <3>2. S \in SUBSET Heads /\ bs \in SUBSET dump.live
      BY <1>2
    <3>3. \A b \in dump.live : b.pfn \in S => b \in bs
      BY <1>3
    <3>4. Whole => \A b \in bs : b.pfn \in S
      BY <1>3
    <3> HIDE DEF S, bs
    <3>5. Agrees(t.row, bs)
      BY <3>1, <3>2, <3>3, <3>4, Agreement DEF Agrees
    <3> QED BY <3>5 DEF bs
  <2>3. ASSUME NEW r \in t.pids
        PROVE  Agrees(r, {b \in dump.live : b.handle > 0 /\ b.handle = h /\ b.pid = r.key})
    <3> DEFINE S == {p \in Under(h) : Owner(p).pid = r.key}
               bs == {b \in dump.live : b.handle > 0 /\ b.handle = h /\ b.pid = r.key}
    <3>1. S # {} /\ r.cnt = Cardinality(S) /\ r.size = SizeOf(S)
      <4>1. r \in RowsBy("pid", Under(h))
        BY <2>1
      <4> HIDE DEF Under
      <4> QED BY <4>1, RowOf
    <3>2. S \in SUBSET Heads /\ bs \in SUBSET dump.live /\ r.key > 0
      BY <1>2, <3>1
    <3>3. \A b \in dump.live : b.pfn \in S => b \in bs
      BY <1>3
    <3>4. Whole => \A b \in bs : b.pfn \in S
      BY <1>3, <3>2
    <3> HIDE DEF S, bs
    <3>5. Agrees(r, bs)
      BY <3>1, <3>2, <3>3, <3>4, Agreement DEF Agrees
    <3> QED BY <3>5 DEF bs
  <2> QED BY <2>2, <2>3
<1> QED BY <1>1, <1>4, <1>5, <1>6, RowKeys, Zenon

\* The counts and sizes are those of the blocks.
LEMMA TotalsRight == ASSUME OwnerInv PROVE OwnerTotals
<1>1. out.op = "m" /\ Whole => {r.key : r \in out.rows} = {b.pid : b \in Named(LAMBDA b : b.pid > 0)}
  BY TotalsMemory DEF Named
<1>2. ASSUME out.op = "m", NEW r \in out.rows
      PROVE  Agrees(r, Named(LAMBDA b : b.pid = r.key))
  BY <1>2, TotalsMemory DEF Named
<1>3. out.op = "t" /\ Whole => {t.row.key : t \in out.rows} = {b.handle : b \in Named(LAMBDA b : TRUE)}
  BY TotalsHandles, Zenon DEF Named
<1>4. ASSUME out.op = "t", NEW t \in out.rows
      PROVE  Agrees(t.row, Named(LAMBDA b : b.handle = t.row.key))
  BY <1>4, TotalsHandles DEF Named
<1>5. ASSUME out.op = "t", NEW t \in out.rows, NEW r \in t.pids
      PROVE  Agrees(r, Named(LAMBDA b : b.handle = t.row.key /\ b.pid = r.key))
  BY <1>5, TotalsHandles, Zenon DEF Named
<1> QED BY <1>1, <1>2, <1>3, <1>4, <1>5, Zenon DEF OwnerTotals, Agrees

\* page_owner's answers are right in every state of the model, for every number of pages.
THEOREM OwnerIsExact == SpecOwner => []OwnerExact
<1>1. InitOwner => OwnerInv
  BY InitInv
<1>2. OwnerInv /\ [NextOwner]_owners => OwnerInv'
  BY NextInv
<1>3. OwnerInv => OwnerExact
  BY BlocksFound, TotalsRight, PageShown DEF OwnerExact
<1> QED BY <1>1, <1>2, <1>3, PTL DEF SpecOwner

=============================================================================
