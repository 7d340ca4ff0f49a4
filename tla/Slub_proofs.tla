---------------------------- MODULE Slub_proofs -----------------------------
(***************************************************************************)
(* The objects of a slab, for slabs, free lists and layouts of any size:   *)
(* the free list walk of parser_slab lists the right objects as freed, and *)
(* the checks of slub -P look at the bytes the kernel guards and call the  *)
(* right objects corrupted.                                                *)
(***************************************************************************)
EXTENDS SlubObjects, FiniteSetTheorems, TLAPS

\* A smaller factor gives a product that is smaller by at least the other one.
LEMMA LessMultiple ==
  ASSUME NEW s \in Nat, NEW a \in Nat, NEW b \in Nat, a < b PROVE (a + 1) * s <= b * s
<1>1. PICK d \in Nat : b = a + 1 + d
  BY b - a - 1 \in Nat, b = a + 1 + (b - a - 1)
<1>2. b * s = (a + 1) * s + d * s /\ d * s \in Nat
  BY <1>1
<1> QED BY <1>2

\* Division by a size, when the quotient is known.
LEMMA Quotient ==
  ASSUME NEW s \in Nat \ {0}, NEW d \in Nat, NEW i \in Nat, i * s <= d, d < (i + 1) * s
  PROVE  d \div s = i
<1>1. d = s * (d \div s) + (d % s) /\ d \div s \in Nat /\ d % s \in 0..(s - 1)
  OBVIOUS
<1>2. (d \div s) * s <= d /\ d < ((d \div s) + 1) * s
  BY <1>1
<1>3. ~(i < d \div s)
  BY <1>1, <1>2, LessMultiple
<1>4. ~(d \div s < i)
  BY <1>1, <1>2, LessMultiple
<1> QED BY <1>1, <1>3, <1>4

-----------------------------------------------------------------------------
(* The free list walk.                                                       *)

DumpType ==
  /\ totalobj \in 0..MaxObj /\ dump.freelist \in Pointers
  /\ dump.freeptr \in [{a \in Pointers : IsKvaddr(a)} -> Pointers]

\* The walk has followed a proper initial part p of the free list and marked its
\* objects; or it has met a pointer whose index wraps.
WalkedTo(n, p) ==
  \/ Aliases(p[n])
  \/ /\ fobj = p[n]
     /\ obj_free = {ObjectAt(p[k]) : k \in 0..(n - 1)}
     /\ pc # "walk" => Ends(n, p)

WalkInv ==
  /\ DumpType
  /\ pc \in {"walk", "list", "listed"}
  /\ fobj \in Pointers /\ obj_free \subseteq 0..(totalobj - 1)
  /\ \E n \in 0..totalobj : \E p \in [0..n -> Pointers] : Proper(n, p) /\ WalkedTo(n, p)
  /\ pc = "listed" => out = [i \in 1..totalobj |-> <<i, (i - 1) \in obj_free>>]

\* The index the code computes for a pointer into the slab is that of its object.
LEMMA IndexOfPointer ==
  ASSUME SlabAssumption, totalobj \in 0..MaxObj, NEW a, InSlab(a)
  PROVE  /\ ObjectAt(a) \in 0..(totalobj - 1)
         /\ Index(a) = ObjectAt(a)
         /\ Index(a) < totalobj
         /\ IsKvaddr(a)
<1> USE DEF SlabAssumption
<1> DEFINE d == a - slab_vaddr
           q == d \div size
<1>1. a \in Nat /\ d \in Nat /\ slab_vaddr \in Nat /\ size \in Nat \ {0} /\ totalobj \in Nat /\ MaxObj \in Nat
  BY DEF InSlab
<1>2. totalobj * size \in Nat /\ MaxObj * size \in Nat /\ totalobj * size <= MaxObj * size
  BY <1>1
<1>3. d < totalobj * size /\ d < AddrMod
  BY <1>1, <1>2 DEF InSlab
<1>4. q \in Nat /\ q * size <= d /\ d < (q + 1) * size
  <2>1. d = size * q + (d % size) /\ q \in Nat /\ d % size \in 0..(size - 1)
    BY <1>1
  <2> QED BY <2>1, <1>1
<1>5. q < totalobj
  <2>1. ASSUME totalobj <= q PROVE totalobj * size <= q * size
    BY <2>1, <1>1, <1>4
  <2> QED BY <2>1, <1>1, <1>2, <1>3, <1>4
<1> HIDE DEF q
<1>6. q \in 0..(totalobj - 1) /\ a \in (slab_vaddr + q * size)..(slab_vaddr + (q + 1) * size - 1)
  <2>1. q * size \in Nat /\ (q + 1) * size \in Nat
    BY <1>1, <1>4
  <2> QED BY <1>1, <1>4, <1>5, <2>1
<1>7. ASSUME NEW i \in 0..(totalobj - 1), a \in (slab_vaddr + i * size)..(slab_vaddr + (i + 1) * size - 1)
      PROVE  i = q
  <2>1. i \in Nat /\ i * size \in Nat /\ (i + 1) * size \in Nat
    BY <1>1
  <2>2. i * size <= d /\ d < (i + 1) * size
    BY <1>1, <1>7, <2>1
  <2> QED BY <1>1, <2>1, <2>2, Quotient DEF q
<1>8. ObjectAt(a) = q
  BY <1>6, <1>7 DEF ObjectAt
<1>9. Index(a) = q
  <2>1. d % AddrMod = d
    BY <1>1, <1>3
  <2>2. q % IndexMod = q
    BY <1>1, <1>4, <1>5
  <2> QED BY <2>1, <2>2 DEF Index, q
<1>10. IsKvaddr(a)
  BY <1>1 DEF InSlab, IsKvaddr
<1> QED BY <1>1, <1>4, <1>5, <1>8, <1>9, <1>10

\* What is said of pointers depends on the dump only.
LEMMA SameSlab ==
  ASSUME UNCHANGED dump
  PROVE  /\ totalobj' = totalobj
         /\ DumpType' = DumpType
         /\ \A n, p : Proper(n, p)' = Proper(n, p) /\ Ends(n, p)' = Ends(n, p)
         /\ \A a : Aliases(a)' = Aliases(a)
  BY DEF totalobj, DumpType, Proper, Ends, Aliases, InSlab, ObjectAt

\* As many different objects as pointers: a proper part is no longer than the slab.
LEMMA ProperFits ==
  ASSUME SlabAssumption, DumpType, NEW n \in Nat, NEW f \in [0..n -> 0..(totalobj - 1)],
         \A j, k \in 0..n : j # k => f[j] # f[k]
  PROVE  n + 1 <= totalobj
<1>1. totalobj \in Nat
  BY DEF DumpType, SlabAssumption
<1>2. IsFiniteSet(0..n) /\ Cardinality(0..n) = n + 1
  BY FS_Interval
<1>3. IsFiniteSet(0..(totalobj - 1)) /\ Cardinality(0..(totalobj - 1)) = totalobj
  BY <1>1, FS_Interval
<1>4. ~(totalobj < n + 1)
  BY <1>2, <1>3, FS_PigeonHole, Zenon
<1> QED BY <1>1, <1>4

\* A turn of the walk makes the part one pointer longer, if the pointer is to a further
\* object of the slab.
LEMMA Longer ==
  ASSUME SlabAssumption, DumpType, NEW n \in 0..totalobj, NEW p \in [0..n -> Pointers],
         Proper(n, p), InSlab(p[n]), Index(p[n]) \notin {ObjectAt(p[k]) : k \in 0..(n - 1)}
  PROVE  /\ n + 1 \in 0..totalobj
         /\ \E q \in [0..(n + 1) -> Pointers] :
              /\ Proper(n + 1, q)
              /\ q[n + 1] = dump.freeptr[p[n]]
              /\ {ObjectAt(q[k]) : k \in 0..n} = {ObjectAt(p[k]) : k \in 0..(n - 1)} \cup {Index(p[n])}
<1>0. PICK q : q = [k \in 0..(n + 1) |-> IF k <= n THEN p[k] ELSE dump.freeptr[p[n]]]
  BY Zenon
<1>1. n \in Nat /\ totalobj \in 0..MaxObj /\ totalobj \in Nat
  BY DEF DumpType, SlabAssumption
<1>2. IsKvaddr(p[n]) /\ Index(p[n]) = ObjectAt(p[n])
  BY <1>1, IndexOfPointer
<1>3. dump.freeptr[p[n]] \in Pointers
  BY <1>1, <1>2 DEF DumpType
<1>4. q \in [0..(n + 1) -> Pointers] /\ q[n + 1] = dump.freeptr[p[n]] /\ \A k \in 0..n : q[k] = p[k]
  BY <1>0, <1>1, <1>3
<1>5. \A k \in 0..n : InSlab(p[k])
  BY <1>1 DEF Proper
<1>6. \A k \in 0..n : ObjectAt(p[k]) \in 0..(totalobj - 1)
  BY <1>1, <1>5, IndexOfPointer
<1>7. \A j, k \in 0..n : j # k => ObjectAt(p[j]) # ObjectAt(p[k])
  <2> SUFFICES ASSUME NEW j \in 0..n, NEW k \in 0..n, j # k PROVE ObjectAt(p[j]) # ObjectAt(p[k])
    OBVIOUS
  <2>1. CASE j \in 0..(n - 1) /\ k \in 0..(n - 1)
    BY <2>1 DEF Proper
  <2>2. CASE j = n
    BY <1>1, <1>2, <2>2
  <2>3. CASE k = n
    BY <1>1, <1>2, <2>3
  <2> QED BY <1>1, <2>1, <2>2, <2>3
<1>8. n + 1 <= totalobj
  <2> DEFINE f == [k \in 0..n |-> ObjectAt(p[k])]
  <2>1. f \in [0..n -> 0..(totalobj - 1)] /\ \A j, k \in 0..n : j # k => f[j] # f[k]
    BY <1>6, <1>7
  <2> QED BY <1>1, <2>1, ProperFits, Zenon
<1>9. Proper(n + 1, q)
  <2>1. q[0] = dump.freelist
    BY <1>1, <1>4 DEF Proper
  <2>2. \A k \in 0..n : InSlab(q[k]) /\ q[k + 1] = dump.freeptr[q[k]]
    <3> SUFFICES ASSUME NEW k \in 0..n PROVE InSlab(q[k]) /\ q[k + 1] = dump.freeptr[q[k]]
      OBVIOUS
    <3>1. q[k] = p[k] /\ InSlab(q[k])
      BY <1>4, <1>5
    <3>2. CASE k = n
      BY <1>4, <3>1, <3>2
    <3>3. CASE k # n
      <4>1. k \in 0..(n - 1) /\ k + 1 \in 0..n
        BY <1>1, <3>3
      <4> QED BY <1>4, <3>1, <4>1 DEF Proper
    <3> QED BY <3>1, <3>2, <3>3
  <2>3. \A j, k \in 0..n : j # k => ObjectAt(q[j]) # ObjectAt(q[k])
    BY <1>4, <1>7
  <2>4. (n + 1) - 1 = n
    BY <1>1
  <2> QED BY <2>1, <2>2, <2>3, <2>4 DEF Proper
<1>10. {ObjectAt(q[k]) : k \in 0..n} = {ObjectAt(p[k]) : k \in 0..(n - 1)} \cup {Index(p[n])}
  <2>1. {ObjectAt(q[k]) : k \in 0..n} = {ObjectAt(p[k]) : k \in 0..n}
    BY <1>4
  <2>2. 0..n = 0..(n - 1) \cup {n}
    BY <1>1
  <2> QED BY <1>2, <2>1, <2>2, Zenon
<1>11. n + 1 \in 0..totalobj
  BY <1>1, <1>8
<1> QED BY <1>4, <1>9, <1>10, <1>11, Zenon

\* Every step of the walk keeps the invariant.
LEMMA NextWalk == ASSUME SlabAssumption, WalkInv, [NextFreelist]_slub PROVE WalkInv'
<1>1. UNCHANGED dump
  BY DEF NextFreelist, slub, MarkFree, InvalidIndex, EndOfList, ListObjects
<1>2. /\ totalobj' = totalobj /\ DumpType'
      /\ \A n, p : Proper(n, p)' = Proper(n, p) /\ Ends(n, p)' = Ends(n, p)
      /\ \A a : Aliases(a)' = Aliases(a)
  BY <1>1, SameSlab DEF WalkInv
<1>3. PICK n \in 0..totalobj : \E p \in [0..n -> Pointers] : Proper(n, p) /\ WalkedTo(n, p)
  BY DEF WalkInv
<1>4. PICK p \in [0..n -> Pointers] : Proper(n, p) /\ WalkedTo(n, p)
  BY <1>3
<1>5. totalobj \in 0..MaxObj /\ totalobj \in Nat /\ n \in Nat
  BY DEF WalkInv, DumpType, SlabAssumption
<1>6. CASE MarkFree
  <2>1. /\ pc = "walk" /\ pc' = "walk" /\ IsKvaddr(fobj) /\ Index(fobj) < totalobj /\ Index(fobj) \notin obj_free
        /\ fobj' = dump.freeptr[fobj] /\ obj_free' = obj_free \cup {Index(fobj)}
    BY <1>6 DEF MarkFree, fobj, obj_free
  <2>2. Index(fobj) \in 0..(totalobj - 1)
    <3>1. Index(fobj) \in Nat
      <4>1. fobj \in Nat /\ slab_vaddr \in Nat /\ AddrMod \in Nat \ {0} /\ IndexMod \in Nat \ {0} /\ size \in Nat \ {0}
        BY DEF WalkInv, SlabAssumption
      <4>2. (fobj - slab_vaddr) % AddrMod \in Nat
        BY <4>1
      <4>3. ((fobj - slab_vaddr) % AddrMod) \div size \in Nat
        BY <4>1, <4>2
      <4> QED BY <4>1, <4>3 DEF Index
    <3> QED BY <1>5, <2>1, <3>1
  <2>3. fobj' \in Pointers /\ obj_free' \subseteq 0..(totalobj - 1)
    BY <2>1, <2>2, Zenon DEF WalkInv, DumpType
  <2>4. \E m \in 0..totalobj : \E q \in [0..m -> Pointers] : Proper(m, q) /\ WalkedTo(m, q)'
    <3>1. CASE Aliases(p[n])
      <4>1. WalkedTo(n, p)'
        BY <1>2, <3>1 DEF WalkedTo
      <4> QED BY <1>4, <4>1
    <3>2. CASE ~Aliases(p[n])
      <4>1. fobj = p[n] /\ obj_free = {ObjectAt(p[k]) : k \in 0..(n - 1)}
        BY <1>4, <3>2 DEF WalkedTo
      <4>2. InSlab(p[n])
        BY <2>1, <3>2, <4>1 DEF Aliases
      <4>3. /\ n + 1 \in 0..totalobj
            /\ \E q \in [0..(n + 1) -> Pointers] :
                 /\ Proper(n + 1, q)
                 /\ q[n + 1] = dump.freeptr[p[n]]
                 /\ {ObjectAt(q[k]) : k \in 0..n} = {ObjectAt(p[k]) : k \in 0..(n - 1)} \cup {Index(p[n])}
        <5>1. DumpType
          BY DEF WalkInv
        <5>2. Index(p[n]) \notin {ObjectAt(p[k]) : k \in 0..(n - 1)}
          BY <2>1, <4>1
        <5> QED BY <1>4, <4>2, <5>1, <5>2, Longer, Zenon
      <4>4. PICK q \in [0..(n + 1) -> Pointers] :
                 /\ Proper(n + 1, q)
                 /\ q[n + 1] = dump.freeptr[p[n]]
                 /\ {ObjectAt(q[k]) : k \in 0..n} = {ObjectAt(p[k]) : k \in 0..(n - 1)} \cup {Index(p[n])}
        BY <4>3, Zenon
      <4>5. fobj' = q[n + 1] /\ obj_free' = {ObjectAt(q[k]) : k \in 0..n}
        BY <2>1, <4>1, <4>4, Zenon
      <4>6. \A x : ObjectAt(x)' = ObjectAt(x)
        BY <1>2 DEF ObjectAt
      <4>7. (n + 1) - 1 = n
        BY <1>5
      <4>8. WalkedTo(n + 1, q)'
        BY <2>1, <4>5, <4>6, <4>7 DEF WalkedTo
      <4> QED BY <4>3, <4>4, <4>8
    <3> QED BY <3>1, <3>2
  <2> QED BY <1>2, <2>1, <2>3, <2>4 DEF WalkInv
<1>7. ASSUME UNCHANGED pos, pc' \in {"walk", "list", "listed"}, pc = "walk" /\ pc' # "walk" => Ends(n, p) \/ Aliases(p[n])
      PROVE  \E m \in 0..totalobj : \E q \in [0..m -> Pointers] : Proper(m, q) /\ WalkedTo(m, q)'
  <2>1. fobj' = fobj /\ obj_free' = obj_free /\ \A x : ObjectAt(x)' = ObjectAt(x)
    BY <1>2, <1>7 DEF fobj, obj_free, ObjectAt
  <2>2. WalkedTo(n, p)'
    BY <1>2, <1>4, <1>7, <2>1 DEF WalkedTo
  <2> QED BY <1>4, <2>2
<1>8. CASE InvalidIndex
  <2>1. /\ pc = "walk" /\ pc' = "list" /\ UNCHANGED <<pos, out>>
        /\ Index(fobj) >= totalobj \/ Index(fobj) \in obj_free
    BY <1>8 DEF InvalidIndex
  <2>2. Ends(n, p) \/ Aliases(p[n])
    <3> SUFFICES ASSUME ~Aliases(p[n]), InSlab(p[n])
                 PROVE  \E k \in 0..(n - 1) : ObjectAt(p[k]) = ObjectAt(p[n])
      BY DEF Ends
    <3>1. fobj = p[n] /\ obj_free = {ObjectAt(p[k]) : k \in 0..(n - 1)}
      BY <1>4 DEF WalkedTo
    <3>2. Index(p[n]) = ObjectAt(p[n]) /\ Index(p[n]) < totalobj /\ ObjectAt(p[n]) \in 0..(totalobj - 1)
      BY <1>5, IndexOfPointer
    <3>3. ObjectAt(p[n]) \in obj_free
      BY <1>5, <2>1, <3>1, <3>2
    <3> QED BY <3>1, <3>3
  <2> QED BY <1>2, <1>7, <2>1, <2>2 DEF WalkInv, fobj, obj_free
<1>9. CASE EndOfList
  <2>1. pc = "walk" /\ pc' = "list" /\ UNCHANGED <<pos, out>> /\ ~IsKvaddr(fobj)
    BY <1>9 DEF EndOfList
  <2>2. Ends(n, p) \/ Aliases(p[n])
    <3> SUFFICES ASSUME ~Aliases(p[n]), InSlab(p[n]) PROVE FALSE
      BY DEF Ends
    <3>1. fobj = p[n]
      BY <1>4 DEF WalkedTo
    <3> QED BY <1>5, <2>1, <3>1, IndexOfPointer
  <2> QED BY <1>2, <1>7, <2>1, <2>2 DEF WalkInv, fobj, obj_free
<1>10. CASE ListObjects
  <2>1. /\ pc = "list" /\ pc' = "listed" /\ UNCHANGED pos
        /\ out' = [i \in 1..totalobj |-> <<i, (i - 1) \in obj_free>>]
    BY <1>10 DEF ListObjects
  <2>2. fobj' = fobj /\ obj_free' = obj_free
    BY <2>1 DEF fobj, obj_free
  <2> QED BY <1>2, <1>7, <2>1, <2>2 DEF WalkInv
<1>11. CASE UNCHANGED slub
  <2>1. UNCHANGED <<pos, pc, out>> /\ fobj' = fobj /\ obj_free' = obj_free
    BY <1>11 DEF slub, fobj, obj_free
  <2>2. pc' \in {"walk", "list", "listed"}
    BY <2>1 DEF WalkInv
  <2> QED BY <1>2, <1>7, <2>1, <2>2 DEF WalkInv
<1> QED BY <1>6, <1>8, <1>9, <1>10, <1>11 DEF NextFreelist

\* parser_slab lists every object of the slab once, and as freed exactly those of the
\* longest proper initial part of the free list, for any slab and any free list whose
\* pointers do not wrap.
THEOREM FreedIsExact == ASSUME SlabAssumption PROVE SpecFreelist => []FreedExactly
<1>1. InitFreelist => WalkInv
  <2> SUFFICES ASSUME InitFreelist PROVE WalkInv
    OBVIOUS
  <2>1. /\ dump \in [totalobj: 0..MaxObj, freelist: Pointers, freeptr: [{a \in Pointers : IsKvaddr(a)} -> Pointers]]
        /\ pc = "walk" /\ pos = [fobj |-> dump.freelist, obj_free |-> {}]
    BY DEF InitFreelist
  <2>2. DumpType /\ fobj = dump.freelist /\ fobj \in Pointers /\ obj_free = {}
    BY <2>1 DEF DumpType, fobj, obj_free, totalobj
  <2>3. PICK p : p = [k \in 0..0 |-> dump.freelist]
    BY Zenon
  <2>4. p \in [0..0 -> Pointers] /\ p[0] = dump.freelist /\ 0..(0 - 1) = {}
    BY <2>2, <2>3
  <2>5. Proper(0, p) /\ WalkedTo(0, p)
    BY <2>1, <2>2, <2>4 DEF Proper, WalkedTo
  <2>6. 0 \in 0..totalobj
    BY <2>2 DEF DumpType, SlabAssumption
  <2> QED BY <2>1, <2>2, <2>4, <2>5, <2>6, Zenon DEF WalkInv
<1>2. WalkInv /\ [NextFreelist]_slub => WalkInv'
  BY NextWalk
<1>3. WalkInv => FreedExactly
  <2> SUFFICES ASSUME WalkInv, pc = "listed" PROVE FreedExactly
    BY DEF FreedExactly
  <2>1. PICK n \in 0..totalobj : \E p \in [0..n -> Pointers] : Proper(n, p) /\ WalkedTo(n, p)
    BY DEF WalkInv
  <2>2. PICK p \in [0..n -> Pointers] : Proper(n, p) /\ WalkedTo(n, p)
    BY <2>1
  <2>3. out = [i \in 1..totalobj |-> <<i, (i - 1) \in obj_free>>] /\ totalobj \in Nat
    BY DEF WalkInv, DumpType, SlabAssumption
  <2>4. Len(out) = totalobj
    BY <2>3
  <2>5. CASE Aliases(p[n])
    BY <2>2, <2>5 DEF FreedExactly, Ends, Aliases
  <2>6. CASE ~Aliases(p[n])
    <3>1. obj_free = {ObjectAt(p[k]) : k \in 0..(n - 1)} /\ Ends(n, p)
      BY <2>2, <2>6 DEF WalkedTo
    <3>2. ASSUME NEW i \in 1..totalobj
          PROVE  out[i] = <<i, i - 1 \in {ObjectAt(p[k]) : k \in 0..(n - 1)}>>
      BY <2>3, <3>1
    <3> QED BY <2>2, <2>4, <3>1, <3>2, Zenon DEF FreedExactly
  <2> QED BY <2>5, <2>6
<1> QED BY <1>1, <1>2, <1>3, PTL DEF SpecFreelist

-----------------------------------------------------------------------------
(* The checks of slub -p.                                                    *)

\* Rounding up does not make a size smaller.
LEMMA AlignUp == ASSUME PoisonAssumption, NEW n \in Nat PROVE Align(n) \in Nat /\ Align(n) >= n
<1> DEFINE d == n + PtrSize - 1
<1>1. PtrSize \in Nat \ {0} /\ d \in Nat
  BY DEF PoisonAssumption
<1>2. d = PtrSize * (d \div PtrSize) + (d % PtrSize) /\ d \div PtrSize \in Nat /\ d % PtrSize \in 0..(PtrSize - 1)
  BY <1>1
<1>3. (d \div PtrSize) * PtrSize = d - (d % PtrSize) /\ (d \div PtrSize) * PtrSize \in Nat
  BY <1>1, <1>2
<1>4. Align(n) = (d \div PtrSize) * PtrSize
  BY DEF Align
<1> QED BY <1>1, <1>2, <1>3, <1>4

\* The places in a slot: R bytes of left red zone, the object of O bytes, the right red
\* zone up to U, the free pointer up to G, the tracks up to T, orig_size up to E and
\* the padding up to the size S.
LayoutOf(R, O, U, G, T, E, S) ==
  /\ {R, O, U, G, T, E, S} \subseteq Nat /\ 1 <= O /\ O <= U /\ U <= G /\ G <= T /\ T <= E /\ R + E <= S
  /\ cache.red_left_pad = R /\ FixupRedLeft = R
  /\ cache.object_size = O /\ cache.inuse = U /\ GetInfoEnd = G
  /\ G = U + If(FreeptrOutsideObject, PtrSize)
  /\ T = G + If(Has(STORE_USER), 2 * TrackSize)
  /\ E = T + If(Has(STORE_USER) /\ Has(KMALLOC), UintSize)
  /\ PadStart = E /\ cache.size = S /\ SizeFromObject = S - R
  /\ R > 0 => Has(RED_ZONE)
  /\ orig_size \in 0..O

\* Every layout of the kernel has these places.
LEMMA LayoutPlaces ==
  ASSUME PoisonAssumption, NEW l \in Layouts, cache = l,
         orig_size \in (IF {STORE_USER, KMALLOC} \subseteq l.flags THEN 0..l.object_size ELSE {0})
  PROVE  \E R, O, U, G, T, E, S \in Nat : LayoutOf(R, O, U, G, T, E, S)
<1>1. PICK f \in SUBSET Flag, n \in 1..MaxObjectSize : l = KernelLayout(f, n)
  BY DEF Layouts
<1>2. n \in Nat /\ 1 <= n /\ PtrSize \in Nat \ {0} /\ TrackSize \in Nat /\ UintSize \in Nat
  BY DEF PoisonAssumption
<1> DEFINE red == RED_ZONE \in f
           outside == POISON \in f \/ red
           user == STORE_USER \in f
           R == If(red, PtrSize)
           U == Align(n) + If(red /\ Align(n) = n, PtrSize)
           G == U + If(outside, PtrSize)
           T == G + If(user, 2 * TrackSize)
           E == T + If(user /\ KMALLOC \in f, UintSize)
           tail == U + If(outside, PtrSize) + If(user, 2 * TrackSize)
                     + If(user /\ KMALLOC \in f, UintSize) + If(red, PtrSize)
           S == Align(tail + If(red, PtrSize))
<1>3. /\ cache.flags = f /\ cache.object_size = n /\ cache.inuse = U
      /\ cache.offset = IF outside THEN U ELSE 0
      /\ cache.red_left_pad = R /\ cache.size = S
  BY <1>1 DEF KernelLayout
<1>4. Align(n) \in Nat /\ Align(n) >= n
  BY <1>2, AlignUp
<1>5. /\ R \in Nat /\ (R > 0 => red) /\ U \in Nat /\ U >= n /\ G \in Nat /\ G >= U
      /\ T \in Nat /\ T >= G /\ E \in Nat /\ E >= T /\ tail \in Nat /\ tail >= E
  <2>1. R \in Nat /\ (R > 0 => red) /\ U \in Nat /\ U >= n
    BY <1>2, <1>4 DEF If
  <2>2. G \in Nat /\ G >= U
    <3> HIDE DEF U, outside
    <3> QED BY <1>2, <2>1 DEF If
  <2>3. T \in Nat /\ T >= G
    <3> HIDE DEF G, user
    <3> QED BY <1>2, <2>2 DEF If
  <2>4. E \in Nat /\ E >= T
    <3> HIDE DEF T, user
    <3> QED BY <1>2, <2>3 DEF If
  <2>5. tail \in Nat /\ tail >= E
    <3> HIDE DEF U, red, outside, user
    <3> QED BY <1>2, <2>1 DEF If
  <2> HIDE DEF red, R, U, G, T, E, tail
  <2> QED BY <2>1, <2>2, <2>3, <2>4, <2>5
<1>6. S \in Nat /\ S >= tail + R
  <2>1. tail + R \in Nat
    <3> HIDE DEF red, outside, user, R, U, G, T, E, tail
    <3> QED BY <1>5
  <2> HIDE DEF tail, red
  <2> QED BY <2>1, AlignUp
<1>7. FreeptrOutsideObject <=> outside
  <2> HIDE DEF outside, user, red, R, U, G, T, E, tail, S
  <2> QED BY <1>2, <1>3, <1>5 DEF FreeptrOutsideObject
<1>8. Has(RED_ZONE) = red /\ Has(STORE_USER) = user /\ Has(KMALLOC) = (KMALLOC \in f)
  BY <1>3 DEF Has
<1>9. FixupRedLeft = R /\ GetInfoEnd = G /\ SizeFromObject = S - R
  <2>1. FixupRedLeft = R
    <3> HIDE DEF red, U, S
    <3> QED BY <1>3, <1>8 DEF FixupRedLeft, If
  <2>2. GetInfoEnd = G
    <3> HIDE DEF U, outside
    <3> QED BY <1>3, <1>7 DEF GetInfoEnd, If
  <2>3. SizeFromObject = S - R
    <3>1. SizeFromObject = S - If(red, R)
      BY <1>3, <1>8 DEF SizeFromObject
    <3>2. If(red, R) = R
      BY DEF If
    <3> QED BY <3>1, <3>2
  <2> QED BY <2>1, <2>2, <2>3
<1>10. PadStart = E
  <2>1. PadStart = GetInfoEnd + If(user, 2 * TrackSize + If(KMALLOC \in f, UintSize))
    BY <1>8 DEF PadStart
  <2>2. E = G + If(user, 2 * TrackSize) + If(user /\ KMALLOC \in f, UintSize)
    OBVIOUS
  <2>3. GetInfoEnd = G /\ {G, TrackSize, UintSize} \subseteq Nat
    BY <1>2, <1>5, <1>9
  <2> HIDE DEF G, E, user
  <2> QED BY <2>1, <2>2, <2>3, SMTT(20) DEF If
<1>11. orig_size \in 0..n
  <2>1. l.object_size = n
    BY <1>3
  <2>2. orig_size \in 0..n \/ orig_size = 0
    BY <2>1
  <2> QED BY <1>2, <2>2
<1>12. LayoutOf(R, n, U, G, T, E, S)
  <2>1. {R, n, U, G, T, E, S} \subseteq Nat /\ 1 <= n /\ n <= U /\ U <= G /\ G <= T /\ T <= E /\ R + E <= S
    <3> HIDE DEF red, outside, user, R, U, G, T, E, tail, S
    <3> QED BY <1>2, <1>5, <1>6
  <2>2. G = U + If(FreeptrOutsideObject, PtrSize)
    BY <1>7 DEF If
  <2>3. T = G + If(Has(STORE_USER), 2 * TrackSize) /\ E = T + If(Has(STORE_USER) /\ Has(KMALLOC), UintSize)
    <3>1. T = G + If(Has(STORE_USER), 2 * TrackSize)
      <4> HIDE DEF G, user
      <4> QED BY <1>8
    <3>2. E = T + If(Has(STORE_USER) /\ Has(KMALLOC), UintSize)
      <4> HIDE DEF T, user
      <4> QED BY <1>8, Zenon
    <3> QED BY <3>1, <3>2
  <2> HIDE DEF red, outside, user, R, U, G, T, E, tail, S
  <2> QED BY <1>3, <1>5, <1>8, <1>9, <1>10, <1>11, <2>1, <2>2, <2>3 DEF LayoutOf
<1> HIDE DEF red, outside, user, R, U, G, T, E, tail, S
<1>13. R \in Nat /\ n \in Nat /\ U \in Nat /\ G \in Nat /\ T \in Nat /\ E \in Nat /\ S \in Nat
  BY <1>2, <1>5, <1>6
<1> QED BY <1>12, <1>13, Zenon

\* The bytes of a region.
LEMMA RegionBytes ==
  ASSUME NEW R \in Nat, FixupRedLeft = R, NEW from \in Int, NEW n \in Int, NEW b
  PROVE  b \in Region(from, n) <=> b \in Int /\ R + from <= b /\ b < R + from + n
<1>1. ASSUME b \in Int, R + from <= b, b < R + from + n PROVE b \in Region(from, n)
  <2>1. b - R - from \in 0..(n - 1) /\ b = R + from + (b - R - from)
    BY <1>1
  <2> QED BY <2>1 DEF Region
<1>2. ASSUME b \in Region(from, n) PROVE b \in Int /\ R + from <= b /\ b < R + from + n
  BY <1>2 DEF Region
<1> QED BY <1>1, <1>2

\* What a byte holds, in terms of the places.
LEMMA HoldsAt ==
  ASSUME NEW R \in Nat, NEW O \in Nat, NEW U \in Nat, NEW G \in Nat, NEW T \in Nat, NEW E \in Nat, NEW S \in Nat,
         LayoutOf(R, O, U, G, T, E, S), NEW b \in Nat
  PROVE  /\ Holds(b) = "left red zone" <=> b < R
         /\ Holds(b) = "object" <=> R <= b /\ b < R + O
         /\ Holds(b) = "right red zone" <=> R + O <= b /\ b < R + U
         /\ Holds(b) = "padding" <=> R + E <= b
         /\ Holds(b) \in {"free pointer", "tracks", "orig_size"} <=> R + U <= b /\ b < R + E
<1> DEFINE p == b - R
<1>1. Holds(b) = CASE p < 0 -> "left red zone"
                   [] p \in 0..(O - 1) -> "object"
                   [] p \in O..(U - 1) -> "right red zone"
                   [] p \in U..(G - 1) -> "free pointer"
                   [] p \in G..(T - 1) -> "tracks"
                   [] p \in T..(E - 1) -> "orig_size"
                   [] OTHER -> "padding"
  BY DEF LayoutOf, Holds
<1>2. 1 <= O /\ O <= U /\ U <= G /\ G <= T /\ T <= E
  BY DEF LayoutOf
<1>3. CASE b < R
  <2>1. p < 0 /\ p \notin 0..(O - 1) /\ p \notin O..(U - 1)
        /\ p \notin U..(G - 1) /\ p \notin G..(T - 1) /\ p \notin T..(E - 1)
    BY <1>2, <1>3
  <2>2. Holds(b) = "left red zone"
    BY <1>1, <2>1, Zenon
  <2>3. b < R /\ ~(R <= b /\ b < R + O) /\ ~(R + O <= b /\ b < R + U)
        /\ ~(R + E <= b) /\ ~(R + U <= b /\ b < R + E)
    BY <1>2, <1>3
  <2> QED BY <2>2, <2>3, Zenon
<1>4. CASE R <= b /\ b < R + O
  <2>1. ~(p < 0) /\ p \in 0..(O - 1) /\ p \notin O..(U - 1)
        /\ p \notin U..(G - 1) /\ p \notin G..(T - 1) /\ p \notin T..(E - 1)
    BY <1>2, <1>4
  <2>2. Holds(b) = "object"
    BY <1>1, <2>1
  <2>3. ~(b < R) /\ R <= b /\ b < R + O /\ ~(R + O <= b /\ b < R + U)
        /\ ~(R + E <= b) /\ ~(R + U <= b /\ b < R + E)
    BY <1>2, <1>4
  <2> QED BY <2>2, <2>3
<1>5. CASE R + O <= b /\ b < R + U
  <2>1. ~(p < 0) /\ p \notin 0..(O - 1) /\ p \in O..(U - 1)
        /\ p \notin U..(G - 1) /\ p \notin G..(T - 1) /\ p \notin T..(E - 1)
    BY <1>2, <1>5
  <2>2. Holds(b) = "right red zone"
    BY <1>1, <2>1, Zenon
  <2>3. ~(b < R) /\ ~(R <= b /\ b < R + O) /\ R + O <= b /\ b < R + U
        /\ ~(R + E <= b) /\ ~(R + U <= b /\ b < R + E)
    BY <1>2, <1>5
  <2> QED BY <2>2, <2>3, Zenon
<1>6. CASE R + U <= b /\ b < R + G
  <2>1. ~(p < 0) /\ p \notin 0..(O - 1) /\ p \notin O..(U - 1)
        /\ p \in U..(G - 1) /\ p \notin G..(T - 1) /\ p \notin T..(E - 1)
    BY <1>2, <1>6
  <2>2. Holds(b) = "free pointer"
    BY <1>1, <2>1, Zenon
  <2>3. ~(b < R) /\ ~(R <= b /\ b < R + O) /\ ~(R + O <= b /\ b < R + U)
        /\ ~(R + E <= b) /\ R + U <= b /\ b < R + E
    BY <1>2, <1>6
  <2> QED BY <2>2, <2>3, Zenon
<1>7. CASE R + G <= b /\ b < R + T
  <2>1. ~(p < 0) /\ p \notin 0..(O - 1) /\ p \notin O..(U - 1)
        /\ p \notin U..(G - 1) /\ p \in G..(T - 1) /\ p \notin T..(E - 1)
    BY <1>2, <1>7
  <2>2. Holds(b) = "tracks"
    BY <1>1, <2>1
  <2>3. ~(b < R) /\ ~(R <= b /\ b < R + O) /\ ~(R + O <= b /\ b < R + U)
        /\ ~(R + E <= b) /\ R + U <= b /\ b < R + E
    BY <1>2, <1>7
  <2> QED BY <2>2, <2>3
<1>8. CASE R + T <= b /\ b < R + E
  <2>1. ~(p < 0) /\ p \notin 0..(O - 1) /\ p \notin O..(U - 1)
        /\ p \notin U..(G - 1) /\ p \notin G..(T - 1) /\ p \in T..(E - 1)
    BY <1>2, <1>8
  <2>2. Holds(b) = "orig_size"
    BY <1>1, <2>1
  <2>3. ~(b < R) /\ ~(R <= b /\ b < R + O) /\ ~(R + O <= b /\ b < R + U)
        /\ ~(R + E <= b) /\ R + U <= b /\ b < R + E
    BY <1>2, <1>8
  <2> QED BY <2>2, <2>3
<1>9. CASE R + E <= b
  <2>1. ~(p < 0) /\ p \notin 0..(O - 1) /\ p \notin O..(U - 1)
        /\ p \notin U..(G - 1) /\ p \notin G..(T - 1) /\ p \notin T..(E - 1)
    BY <1>2, <1>9
  <2>2. Holds(b) = "padding"
    BY <1>1, <2>1, Zenon
  <2>3. ~(b < R) /\ ~(R <= b /\ b < R + O) /\ ~(R + O <= b /\ b < R + U)
        /\ R + E <= b /\ ~(R + U <= b /\ b < R + E)
    BY <1>2, <1>9
  <2> QED BY <2>2, <2>3
<1>10. b < R \/ (R <= b /\ b < R + O) \/ (R + O <= b /\ b < R + U) \/ (R + U <= b /\ b < R + G)
       \/ (R + G <= b /\ b < R + T) \/ (R + T <= b /\ b < R + E) \/ R + E <= b
  OBVIOUS
<1> QED BY <1>3, <1>4, <1>5, <1>6, <1>7, <1>8, <1>9, <1>10, Zenon

\* The bytes that are checked, in terms of the places.
CheckedByte(R, O, U, E, S, free, b) ==
  /\ b \in Nat
  /\ \/ Has(RED_ZONE) /\ (b < R \/ (R + O <= b /\ b < R + U))
     \/ Has(RED_ZONE) /\ SlubDebugOrigSize /\ ~free /\ R + orig_size <= b /\ b < R + O
     \/ Has(POISON) /\ free /\ Has(OBJECT_POISON) /\ R <= b /\ b < R + O
     \/ Has(POISON) /\ R + E <= b /\ b < S

\* The bytes check_object looks at are those the layout says.
LEMMA CheckedAt ==
  ASSUME NEW R \in Nat, NEW O \in Nat, NEW U \in Nat, NEW G \in Nat, NEW T \in Nat, NEW E \in Nat, NEW S \in Nat,
         LayoutOf(R, O, U, G, T, E, S)
  PROVE  \A free \in BOOLEAN : \A b :
           /\ b \in Checked(free) <=> CheckedByte(R, O, U, E, S, free, b)
           /\ b \in OnlyReported => b \in Nat /\ R + O <= b /\ b < R + U
<1> SUFFICES ASSUME NEW free \in BOOLEAN, NEW b
             PROVE  /\ b \in Checked(free) <=> CheckedByte(R, O, U, E, S, free, b)
                    /\ b \in OnlyReported => b \in Nat /\ R + O <= b /\ b < R + U
  OBVIOUS
<1>1. /\ FixupRedLeft = R /\ cache.red_left_pad = R /\ cache.object_size = O /\ cache.inuse = U
      /\ PadStart = E /\ SizeFromObject = S - R
      /\ orig_size \in Int /\ 0 <= orig_size /\ orig_size <= O /\ 1 <= O /\ O <= U /\ R + E <= S
  BY DEF LayoutOf
<1>2. \A from, n \in Int : b \in Region(from, n) <=> b \in Int /\ R + from <= b /\ b < R + from + n
  BY <1>1, RegionBytes
<1>3. b \in Region(-R, R) <=> b \in Nat /\ b < R
  BY <1>2
<1>4. b \in Region(O, U - O) <=> b \in Nat /\ R + O <= b /\ b < R + U
  BY <1>1, <1>2
<1>5. b \in Region(orig_size, O - orig_size) <=> b \in Nat /\ R + orig_size <= b /\ b < R + O
  BY <1>1, <1>2
<1>6. b \in Region(0, O - 1) \/ b \in Region(O - 1, 1) <=> b \in Nat /\ R <= b /\ b < R + O
  BY <1>1, <1>2
<1>7. b \in Region(E, (S - R) - E) <=> b \in Nat /\ R + E <= b /\ b < S
  BY <1>1, <1>2
<1>8. ~(O > orig_size) => ~(R + orig_size <= b /\ b < R + O) \/ b \notin Nat
  BY <1>1
<1>9. b \in Checked(free) <=>
        \/ Has(RED_ZONE) /\ (b \in Region(-R, R) \/ b \in Region(O, U - O))
        \/ Has(RED_ZONE) /\ SlubDebugOrigSize /\ ~free /\ O > orig_size /\ b \in Region(orig_size, O - orig_size)
        \/ Has(POISON) /\ free /\ Has(OBJECT_POISON) /\ (b \in Region(0, O - 1) \/ b \in Region(O - 1, 1))
        \/ Has(POISON) /\ b \in Region(E, (S - R) - E)
  BY <1>1, Zenon DEF Checked
<1>10. b \in OnlyReported => b \in Region(O, U - O)
  BY <1>1 DEF OnlyReported
<1> QED BY <1>3, <1>4, <1>5, <1>6, <1>7, <1>8, <1>9, <1>10 DEF CheckedByte

LayoutInv ==
  \E l \in Layouts :
    cache = l /\ orig_size \in (IF {STORE_USER, KMALLOC} \subseteq l.flags THEN 0..l.object_size ELSE {0})

\* The checks stay in the slot, off the metadata, and look at every byte that is
\* guaranteed and at no other one.
LEMMA ChecksRight ==
  ASSUME PoisonAssumption, LayoutInv
  PROVE  /\ ChecksInSlot
         /\ \A free \in BOOLEAN : \A b : b \in Checked(free) <=> b \in Bytes(cache) /\ Guaranteed(b, free)
<1>1. PICK R, O, U, G, T, E, S \in Nat : LayoutOf(R, O, U, G, T, E, S)
  BY LayoutPlaces, Zenon DEF LayoutInv
<1>2. /\ 1 <= O /\ O <= U /\ U <= G /\ G <= T /\ T <= E /\ R + E <= S /\ cache.size = S /\ cache.red_left_pad = R
      /\ orig_size \in 0..O /\ (R > 0 => Has(RED_ZONE))
  BY <1>1 DEF LayoutOf
<1>3. \A b : b \in Bytes(cache) <=> b \in Nat /\ b < S
  BY <1>2 DEF Bytes
<1>4. \A free \in BOOLEAN : \A b :
        /\ b \in Checked(free) <=> CheckedByte(R, O, U, E, S, free, b)
        /\ b \in OnlyReported => b \in Nat /\ R + O <= b /\ b < R + U
  BY <1>1, CheckedAt, Zenon
<1>5. ChecksInSlot
  <2> SUFFICES ASSUME NEW free \in BOOLEAN, NEW b, b \in Checked(free) \/ b \in OnlyReported
               PROVE  b \in Bytes(cache) /\ Holds(b) \notin {"free pointer", "tracks", "orig_size"}
    BY Zenon DEF ChecksInSlot
  <2>1. /\ b \in Nat
        /\ b < R \/ (R <= b /\ b < R + O) \/ (R + O <= b /\ b < R + U) \/ (R + E <= b /\ b < S)
    <3>1. CASE b \in OnlyReported
      BY <1>4, <3>1
    <3>2. CASE b \in Checked(free)
      BY <1>2, <1>4, <3>2 DEF CheckedByte
    <3> QED BY <3>1, <3>2
  <2>2. b < S /\ ~(R + U <= b /\ b < R + E)
    BY <1>2, <2>1
  <2>3. Holds(b) \in {"free pointer", "tracks", "orig_size"} <=> R + U <= b /\ b < R + E
    BY <1>1, <2>1, HoldsAt, Zenon
  <2> QED BY <1>3, <2>1, <2>2, <2>3, Zenon
<1>6. ASSUME NEW free \in BOOLEAN, NEW b
      PROVE  b \in Checked(free) <=> b \in Bytes(cache) /\ Guaranteed(b, free)
  <2>1. CASE b \notin Nat
    BY <1>3, <1>4, <2>1 DEF CheckedByte
  <2>2. CASE b \in Nat
    <3>1. /\ Holds(b) = "left red zone" <=> b < R
          /\ Holds(b) = "object" <=> R <= b /\ b < R + O
          /\ Holds(b) = "right red zone" <=> R + O <= b /\ b < R + U
          /\ Holds(b) = "padding" <=> R + E <= b
      BY <1>1, <2>2, HoldsAt, Zenon
    <3>2. b \in Checked(free) <=>
              \/ Has(RED_ZONE) /\ (b < R \/ (R + O <= b /\ b < R + U))
              \/ /\ Has(RED_ZONE) /\ SlubDebugOrigSize /\ ~free
                 /\ R + orig_size <= b /\ b < R + O
              \/ Has(POISON) /\ free /\ Has(OBJECT_POISON) /\ R <= b /\ b < R + O
              \/ Has(POISON) /\ R + E <= b /\ b < S
      BY <1>4, <2>2 DEF CheckedByte
    <3>3. Guaranteed(b, free) <=>
              \/ Has(RED_ZONE) /\ (b < R \/ (R + O <= b /\ b < R + U))
              \/ Has(POISON) /\ R + E <= b
              \/ R <= b /\ b < R + O /\ free /\ Has(POISON) /\ Has(OBJECT_POISON)
              \/ R <= b /\ b < R + O /\ ~free /\ Has(RED_ZONE) /\ SlubDebugOrigSize /\ b - R >= orig_size
      BY <1>2, <3>1, Zenon DEF Guaranteed, SlubDebugOrigSize
    <3>4. b - R >= orig_size <=> R + orig_size <= b
      BY <1>2, <2>2
    <3>5. R + orig_size <= b => R <= b
      BY <1>2, <2>2
    <3>6. b < R \/ b < R + O \/ b < R + U => b < S
      BY <1>2, <2>2
    <3> QED BY <1>3, <2>2, <3>2, <3>3, <3>4, <3>5, <3>6
  <2> QED BY <2>1, <2>2
<1> QED BY <1>5, <1>6

\* What slub -p should say of an object.
Intact(x) ==
  /\ \A b \in Bytes(cache) : Guaranteed(b, Free(x)) => ~Bad(x, b)
  /\ BadFreeptr(x) => ~Free(x) /\ ~FreeptrOutsideObject

\* check_object returns what should be said of the object.
LEMMA CheckIsRight == ASSUME PoisonAssumption, LayoutInv, NEW x PROVE CheckObject(x) <=> Intact(x)
<1>1. Free(x) \in BOOLEAN
  BY DEF Free
<1>2. \A b : b \in Checked(Free(x)) <=> b \in Bytes(cache) /\ Guaranteed(b, Free(x))
  BY <1>1, ChecksRight
<1> QED BY <1>2, Zenon DEF CheckObject, Intact

Asked(k) == dump.kmem_cache_addr \in {0, k}

\* The first m objects of cache k pass the checks.
Pass(k, m) == \A n \in 1..m : CheckObject(<<k, n>>)

\* The verdict on the objects so far, and one verdict on each cache asked for before.
PoisonInv ==
  /\ LayoutInv
  /\ cachep \in 1..(NCache + 1) /\ object \in 1..NObj /\ pos.ret \in BOOLEAN
  /\ pos.ret <=> Pass(cachep, object - 1)
  /\ out \in Seq((1..NCache) \X BOOLEAN)
  /\ \A i \in DOMAIN out :
       /\ out[i][1] < cachep /\ Asked(out[i][1])
       /\ out[i][2] <=> Pass(out[i][1], NObj)
  /\ \A i, j \in DOMAIN out : out[i][1] = out[j][1] => i = j
  /\ \A k \in 1..NCache : k < cachep /\ Asked(k) => \E i \in DOMAIN out : out[i][1] = k

\* What is said of an object depends on the dump only.
LEMMA SameObjects ==
  ASSUME UNCHANGED dump
  PROVE  /\ LayoutInv' = LayoutInv
         /\ \A k, m : Pass(k, m)' = Pass(k, m)
         /\ \A k : Asked(k)' = Asked(k)
<1>1. cache' = cache /\ orig_size' = orig_size
  BY DEF cache, orig_size
<1>2. LayoutInv' = LayoutInv
  BY <1>1 DEF LayoutInv
<1>3. \A k : Asked(k)' = Asked(k)
  BY DEF Asked
<1>4. \A free : Checked(free)' = Checked(free)
  <2>1. /\ \A x : Has(x)' = Has(x)
        /\ FreeptrOutsideObject' = FreeptrOutsideObject
    BY <1>1 DEF Has, FreeptrOutsideObject
  <2>2. GetInfoEnd' = GetInfoEnd
    BY <1>1, <2>1 DEF GetInfoEnd
  <2>3. FixupRedLeft' = FixupRedLeft
    BY <1>1, <2>1 DEF FixupRedLeft
  <2>4. PadStart' = PadStart /\ SizeFromObject' = SizeFromObject
    BY <1>1, <2>1, <2>2, <2>3 DEF PadStart, SizeFromObject
  <2>5. SlubDebugOrigSize' = SlubDebugOrigSize
    BY <1>1, <2>1 DEF SlubDebugOrigSize
  <2>6. \A from, n : Region(from, n)' = Region(from, n)
    BY <2>3 DEF Region
  <2> QED BY <1>1, <2>1, <2>2, <2>4, <2>5, <2>6 DEF Checked
<1>5. \A x : CheckObject(x)' = CheckObject(x)
  BY <1>1, <1>4 DEF CheckObject, Free, Bad, BadFreeptr, FreeptrOutsideObject
<1>6. \A k, m : Pass(k, m)' = Pass(k, m)
  BY <1>5 DEF Pass
<1> QED BY <1>2, <1>3, <1>6

\* A verdict is added behind the others.
LEMMA Appended ==
  ASSUME NEW T, NEW s \in Seq(T), NEW v \in T
  PROVE  /\ Append(s, v) \in Seq(T)
         /\ \A i \in DOMAIN s : i \in DOMAIN Append(s, v) /\ Append(s, v)[i] = s[i]
         /\ \A i \in DOMAIN Append(s, v) : i \in DOMAIN s \/ (i = Len(s) + 1 /\ Append(s, v)[i] = v)
         /\ Len(s) + 1 \in DOMAIN Append(s, v) /\ Append(s, v)[Len(s) + 1] = v
  OBVIOUS

\* Every step keeps the verdicts right.
LEMMA NextVerdict == ASSUME PoisonAssumption, PoisonInv, [NextPoison]_slub PROVE PoisonInv'
<1>1. UNCHANGED dump
  BY DEF NextPoison, NextObject, slub
<1>2. /\ LayoutInv' /\ \A k, m : Pass(k, m)' = Pass(k, m)
      /\ \A k : Asked(k)' = Asked(k)
  BY <1>1, SameObjects DEF PoisonInv
<1>3. NObj \in Nat \ {0} /\ NCache \in Nat /\ cachep \in Nat \ {0} /\ object \in Nat \ {0} /\ object <= NObj
  BY DEF PoisonInv, PoisonAssumption
<1>4. CASE UNCHANGED slub
  <2>1. cachep' = cachep /\ object' = object /\ pos' = pos /\ out' = out
    BY <1>4 DEF slub, cachep, object
  <2> QED BY <1>2, <2>1 DEF PoisonInv
<1>5. CASE NextObject
  <2>1. cachep <= NCache /\ cachep \in 1..NCache /\ cachep + 1 \in 1..(NCache + 1)
    BY <1>3, <1>5 DEF NextObject
  <2>2. PICK r \in BOOLEAN : r = (pos.ret /\ CheckObject(<<cachep, object>>))
    BY Zenon
  <2>3. r <=> Pass(cachep, object)
    <3>1. \A n \in 1..object : n \in 1..(object - 1) \/ n = object
      BY <1>3
    <3>2. \A n \in 1..(object - 1) : n \in 1..object
      BY <1>3
    <3>3. object \in 1..object
      BY <1>3
    <3>4. pos.ret <=> Pass(cachep, object - 1)
      BY DEF PoisonInv
    <3> QED BY <2>2, <3>1, <3>2, <3>3, <3>4, Zenon DEF Pass
  <2>4. /\ pos' = IF Asked(cachep) /\ object < NObj THEN [c |-> cachep, o |-> object + 1, ret |-> r]
                  ELSE [c |-> cachep + 1, o |-> 1, ret |-> TRUE]
        /\ out' = IF Asked(cachep) /\ object = NObj THEN Append(out, <<cachep, r>>) ELSE out
    BY <1>5, <2>2 DEF NextObject, Asked
  <2>5. CASE Asked(cachep) /\ object < NObj
    <3>1. cachep' = cachep /\ object' = object + 1 /\ pos'.ret = r /\ out' = out
      <4>1. pos' = [c |-> cachep, o |-> object + 1, ret |-> r] /\ out' = out
        BY <1>3, <2>4, <2>5
      <4> QED BY <4>1 DEF cachep, object
    <3>2. (object + 1) - 1 = object /\ object + 1 \in 1..NObj
      BY <1>3, <2>5
    <3>3. (pos.ret <=> Pass(cachep, object - 1))'
      BY <1>2, <2>3, <3>1, <3>2
    <3> QED BY <1>2, <3>1, <3>2, <3>3 DEF PoisonInv
  <2>6. ASSUME cachep' = cachep + 1, object' = 1, pos'.ret = TRUE
        PROVE  cachep' \in 1..(NCache + 1) /\ object' \in 1..NObj /\ (pos.ret <=> Pass(cachep, object - 1))'
    <3>1. \A k : Pass(k, 0)
      BY DEF Pass
    <3>2. Pass(cachep, object - 1)'
      BY <1>2, <2>6, <3>1
    <3> QED BY <1>3, <2>1, <2>6, <3>2
  <2>7. CASE ~Asked(cachep)
    <3>1. cachep' = cachep + 1 /\ object' = 1 /\ pos'.ret = TRUE /\ out' = out
      BY <2>4, <2>7 DEF cachep, object
    <3>2. ASSUME NEW k \in 1..NCache, k < cachep + 1, Asked(k) PROVE \E i \in DOMAIN out : out[i][1] = k
      <4>1. k < cachep
        BY <1>3, <2>7, <3>2
      <4> QED BY <3>2, <4>1 DEF PoisonInv
    <3>3. \A i \in DOMAIN out : out[i][1] < cachep + 1
      <4>1. \A i \in DOMAIN out : out[i][1] \in Nat /\ out[i][1] < cachep
        <5>1. out \in Seq((1..NCache) \X BOOLEAN) /\ \A i \in DOMAIN out : out[i][1] < cachep
          BY DEF PoisonInv
        <5> QED BY <5>1
      <4> QED BY <1>3, <4>1
    <3> QED BY <1>2, <2>6, <3>1, <3>2, <3>3, Zenon DEF PoisonInv
  <2>8. CASE Asked(cachep) /\ object = NObj
    <3>1. cachep' = cachep + 1 /\ object' = 1 /\ pos'.ret = TRUE /\ out' = Append(out, <<cachep, r>>)
      <4>1. ~(object < NObj)
        BY <1>3, <2>8
      <4>2. pos' = [c |-> cachep + 1, o |-> 1, ret |-> TRUE] /\ out' = Append(out, <<cachep, r>>)
        BY <2>4, <2>8, <4>1
      <4> QED BY <4>2 DEF cachep, object
    <3>2. out \in Seq((1..NCache) \X BOOLEAN) /\ <<cachep, r>> \in (1..NCache) \X BOOLEAN
      BY <2>1 DEF PoisonInv
    <3>3. PICK last \in Nat, v \in (1..NCache) \X BOOLEAN :
            /\ v[1] = cachep /\ v[2] = r
            /\ out' \in Seq((1..NCache) \X BOOLEAN)
            /\ \A i \in DOMAIN out : i \in DOMAIN out' /\ out'[i] = out[i]
            /\ \A i \in DOMAIN out' : i \in DOMAIN out \/ (i = last /\ out'[i] = v)
            /\ last \in DOMAIN out' /\ out'[last] = v
      <4>1. Len(out) + 1 \in Nat
        BY <3>2
      <4>2. /\ out' \in Seq((1..NCache) \X BOOLEAN)
            /\ \A i \in DOMAIN out : i \in DOMAIN out' /\ out'[i] = out[i]
            /\ \A i \in DOMAIN out' : i \in DOMAIN out \/ (i = Len(out) + 1 /\ out'[i] = <<cachep, r>>)
            /\ Len(out) + 1 \in DOMAIN out' /\ out'[Len(out) + 1] = <<cachep, r>>
        BY <3>1, <3>2, Appended
      <4>3. <<cachep, r>>[1] = cachep /\ <<cachep, r>>[2] = r
        OBVIOUS
      <4> QED BY <3>2, <4>1, <4>2, <4>3
    <3>4. \A i \in DOMAIN out : out[i][1] \in Nat /\ out[i][1] < cachep
      <4>1. \A i \in DOMAIN out : out[i][1] < cachep
        BY DEF PoisonInv
      <4> QED BY <3>2, <4>1
    <3>5. ASSUME NEW i \in DOMAIN out'
          PROVE  /\ out'[i][1] < cachep + 1 /\ Asked(out'[i][1])
                 /\ out'[i][2] <=> Pass(out'[i][1], NObj)
      <4>1. CASE i \in DOMAIN out
        <5>1. out'[i] = out[i] /\ out[i][1] < cachep + 1
          BY <1>3, <3>3, <3>4, <4>1
        <5> QED BY <4>1, <5>1 DEF PoisonInv
      <4>2. CASE out'[i] = v
        <5>1. out'[i][1] = cachep /\ out'[i][2] = r /\ cachep < cachep + 1
          BY <1>3, <3>3, <4>2
        <5>2. Pass(cachep, object) <=> Pass(cachep, NObj)
          BY <2>8
        <5> QED BY <2>3, <2>8, <5>1, <5>2
      <4> QED BY <3>3, <4>1, <4>2
    <3>6. ASSUME NEW i \in DOMAIN out', NEW j \in DOMAIN out', out'[i][1] = out'[j][1] PROVE i = j
      <4>1. CASE i \in DOMAIN out /\ j \in DOMAIN out
        <5>1. out'[i] = out[i] /\ out'[j] = out[j]
          BY <3>3, <4>1
        <5>2. \A k, l \in DOMAIN out : out[k][1] = out[l][1] => k = l
          BY DEF PoisonInv
        <5> QED BY <3>6, <4>1, <5>1, <5>2
      <4>2. CASE i \in DOMAIN out /\ j \notin DOMAIN out
        <5>1. out'[i] = out[i] /\ out'[j][1] = cachep /\ out[i][1] \in Nat /\ out[i][1] < cachep
          BY <3>3, <3>4, <4>2
        <5> QED BY <1>3, <3>6, <5>1
      <4>3. CASE i \notin DOMAIN out /\ j \in DOMAIN out
        <5>1. out'[j] = out[j] /\ out'[i][1] = cachep /\ out[j][1] \in Nat /\ out[j][1] < cachep
          BY <3>3, <3>4, <4>3
        <5> QED BY <1>3, <3>6, <5>1
      <4>4. CASE i \notin DOMAIN out /\ j \notin DOMAIN out
        BY <3>3, <4>4
      <4> QED BY <4>1, <4>2, <4>3, <4>4
    <3>7. ASSUME NEW k \in 1..NCache, k < cachep + 1, Asked(k) PROVE \E i \in DOMAIN out' : out'[i][1] = k
      <4>1. CASE k = cachep
        BY <3>3, <4>1
      <4>2. CASE k # cachep
        <5>1. k < cachep
          BY <1>3, <3>7, <4>2
        <5>2. PICK i \in DOMAIN out : out[i][1] = k
          BY <3>7, <5>1 DEF PoisonInv
        <5> QED BY <3>3, <5>2
      <4> QED BY <4>1, <4>2
    <3>8. (\A i \in DOMAIN out : /\ out[i][1] < cachep /\ Asked(out[i][1])
                                 /\ out[i][2] <=> Pass(out[i][1], NObj))'
      BY <1>2, <3>1, <3>5
    <3>9. (\A k \in 1..NCache : k < cachep /\ Asked(k) => \E i \in DOMAIN out : out[i][1] = k)'
      BY <1>2, <3>1, <3>7
    <3>10. (\A i, j \in DOMAIN out : out[i][1] = out[j][1] => i = j)'
      BY <3>6
    <3>11. (/\ LayoutInv
            /\ cachep \in 1..(NCache + 1) /\ object \in 1..NObj /\ pos.ret \in BOOLEAN
            /\ pos.ret <=> Pass(cachep, object - 1))'
      BY <1>2, <2>6, <3>1, Zenon DEF PoisonInv
    <3> QED BY <3>3, <3>8, <3>9, <3>10, <3>11 DEF PoisonInv
  <2> QED BY <1>3, <2>5, <2>7, <2>8
<1> QED BY <1>4, <1>5 DEF NextPoison

\* slub -p says FAIL of exactly the caches with a defect that can be seen, gives every
\* cache asked for one verdict, and looks only at bytes of the slot that are no metadata,
\* for every layout the kernel chooses and any caches, objects and defects.
THEOREM PoisonIsExact == ASSUME PoisonAssumption PROVE SpecPoison => []PoisonExact
<1>1. InitPoison => PoisonInv
  <2> SUFFICES ASSUME InitPoison PROVE PoisonInv
    OBVIOUS
  <2>1. PICK l \in Layouts :
          dump \in [cache: {l}, freed: SUBSET Objects,
                    orig_size: IF {STORE_USER, KMALLOC} \subseteq l.flags THEN 0..l.object_size ELSE {0},
                    defects: {{f[i] : i \in 1..NDefect} : f \in [1..NDefect -> Defect(l)]},
                    kmem_cache_addr: 0..NCache]
    BY Zenon DEF InitPoison
  <2>2. LayoutInv
    BY <2>1 DEF LayoutInv, cache, orig_size
  <2>3. cachep = 1 /\ object = 1 /\ pos.ret = TRUE /\ out = <<>>
    BY DEF InitPoison, cachep, object
  <2>4. DOMAIN out = {} /\ out \in Seq((1..NCache) \X BOOLEAN)
    BY <2>3
  <2>5. cachep \in 1..(NCache + 1) /\ object \in 1..NObj /\ Pass(cachep, object - 1) /\ \A k \in 1..NCache : ~(k < cachep)
    BY <2>3 DEF PoisonAssumption, Pass
  <2> QED BY <2>2, <2>3, <2>4, <2>5, Zenon DEF PoisonInv
<1>2. PoisonInv /\ [NextPoison]_slub => PoisonInv'
  BY NextVerdict
<1>3. PoisonInv => PoisonExact
  <2> SUFFICES ASSUME PoisonInv PROVE PoisonExact
    OBVIOUS
  <2>1. ChecksInSlot
    BY ChecksRight DEF PoisonInv
  <2>2. \A x : CheckObject(x) <=> Intact(x)
    BY CheckIsRight DEF PoisonInv
  <2>3. VerdictExact
    <3>1. ASSUME NEW i \in DOMAIN out
          PROVE  out[i][2] <=> \A n \in 1..NObj : Intact(<<out[i][1], n>>)
      BY <2>2 DEF PoisonInv, Pass
    <3> QED BY <3>1, Zenon DEF VerdictExact, Intact
  <2>4. AllJudged
    <3> SUFFICES ASSUME cachep > NCache, NEW k \in 1..NCache
                 PROVE  Cardinality({i \in DOMAIN out : out[i][1] = k}) = If(Asked(k), 1)
      BY DEF AllJudged, Asked
    <3>1. k < cachep
      <4>1. NCache \in Nat /\ cachep \in 1..(NCache + 1)
        BY Zenon DEF PoisonInv, PoisonAssumption
      <4> QED BY <4>1
    <3>2. CASE Asked(k)
      <4>1. PICK i \in DOMAIN out : out[i][1] = k
        BY <3>1, <3>2 DEF PoisonInv
      <4>2. {j \in DOMAIN out : out[j][1] = k} = {i}
        <5>1. \A x, y \in DOMAIN out : out[x][1] = out[y][1] => x = y
          BY DEF PoisonInv
        <5> QED BY <4>1, <5>1
      <4> QED BY <3>2, <4>2, FS_Singleton DEF If
    <3>3. CASE ~Asked(k)
      <4>1. {j \in DOMAIN out : out[j][1] = k} = {}
        <5>1. \A j \in DOMAIN out : Asked(out[j][1])
          BY DEF PoisonInv
        <5> QED BY <3>3, <5>1
      <4> QED BY <3>3, <4>1, FS_EmptySet DEF If
    <3> QED BY <3>2, <3>3
  <2> QED BY <2>1, <2>3, <2>4, Zenon DEF PoisonExact
<1> QED BY <1>1, <1>2, <1>3, PTL DEF SpecPoison

=============================================================================
