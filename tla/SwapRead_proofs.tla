--------------------------- MODULE SwapRead_proofs ---------------------------
(***************************************************************************)
(* Reads of user memory keep the promise of MemoryService, are exact when  *)
(* nothing is interrupted and never wrong when something is, for every     *)
(* page size, number of pages and swap areas, and every range; and         *)
(* LZ4_decompress_generic stays inside the object and the page on every    *)
(* input.                                                                  *)
(***************************************************************************)
EXTENDS SwapRead, TLAPS

\* Offsets that stay in a page keep its number.
LEMMA SamePage ==
  ASSUME NEW P \in Nat \ {0}, NEW x \in Nat, NEW k \in Nat, (x % P) + k < P
  PROVE  (x + k) \div P = x \div P /\ (x + k) % P = (x % P) + k
OBVIOUS

\* An offset that reaches the end of a page is the start of the next.
LEMMA NextPageStart ==
  ASSUME NEW P \in Nat \ {0}, NEW x \in Nat, NEW k \in Nat, (x % P) + k = P
  PROVE  (x + k) \div P = (x \div P) + 1 /\ (x + k) % P = 0
OBVIOUS

\* a is one of the areas of list s.
Has(s, a) == \E i \in 1..Len(s) : s[i] = a

\* Appending an area adds that one.
LEMMA AppendHas ==
  ASSUME NEW S, NEW s \in Seq(S), NEW e \in S, NEW d \in S
  PROVE  Has(Append(s, e), d) <=> (Has(s, d) \/ d = e)
<1>1. /\ Len(Append(s, e)) = Len(s) + 1 /\ Len(s) \in Nat
      /\ \A i \in 1..Len(s) : Append(s, e)[i] = s[i]
      /\ Append(s, e)[Len(s) + 1] = e
  OBVIOUS
<1> QED
  BY <1>1 DEF Has

\* swap_list holds the readable areas below n, and no other.
Parsed(n) == \A a \in 1..NSwap : Has(swap_list, a) <=> (a < n /\ a \notin badarea)

\* The list of areas only has readable ones; while it is filled it has those passed,
\* and unless something was interrupted it is otherwise empty or complete.  No page
\* is looked for, and none was, before the list is what it stays.
AreasInv ==
  /\ \A a \in 1..NSwap : Has(swap_list, a) => a \notin badarea
  /\ pc = "parser_swap_info" => Parsed(next)
  /\ ~interrupts /\ pc # "parser_swap_info" => swap_list = <<>> \/ Parsed(NSwap + 1)
  /\ pc = "copy" => Decided
  /\ pc # "idle" /\ remain < req[3] => Decided

done == req[3] - remain

\* What position i of the result has to be.
Expected(i) == IF PageAt(i) \in Found THEN MemoryByte(PageAt(i), OffsetAt(i)) ELSE Zero

\* uvaddr is the address of the next position to fill; the positions before it
\* are as they have to be and those behind it still zero.
CopyInv ==
  pc # "idle" =>
    /\ remain <= req[3]
    /\ PageAt(done) = page /\ OffsetAt(done) = off
    /\ DOMAIN result = 0..(req[3] - 1)
    /\ result = [i \in DOMAIN result |-> IF i < done THEN Expected(i) ELSE Zero]
    /\ pc = "done" => remain = 0

\* The inductive invariant.
IInv == TypeOK /\ AreasInv /\ CopyInv

\* What do_swap_page returns.
LEMMA PageBuffer ==
  ASSUME TypeOK, "same" \notin Sources, NEW p \in Nat
  PROVE  DoSwapPage(p) = IF p \in Found THEN Whole(p) ELSE NoBuf
<1>1. CASE p >= NPages
  <2>1. p \notin 0..(NPages - 1)
    BY <1>1, SizeAssumption
  <2>2. SourceOf(p) = "none" /\ p \notin Found
    BY <1>1, <2>1, SizeAssumption DEF SourceOf, Found
  <2> QED BY <2>2 DEF DoSwapPage
<1>2. CASE p < NPages
  <2>1. SourceOf(p) = src[p] /\ src[p] \in Sources /\ p \in 0..(NPages - 1)
    BY <1>2, SizeAssumption DEF SourceOf, TypeOK
  <2>2. src[p] \in {"none", "memory", "lost", "swapcache", "object", "zero", "broken"}
    BY <2>1, SizeAssumption, Zenon
  <2> QED
    BY <2>1, <2>2 DEF DoSwapPage, ReadZramPage, Found
<1> QED BY <1>1, <1>2, SizeAssumption

\* A buffer with the data of a page is not a null pointer.
LEMMA WholeIsBuffer == ASSUME NEW p PROVE Whole(p) # NoBuf
<1>1. DOMAIN Whole(p) = Offset /\ 0 \in Offset
  BY SizeAssumption DEF Whole, Offset
<1>2. DOMAIN NoBuf = {}
  BY DEF NoBuf
<1> QED BY <1>1, <1>2

\* A session starts with no areas and no read.
LEMMA InitInv == Init => IInv
<1> SUFFICES ASSUME Init PROVE IInv
  OBVIOUS
<1>1. <<0, 0, 0>> \in Nat \X Offset \X Nat /\ <<>> \in Seq(1..NSwap) /\ 1 \in 1..(NSwap + 1)
  BY SizeAssumption DEF Offset
<1>2. TypeOK
  BY <1>1, SizeAssumption DEF Init, TypeOK, Offset
<1>3. \A a : ~Has(swap_list, a)
  BY DEF Init, Has
<1> QED
  BY <1>2, <1>3 DEF Init, IInv, AreasInv, CopyInv

\* The steps keep the types.
LEMMA NextType == ASSUME TypeOK, [Next]_vars PROVE TypeOK'
<1> USE SizeAssumption
<1>1. ASSUME NEW p \in 0..NPages, NEW o \in Offset, NEW len \in 0..MaxLen, UreadMemory(p, o, len)
      PROVE  TypeOK'
  <2>1. <<p, o, len>> \in Nat \X Offset \X Nat
    OBVIOUS
  <2>2. req' \in Nat \X Offset \X Nat /\ page' \in Nat /\ off' \in Offset /\ remain' \in Nat
    BY <1>1, <2>1 DEF UreadMemory
  <2>3. pc' = "loop" /\ UNCHANGED <<src, area, badarea, interrupts, swap_list, next>>
    BY <1>1 DEF UreadMemory, dump
  <2> QED BY <2>2, <2>3 DEF TypeOK
<1>2. CASE NextPage
  <2>1. next' \in 1..(NSwap + 1)
    BY <1>2 DEF NextPage
  <2> QED
    BY <1>2, <2>1 DEF NextPage, TypeOK, dump, loop
<1>3. CASE ParserSwapInfo
  <2>1. CASE next > NSwap
    BY <1>3, <2>1 DEF ParserSwapInfo, TypeOK, dump, loop
  <2>2. CASE ~(next > NSwap)
    <3>1. next \in 1..NSwap /\ Append(swap_list, next) \in Seq(1..NSwap)
      BY <2>2 DEF TypeOK
    <3>2. swap_list \in Seq(1..NSwap) /\ next + 1 \in 1..(NSwap + 1)
      BY <3>1 DEF TypeOK
    <3>3. swap_list' \in Seq(1..NSwap) /\ next' \in 1..(NSwap + 1)
      BY <1>3, <2>2, <3>1, <3>2 DEF ParserSwapInfo
    <3> QED
      BY <1>3, <2>2, <3>3 DEF ParserSwapInfo, TypeOK, dump, loop
  <2> QED BY <2>1, <2>2
<1>4. CASE CopyPage
  <2> DEFINE read_len == Min(remain, PageSize - off)
  <2>1. read_len \in Nat /\ read_len <= remain /\ off + read_len <= PageSize
    BY DEF TypeOK, Offset, Min
  <2>2. /\ remain' = remain - read_len
        /\ off + read_len = PageSize => page' = page + 1 /\ off' = 0
        /\ off + read_len # PageSize => off' = off + read_len /\ UNCHANGED page
        /\ pc' = "loop" /\ UNCHANGED <<dump, swap_list, req, next>>
    BY <1>4 DEF CopyPage
  <2> HIDE DEF read_len
  <2>3. remain' \in Nat /\ page' \in Nat /\ off' \in Offset
    BY <2>1, <2>2 DEF TypeOK, Offset
  <2>4. pc' = "loop" /\ UNCHANGED <<src, area, badarea, interrupts, swap_list, req, next>>
    BY <2>2 DEF dump
  <2> QED
    BY <2>3, <2>4 DEF TypeOK
<1>5. CASE Interrupt
  <2>1. <<0, 0, 0>> \in Nat \X Offset \X Nat /\ 1 \in 1..(NSwap + 1)
    BY DEF Offset
  <2>2. /\ req' \in Nat \X Offset \X Nat /\ next' \in 1..(NSwap + 1)
        /\ page' \in Nat /\ off' \in Offset /\ remain' \in Nat
    BY <1>5, <2>1 DEF Interrupt, Offset
  <2>3. pc' = "idle" /\ UNCHANGED <<src, area, badarea, interrupts, swap_list>>
    BY <1>5 DEF Interrupt, dump
  <2> QED
    BY <2>2, <2>3, Zenon DEF TypeOK
<1>6. CASE UNCHANGED vars
  BY <1>6 DEF vars, TypeOK, dump, loop
<1> QED
  BY <1>1, <1>2, <1>3, <1>4, <1>5, <1>6 DEF Next, Step

\* The dump and the habits of the user do not change in a session.
LEMMA DumpKept == ASSUME [Next]_vars PROVE UNCHANGED dump
BY DEF Next, Step, UreadMemory, NextPage, ParserSwapInfo, CopyPage, Interrupt, vars, dump

\* A list that is not empty has something.
LEMMA NotEmptyHas ==
  ASSUME NEW S, NEW s \in Seq(S), s # <<>>
  PROVE  \E a \in S : Has(s, a)
<1>1. Len(s) \in Nat /\ Len(s) # 0
  OBVIOUS
<1>2. 1 \in 1..Len(s) /\ s[1] \in S
  BY <1>1
<1> QED BY <1>2 DEF Has

\* A list without areas is empty, and one with areas is not.
LEMMA EmptyHasNone ==
  ASSUME NEW s \in Seq(1..NSwap)
  PROVE  s = <<>> <=> \A a \in 1..NSwap : ~Has(s, a)
<1>1. ASSUME s # <<>> PROVE \E a \in 1..NSwap : Has(s, a)
  BY <1>1, NotEmptyHas, Zenon
<1>2. \A a : ~Has(<<>>, a)
  BY DEF Has
<1> QED BY <1>1, <1>2

\* Without a readable area the list stays empty.
LEMMA AllBad ==
  ASSUME TypeOK, AreasInv, 1..NSwap \subseteq badarea
  PROVE  swap_list = <<>>
BY EmptyHasNone DEF TypeOK, AreasInv

\* A complete list is empty only if there is no readable area.
LEMMA CompleteList ==
  ASSUME NEW s \in Seq(1..NSwap), NEW bad,
         \A a \in 1..NSwap : Has(s, a) <=> (a < NSwap + 1 /\ a \notin bad)
  PROVE  1..NSwap \subseteq bad \/ s # <<>>
<1> USE SizeAssumption
<1> SUFFICES ASSUME NEW a \in 1..NSwap, a \notin bad PROVE s # <<>>
  OBVIOUS
<1>1. Has(s, a)
  OBVIOUS
<1> QED BY <1>1, EmptyHasNone

\* One turn of parser_swap_info.
LEMMA ParserStep ==
  ASSUME TypeOK, AreasInv, ParserSwapInfo, ~(next > NSwap)
  PROVE  /\ next \in 1..NSwap /\ next' = next + 1 /\ pc' = "parser_swap_info"
         /\ \A a \in 1..NSwap : Has(swap_list', a) <=> (a < next' /\ a \notin badarea)
<1> USE SizeAssumption
<1>0. Parsed(next)
  BY DEF ParserSwapInfo, AreasInv
<1>1. /\ next \in 1..NSwap /\ next' = next + 1 /\ swap_list \in Seq(1..NSwap)
      /\ pc' = "parser_swap_info"
      /\ swap_list' = IF next \in badarea THEN swap_list ELSE Append(swap_list, next)
  BY DEF ParserSwapInfo, TypeOK
<1>2. \A a \in 1..NSwap : Has(Append(swap_list, next), a) <=> (Has(swap_list, a) \/ a = next)
  BY <1>1, AppendHas
<1>3. \A a \in 1..NSwap : Has(swap_list', a) <=> (a < next' /\ a \notin badarea)
  <2>1. CASE next \in badarea
    BY <1>0, <1>1, <2>1 DEF Parsed
  <2>2. CASE next \notin badarea
    BY <1>0, <1>1, <1>2, <2>2 DEF Parsed
  <2> QED BY <2>1, <2>2
<1> QED BY <1>1, <1>3

\* The steps keep the list of areas sound, and in a session without interrupts
\* never leave it half filled.
LEMMA NextAreas == ASSUME TypeOK, AreasInv, [Next]_vars, TypeOK' PROVE AreasInv'
<1> USE SizeAssumption
<1>0. UNCHANGED <<badarea, interrupts>>
  BY DumpKept DEF dump
<1>1. ASSUME NEW p \in 0..NPages, NEW o \in Offset, NEW len \in 0..MaxLen, UreadMemory(p, o, len)
      PROVE  AreasInv'
  <2>1. UNCHANGED swap_list /\ pc' = "loop" /\ remain' = req'[3] /\ pc # "parser_swap_info"
        /\ remain' \in Nat
    BY <1>1 DEF UreadMemory
  <2> QED BY <1>0, <2>1 DEF AreasInv, Parsed
<1>2. CASE NextPage
  <2>1. UNCHANGED <<swap_list, remain, req>> /\ next' = 1 /\ pc = "loop"
    BY <1>2 DEF NextPage, loop
  <2>2. CASE pc' = "parser_swap_info"
    <3>1. swap_list = <<>>
      BY <1>2, <2>2 DEF NextPage
    <3>2. Parsed(1)'
      BY <2>1, <3>1 DEF Parsed, Has
    <3>3. Decided => Decided'
      BY <1>0, <3>1 DEF Decided
    <3> QED
      BY <1>0, <2>1, <2>2, <3>2, <3>3 DEF AreasInv
  <2>3. CASE pc' = "copy"
    <3>1. swap_list # <<>> \/ NSwap = 0
      BY <1>2, <2>3 DEF NextPage
    <3>2. Decided'
      BY <1>0, <2>1, <2>3, <3>1 DEF Decided
    <3> QED BY <1>0, <2>1, <2>3, <3>2 DEF AreasInv, Parsed
  <2>4. CASE pc' = "done"
    BY <1>0, <2>1, <2>4 DEF AreasInv, Parsed, Decided
  <2> QED BY <1>2, <2>2, <2>3, <2>4 DEF NextPage
<1>3. CASE ParserSwapInfo
  <2>0. Parsed(next) /\ pc = "parser_swap_info" /\ UNCHANGED <<remain, req>>
    BY <1>3 DEF ParserSwapInfo, AreasInv, loop
  <2>1. CASE next > NSwap
    <3>1. next = NSwap + 1 /\ pc' = "copy" /\ UNCHANGED swap_list
      BY <1>3, <2>1 DEF ParserSwapInfo, TypeOK
    <3>2. Parsed(NSwap + 1)'
      BY <1>0, <2>0, <3>1 DEF Parsed
    <3>3. Decided'
      BY <3>1, <3>2, CompleteList DEF Parsed, Decided, TypeOK
    <3> QED BY <1>0, <3>1, <3>2, <3>3 DEF AreasInv
  <2>2. CASE ~(next > NSwap)
    <3>1. /\ next' = next + 1 /\ pc' = "parser_swap_info"
          /\ \A a \in 1..NSwap : Has(swap_list', a) <=> (a < next' /\ a \notin badarea)
      BY <1>3, <2>2, ParserStep
    <3>2. Decided => Decided'
      BY <1>0, <2>0 DEF Decided
    <3> QED BY <1>0, <2>0, <3>1, <3>2 DEF AreasInv, Parsed
  <2> QED BY <2>1, <2>2
<1>4. CASE CopyPage
  <2>1. pc = "copy" /\ pc' = "loop" /\ UNCHANGED swap_list
    BY <1>4 DEF CopyPage
  <2>2. Decided'
    BY <1>0, <2>1 DEF AreasInv, Decided
  <2> QED BY <1>0, <2>1, <2>2 DEF AreasInv, Parsed
<1>5. CASE Interrupt
  BY <1>0, <1>5 DEF Interrupt, AreasInv
<1>6. CASE UNCHANGED vars
  BY <1>0, <1>6 DEF vars, loop, AreasInv, Parsed, Decided
<1> QED
  BY <1>1, <1>2, <1>3, <1>4, <1>5, <1>6 DEF Next, Step

\* One page copied is one page more of what the range has to hold.
LEMMA CopyStep ==
  ASSUME "same" \notin Sources, TypeOK, CopyInv, CopyPage, TypeOK'
  PROVE  CopyInv'
<1> USE SizeAssumption
<1> DEFINE read_len == Min(remain, PageSize - off)
           d == req[3] - remain
           x == req[2] + d
<1>0. pc = "copy"
  BY DEF CopyPage
<1>1. /\ remain <= req[3] /\ PageAt(d) = page /\ OffsetAt(d) = off
      /\ DOMAIN result = 0..(req[3] - 1)
      /\ result = [i \in DOMAIN result |-> IF i < d THEN Expected(i) ELSE Zero]
  BY <1>0 DEF CopyInv, done
<1>2. /\ remain \in Nat /\ page \in Nat /\ off \in Nat /\ off < PageSize
      /\ req[1] \in Nat /\ req[2] \in Nat /\ req[3] \in Nat /\ d \in Nat /\ x \in Nat
  <2>1. req[1] \in Nat /\ req[2] \in Offset /\ req[3] \in Nat
    BY DEF TypeOK
  <2>2. remain <= req[3]
    BY <1>1
  <2>3. remain \in Nat /\ page \in Nat /\ off \in Offset
    BY DEF TypeOK
  <2> QED BY <2>1, <2>2, <2>3 DEF Offset
<1>3. read_len \in Nat /\ read_len <= remain /\ off + read_len <= PageSize
  BY <1>2 DEF Min
<1>4. /\ remain' = remain - read_len /\ req' = req /\ pc' = "loop"
      /\ off + read_len = PageSize => page' = page + 1 /\ off' = 0
      /\ off + read_len # PageSize => off' = off + read_len /\ page' = page
      /\ UNCHANGED <<src, area, badarea, swap_list>>
  BY DEF CopyPage, dump
<1>5. result' = IF DoSwapPage(page) = NoBuf THEN result
                ELSE [i \in DOMAIN result |->
                        IF d <= i /\ i < d + read_len
                        THEN DoSwapPage(page)[off + (i - d)] ELSE result[i]]
  BY DEF CopyPage
<1>6. x % PageSize = off /\ req[1] + (x \div PageSize) = page
  BY <1>1, <1>2 DEF PageAt, OffsetAt
<1> HIDE DEF read_len
<1>7. ASSUME NEW i \in Nat, d <= i, i < d + read_len
      PROVE  PageAt(i) = page /\ OffsetAt(i) = off + (i - d)
  <2>1. i - d \in Nat /\ (x % PageSize) + (i - d) < PageSize
    BY <1>2, <1>3, <1>6, <1>7
  <2>2. x + (i - d) = req[2] + i
    BY <1>2, <1>7
  <2> HIDE DEF x, d
  <2>3. (x + (i - d)) \div PageSize = x \div PageSize
        /\ (x + (i - d)) % PageSize = (x % PageSize) + (i - d)
    <3>1. PICK k \in Nat : k = i - d
      BY <2>1
    <3>2. (x + k) \div PageSize = x \div PageSize /\ (x + k) % PageSize = (x % PageSize) + k
      <4>1. (x % PageSize) + k < PageSize /\ x \in Nat /\ PageSize \in Nat \ {0}
        BY <1>2, <2>1, <3>1
      <4> QED BY <4>1, SamePage, Zenon
    <3> QED BY <3>1, <3>2
  <2> QED BY <1>6, <2>2, <2>3 DEF PageAt, OffsetAt
<1>8. PageAt(d + read_len) = page' /\ OffsetAt(d + read_len) = off'
  <2>0. x + read_len = req[2] + (d + read_len)
    BY <1>2, <1>3
  <2>1. CASE off + read_len = PageSize
    <3> HIDE DEF x, d
    <3>1. (x + read_len) \div PageSize = (x \div PageSize) + 1 /\ (x + read_len) % PageSize = 0
      <4>1. (x % PageSize) + read_len = PageSize
        BY <1>2, <1>3, <1>6, <2>1
      <4> QED BY <1>2, <1>3, <4>1, NextPageStart, Zenon
    <3>2. x \div PageSize \in Nat
      BY <1>2
    <3>3. PageAt(d + read_len) = req[1] + ((x \div PageSize) + 1) /\ OffsetAt(d + read_len) = 0
      BY <2>0, <3>1 DEF PageAt, OffsetAt
    <3>4. req[1] + ((x \div PageSize) + 1) = page + 1
      BY <1>2, <1>6, <3>2
    <3> QED BY <1>4, <2>1, <3>3, <3>4
  <2>2. CASE off + read_len # PageSize
    <3> HIDE DEF x, d
    <3>1. (x + read_len) \div PageSize = x \div PageSize
          /\ (x + read_len) % PageSize = (x % PageSize) + read_len
      <4>1. (x % PageSize) + read_len < PageSize
        BY <1>2, <1>3, <1>6, <2>2
      <4> QED BY <1>2, <1>3, <4>1, SamePage, Zenon
    <3> QED BY <1>4, <1>6, <2>0, <2>2, <3>1 DEF PageAt, OffsetAt
  <2> QED BY <2>1, <2>2
<1>9. DOMAIN result' = 0..(req[3] - 1)
  BY <1>1, <1>5
<1>10. DoSwapPage(page) = IF page \in Found THEN Whole(page) ELSE NoBuf
  BY <1>2, PageBuffer
<1>11. ASSUME NEW i \in 0..(req[3] - 1)
       PROVE  result'[i] = IF i < d + read_len THEN Expected(i) ELSE Zero
  <2>0. i \in Nat /\ i \in DOMAIN result /\ result[i] = IF i < d THEN Expected(i) ELSE Zero
    <3> HIDE DEF d
    <3>1. i \in Nat /\ i \in DOMAIN result
      BY <1>1, <1>2
    <3> QED BY <1>1, <3>1
  <2>1. CASE d <= i /\ i < d + read_len
    <3>1. PageAt(i) = page /\ OffsetAt(i) = off + (i - d)
      BY <1>7, <2>0, <2>1
    <3>2. off + (i - d) \in Offset
      BY <1>2, <1>3, <2>0, <2>1 DEF Offset
    <3>3. CASE page \in Found
      <4>1. DoSwapPage(page) = Whole(page) /\ DoSwapPage(page) # NoBuf
        BY <1>10, <3>3, WholeIsBuffer
      <4>2. result'[i] = Whole(page)[off + (i - d)]
        BY <1>5, <2>0, <2>1, <4>1
      <4>3. Whole(page)[off + (i - d)] = MemoryByte(page, off + (i - d))
        BY <3>2 DEF Whole
      <4> QED BY <2>1, <3>1, <3>3, <4>2, <4>3 DEF Expected
    <3>4. CASE page \notin Found
      <4>1. result'[i] = result[i] /\ ~(i < d)
        BY <1>2, <1>5, <1>10, <2>0, <2>1, <3>4
      <4> QED BY <2>0, <2>1, <3>1, <3>4, <4>1 DEF Expected
    <3> QED BY <3>3, <3>4
  <2>2. CASE ~(d <= i /\ i < d + read_len)
    <3>1. result'[i] = result[i]
      BY <1>5, <2>0, <2>2
    <3>2. i < d + read_len <=> i < d
      BY <1>2, <1>3, <2>0, <2>2
    <3> QED BY <2>0, <3>1, <3>2
  <2> QED BY <2>1, <2>2
<1>12. done' = d + read_len
  BY <1>2, <1>3, <1>4 DEF done
<1>13. \A i : PageAt(i)' = PageAt(i) /\ OffsetAt(i)' = OffsetAt(i)
  BY <1>4 DEF PageAt, OffsetAt
<1>14. Found' = Found /\ \A p, o : MemoryByte(p, o)' = MemoryByte(p, o)
  BY <1>4 DEF Found, GetSwapInfo, MemoryByte, SourceOf
<1>15. \A i : Expected(i)' = Expected(i)
  BY <1>13, <1>14 DEF Expected, PageAt, OffsetAt
<1>16. remain' <= req'[3]
  <2>1. remain <= req[3] /\ remain' = remain - read_len /\ req'[3] = req[3]
    BY <1>1, <1>4
  <2> QED BY <1>2, <1>3, <2>1
<1>17. result' = [i \in DOMAIN result' |-> IF i < done' THEN Expected(i)' ELSE Zero]
  <2>1. DOMAIN result = 0..(req[3] - 1) /\ DOMAIN result' = 0..(req[3] - 1)
    BY <1>1, <1>9
  <2>2. result' = [i \in 0..(req[3] - 1) |-> result'[i]]
    <3>1. CASE DoSwapPage(page) = NoBuf
      BY <1>1, <1>5, <2>1, <3>1
    <3>2. CASE DoSwapPage(page) # NoBuf
      BY <1>5, <2>1, <3>2
    <3> QED BY <3>1, <3>2
  <2>3. \A i \in 0..(req[3] - 1) : result'[i] = IF i < done' THEN Expected(i)' ELSE Zero
    BY <1>11, <1>12, <1>15
  <2> QED BY <2>1, <2>2, <2>3
<1> HIDE DEF d
<1> QED
  BY <1>4, <1>8, <1>9, <1>12, <1>13, <1>16, <1>17 DEF CopyInv, PageAt, OffsetAt

\* Once a byte has been copied the pages that are found stay the same.
LEMMA FoundKept ==
  ASSUME TypeOK, AreasInv, [Next]_vars, Decided \/ ~ParserSwapInfo
  PROVE  UNCHANGED Found
<1>1. UNCHANGED <<src, area, badarea>>
  BY DumpKept DEF dump
<1>2. ASSUME ParserSwapInfo, Decided PROVE UNCHANGED swap_list
  <2>1. 1..NSwap \subseteq badarea /\ pc = "parser_swap_info"
    BY <1>2 DEF ParserSwapInfo, Decided
  <2>2. next > NSwap \/ next \in badarea
    BY <2>1, SizeAssumption DEF TypeOK
  <2> QED BY <1>2, <2>2 DEF ParserSwapInfo
<1>3. UNCHANGED swap_list
  BY <1>2 DEF Next, Step, UreadMemory, NextPage, CopyPage, Interrupt, vars
<1> QED BY <1>1, <1>3 DEF Found, GetSwapInfo

\* Every other step keeps what has been copied, and a new read starts empty.
LEMMA NextCopy ==
  ASSUME "same" \notin Sources, IInv, [Next]_vars, TypeOK'
  PROVE  CopyInv'
<1> USE SizeAssumption
<1>0. TypeOK /\ AreasInv /\ CopyInv
  BY DEF IInv
<1>1. ASSUME NEW p \in 0..NPages, NEW o \in Offset, NEW len \in 0..MaxLen, UreadMemory(p, o, len)
      PROVE  CopyInv'
  <2>1. /\ req'[1] = p /\ req'[2] = o /\ req'[3] = len /\ remain' = len /\ page' = p /\ off' = o
        /\ result' = [i \in 0..(len - 1) |-> Zero] /\ pc' = "loop"
    BY <1>1 DEF UreadMemory
  <2>2. done' = 0 /\ len <= len
    BY <2>1 DEF done
  <2>3. (o + 0) \div PageSize = 0 /\ (o + 0) % PageSize = o /\ p + 0 = p
    BY DEF Offset
  <2>4. \A i \in 0..(len - 1) : ~(i < 0)
    OBVIOUS
  <2>5. result' = [i \in DOMAIN result' |-> IF i < done' THEN Expected(i)' ELSE Zero]
    BY <2>1, <2>2, <2>4
  <2> QED
    BY <2>1, <2>2, <2>3, <2>5 DEF CopyInv, PageAt, OffsetAt
<1>2. ASSUME UNCHANGED <<req, page, off, remain, result>>,
             pc # "idle", pc' = "done" => remain = 0
      PROVE  CopyInv'
  <2>1. done' = done /\ req[3] \in Nat /\ remain \in Nat /\ remain <= req[3]
    BY <1>0, <1>2 DEF done, TypeOK, CopyInv
  <2>2. \A i : PageAt(i)' = PageAt(i) /\ OffsetAt(i)' = OffsetAt(i)
    BY <1>2 DEF PageAt, OffsetAt
  <2>3. /\ DOMAIN result = 0..(req[3] - 1)
        /\ result = [i \in DOMAIN result |-> IF i < done THEN Expected(i) ELSE Zero]
    BY <1>0, <1>2 DEF CopyInv
  <2>4. result = [i \in DOMAIN result |-> IF i < done THEN Expected(i)' ELSE Zero]
    <3>1. CASE remain < req[3]
      <4>1. Decided
        BY <1>0, <1>2, <3>1 DEF AreasInv
      <4>2. UNCHANGED Found /\ UNCHANGED src
        BY <1>0, <4>1, FoundKept, DumpKept DEF dump
      <4>3. \A i : Expected(i)' = Expected(i)
        BY <2>2, <4>2 DEF Expected, MemoryByte, SourceOf, PageAt, OffsetAt
      <4> QED BY <2>3, <4>3
    <3>2. CASE ~(remain < req[3])
      <4>1. done = 0 /\ \A i \in DOMAIN result : ~(i < done)
        BY <2>1, <2>3, <3>2 DEF done
      <4> QED BY <2>3, <4>1
    <3> QED BY <3>1, <3>2
  <2> QED
    BY <1>0, <1>2, <2>1, <2>2, <2>4 DEF CopyInv, PageAt, OffsetAt
<1>3. CASE NextPage
  BY <1>2, <1>3 DEF NextPage, loop
<1>4. CASE ParserSwapInfo
  BY <1>2, <1>4 DEF ParserSwapInfo, loop
<1>5. CASE CopyPage
  BY <1>0, <1>5, CopyStep
<1>6. CASE Interrupt
  BY <1>6 DEF Interrupt, CopyInv
<1>7. CASE UNCHANGED vars
  <2>1. CASE pc = "idle"
    BY <1>7, <2>1 DEF vars, CopyInv
  <2>2. CASE pc # "idle"
    BY <1>0, <1>2, <1>7, <2>2 DEF vars, loop, CopyInv
  <2> QED BY <2>1, <2>2
<1> QED
  BY <1>1, <1>3, <1>4, <1>5, <1>6, <1>7 DEF Next, Step

\* The invariant is inductive.
LEMMA NextInv ==
  ASSUME "same" \notin Sources, IInv, [Next]_vars
  PROVE  IInv'
<1>1. TypeOK'
  BY NextType DEF IInv
<1>2. AreasInv'
  BY <1>1, NextAreas DEF IInv
<1>3. CopyInv'
  BY <1>1, NextCopy
<1> QED BY <1>1, <1>2, <1>3 DEF IInv

\* With a complete list the pages that are found are those the dump has.
LEMMA FoundReadable ==
  ASSUME TypeOK, Parsed(NSwap + 1), "same" \notin Sources, NEW p \in Nat
  PROVE  p \in Found <=> Readable(p)
<1>1. CASE p >= NPages
  BY <1>1, SizeAssumption DEF Found, SourceOf, Readable
<1>2. CASE p < NPages
  <2>1. /\ SourceOf(p) = src[p] /\ src[p] \in Sources /\ area[p] \in 1..NSwap
        /\ NSwap \in Nat /\ p \in 0..(NPages - 1)
    BY <1>2, SizeAssumption DEF SourceOf, TypeOK
  <2>2. GetSwapInfo(p) <=> area[p] \notin badarea
    BY <2>1 DEF GetSwapInfo, Parsed, Has
  <2> QED
    BY <2>1, <2>2 DEF Found, Readable
<1> QED BY <1>1, <1>2, SizeAssumption

\* A finished read has at every position what was found.
LEMMA DoneExpected ==
  ASSUME IInv, pc = "done"
  PROVE  /\ DOMAIN result = 0..(req[3] - 1) /\ req[3] \in Nat
         /\ result = [i \in 0..(req[3] - 1) |-> Expected(i)]
         /\ \A i \in 0..(req[3] - 1) : result[i] = Expected(i) /\ PageAt(i) \in Nat /\ OffsetAt(i) \in Nat
         /\ req[3] # 0 => Decided
<1>1. /\ DOMAIN result = 0..(req[3] - 1) /\ remain = 0
      /\ result = [i \in DOMAIN result |-> IF i < done THEN Expected(i) ELSE Zero]
  BY DEF IInv, CopyInv
<1>2. req[1] \in Nat /\ req[2] \in Nat /\ req[3] \in Nat /\ PageSize \in Nat \ {0}
  <2>1. req[1] \in Nat /\ req[2] \in Offset /\ req[3] \in Nat
    BY DEF IInv, TypeOK
  <2> QED BY <2>1, SizeAssumption DEF Offset
<1>3. \A i \in 0..(req[3] - 1) : i < done
  BY <1>1, <1>2 DEF done
<1>4. result = [i \in 0..(req[3] - 1) |-> Expected(i)]
  BY <1>1, <1>3
<1>5. ASSUME NEW i \in 0..(req[3] - 1) PROVE PageAt(i) \in Nat /\ OffsetAt(i) \in Nat
  <2>1. req[2] + i \in Nat
    BY <1>2
  <2>2. (req[2] + i) \div PageSize \in Nat /\ (req[2] + i) % PageSize \in Nat
    BY <1>2, <2>1
  <2> QED BY <1>2, <2>2 DEF PageAt, OffsetAt
<1>6. \A i \in 0..(req[3] - 1) : result[i] = Expected(i)
  BY <1>4
<1>7. req[3] # 0 => Decided
  BY <1>1, <1>2 DEF IInv, AreasInv
<1> QED BY <1>1, <1>2, <1>4, <1>5, <1>6, <1>7

\* In a session without interrupts a read of user memory returns the bytes of
\* the dump and zeros where the dump has no page, for ranges of any length over
\* pages of any size and source but those of one repeated word.
THEOREM ReadIsExact ==
  ASSUME "same" \notin Sources
  PROVE  Spec => []ReadExact
<1>1. IInv /\ [Next]_vars => IInv'
  BY NextInv
<1>2. IInv => ReadExact
  <2> SUFFICES ASSUME IInv, ~interrupts, pc = "done", NEW i \in DOMAIN result
               PROVE  result[i] = IF Readable(PageAt(i)) THEN MemoryByte(PageAt(i), OffsetAt(i)) ELSE Zero
    BY DEF ReadExact
  <2>1. /\ result[i] = Expected(i) /\ PageAt(i) \in Nat /\ req[3] # 0 /\ Decided
    BY DoneExpected
  <2>2. TypeOK /\ AreasInv
    BY DEF IInv
  <2>3. Parsed(NSwap + 1)
    <3>1. swap_list = <<>> \/ Parsed(NSwap + 1)
      BY <2>2 DEF AreasInv
    <3>2. CASE swap_list = <<>>
      <4>1. 1..NSwap \subseteq badarea
        BY <2>1, <3>2 DEF Decided
      <4>2. \A a \in 1..NSwap : ~Has(swap_list, a)
        BY <3>2 DEF Has
      <4> QED BY <4>1, <4>2 DEF Parsed
    <3> QED BY <3>1, <3>2
  <2>4. PageAt(i) \in Found <=> Readable(PageAt(i))
    BY <2>1, <2>2, <2>3, FoundReadable
  <2> QED BY <2>1, <2>4 DEF Expected
<1> QED
  BY InitInv, <1>1, <1>2, PTL DEF Spec

\* A new area goes behind the smaller ones that are in the list.
LEMMA NextOrder ==
  ASSUME TypeOK, AreasInv, SwapListOrdered, [Next]_vars
  PROVE  SwapListOrdered'
<1> USE SizeAssumption
<1>1. CASE UNCHANGED swap_list
  BY <1>1 DEF SwapListOrdered
<1>2. CASE ~(UNCHANGED swap_list)
  <2>1. /\ pc = "parser_swap_info" /\ next \in 1..NSwap
        /\ swap_list' = Append(swap_list, next) /\ swap_list \in Seq(1..NSwap)
    <3>1. ASSUME NEW p \in 0..NPages, NEW o \in Offset, NEW len \in 0..MaxLen
          PROVE  ~UreadMemory(p, o, len)
      BY <1>2 DEF UreadMemory
    <3>2. ~NextPage /\ ~(UNCHANGED vars)
      BY <1>2 DEF NextPage, vars
    <3>3. ~CopyPage
      BY <1>2 DEF CopyPage
    <3>4. ~Interrupt
      BY <1>2 DEF Interrupt
    <3>5. ParserSwapInfo
      BY <3>1, <3>2, <3>3, <3>4 DEF Next, Step
    <3> QED BY <1>2, <3>5 DEF ParserSwapInfo, TypeOK
  <2>2. \A i \in 1..Len(swap_list) : swap_list[i] \in 1..NSwap /\ swap_list[i] < next
    BY <2>1 DEF AreasInv, Parsed, Has
  <2>3. /\ Len(swap_list) \in Nat /\ Len(swap_list') = Len(swap_list) + 1
        /\ \A i \in 1..Len(swap_list) : swap_list'[i] = swap_list[i]
        /\ swap_list'[Len(swap_list) + 1] = next
    BY <2>1
  <2> QED BY <2>2, <2>3 DEF SwapListOrdered
<1> QED BY <1>1, <1>2

\* A byte that is not of a page of zeros is not the byte nothing was copied to.
LEMMA ByteNotZero ==
  ASSUME NEW p, NEW o, SourceOf(p) # "zero"
  PROVE  MemoryByte(p, o) # Zero
<1>1. \A x, y : <<x, y>> # <<>>
  <2> TAKE x, y
  <2>1. Len(<<x, y>>) = 2 /\ Len(<<>>) = 0
    OBVIOUS
  <2> QED BY <2>1
<1> QED BY <1>1 DEF MemoryByte, Zero

\* Whatever was interrupted before, a finished read has no byte of another address
\* and all or nothing of each page, and the list of areas is in order.
THEOREM InterruptsAreHarmless ==
  ASSUME "same" \notin Sources
  PROVE  Spec => []InterruptsHarmless
<1>1. IInv /\ [Next]_vars => IInv'
  BY NextInv
<1>2. Init => SwapListOrdered
  BY DEF Init, SwapListOrdered
<1>3. IInv /\ SwapListOrdered /\ [Next]_vars => SwapListOrdered'
  BY NextOrder DEF IInv
<1>4. IInv => NeverWrongByte
  <2> SUFFICES ASSUME IInv, pc = "done", NEW i \in DOMAIN result
               PROVE  /\ result[i] \in {Zero, MemoryByte(PageAt(i), OffsetAt(i))}
                      /\ \A j \in DOMAIN result :
                           PageAt(i) = PageAt(j) /\ SourceOf(PageAt(i)) # "zero" =>
                             (result[i] = Zero <=> result[j] = Zero)
    BY DEF NeverWrongByte
  <2>1. \A j \in DOMAIN result : result[j] = Expected(j)
    BY DoneExpected
  <2>2. result[i] \in {Zero, MemoryByte(PageAt(i), OffsetAt(i))}
    BY <2>1 DEF Expected
  <2>3. ASSUME NEW j \in DOMAIN result, PageAt(i) = PageAt(j), SourceOf(PageAt(i)) # "zero"
        PROVE  result[i] = Zero <=> result[j] = Zero
    <3>1. /\ MemoryByte(PageAt(i), OffsetAt(i)) # Zero
          /\ MemoryByte(PageAt(j), OffsetAt(j)) # Zero
      BY <2>3, ByteNotZero
    <3> QED BY <2>1, <2>3, <3>1 DEF Expected
  <2> QED BY <2>2, <2>3
<1> QED
  BY InitInv, <1>1, <1>2, <1>3, <1>4, PTL DEF Spec, InterruptsHarmless

\* The pages of the abstract memory that the dump has, and those in memory.
LEMMA Places ==
  /\ Service!InDump = {p \in 0..(NPages - 1) : PlaceOf(p) # "nowhere"}
  /\ Service!Resident = {p \in 0..(NPages - 1) : PlaceOf(p) = "memory"}
BY DEF Service!InDump, Service!Resident, Service!Page

\* A list of areas, in part if commands are interrupted, gives a set of pages that a
\* session may settle on.
LEMMA FoundIsChoice ==
  ASSUME TypeOK, AreasInv, interrupts \/ Parsed(NSwap + 1)
  PROVE  Found \in Service!Choices
<1>1. \A p \in 0..(NPages - 1) : GetSwapInfo(p) <=> Has(swap_list, area[p])
  BY DEF GetSwapInfo, Has
<1>2. \A p \in 0..(NPages - 1) : area[p] \in 1..NSwap /\ src[p] \in Sources
  BY DEF TypeOK
<1>3. Found \subseteq Service!InDump
  BY <1>1, <1>2, Places DEF AreasInv, Found, PlaceOf
<1>4. Service!Resident \subseteq Found
  BY <1>2, Places DEF Found, PlaceOf
<1>5. Parsed(NSwap + 1) => Found = Service!InDump
  BY <1>1, <1>2, Places, SizeAssumption DEF Parsed, Found, PlaceOf
<1> QED BY <1>3, <1>4, <1>5 DEF Service!Choices

\* A session starts as the promise does.
LEMMA InitPromise == Init => Service!Init
<1> SUFFICES ASSUME Init PROVE Service!Init
  OBVIOUS
<1> USE SizeAssumption
<1>0. TypeOK /\ AreasInv
  BY InitInv DEF IInv
<1>1. ASSUME NEW p \in 0..(NPages - 1)
      PROVE  Whole(p) \in [Service!Offset -> {Zero} \cup (Nat \X Nat)]
  <2>1. ASSUME NEW o \in Offset PROVE MemoryByte(p, o) \in {Zero} \cup (Nat \X Nat)
    <3>1. o \in Nat /\ o % WordSize \in Nat /\ p \in Nat
      BY <2>1 DEF Offset
    <3> QED BY <3>1 DEF MemoryByte
  <2> QED BY <2>1 DEF Whole, Offset, Service!Offset
<1>2. \A p \in 0..(NPages - 1) : PlaceOf(p) \in {"memory", "zram", "nowhere"}
  BY DEF PlaceOf
<1>3. (IF Decided THEN {Found} ELSE {}) \in {{}, {Service!InDump}}
  <2>1. CASE Decided
    <3>1. 1..NSwap \subseteq badarea /\ swap_list = <<>>
      BY <2>1 DEF Decided, Init
    <3>2. Parsed(NSwap + 1)
      BY <3>1 DEF Parsed, Has
    <3>3. Found = Service!InDump
      <4>1. \A p \in 0..(NPages - 1) : ~GetSwapInfo(p) /\ area[p] \in badarea
        BY <1>0, <3>1 DEF GetSwapInfo, TypeOK
      <4> QED BY <4>1, Places DEF Found, PlaceOf
    <3> QED BY <2>1, <3>3
  <2>2. CASE ~Decided
    BY <2>2
  <2> QED BY <2>1, <2>2
<1> QED
  BY <1>1, <1>2, <1>3, Zenon DEF Init, Service!Init, Service!Page, Service!NoAnswer

\* The abstract memory and what is known, as functions of the state of the read.
Memory == [p \in 0..(NPages - 1) |-> [at |-> PlaceOf(p), bytes |-> Whole(p)]]
Known == IF Decided THEN {Found} ELSE {}
Status == CASE pc = "idle" -> "idle" [] pc = "done" -> "answered" [] OTHER -> "busy"
Answered == IF pc = "done" THEN result ELSE [i \in {} |-> Zero]

\* A step does not change the memory, and a step that keeps the areas or finds them
\* all bad does not change what is known.
LEMMA MemoryKept == ASSUME [Next]_vars PROVE Memory' = Memory /\ interrupts' = interrupts
<1>1. UNCHANGED <<src, area, badarea, interrupts>>
  BY DumpKept DEF dump
<1>2. \A p : PlaceOf(p)' = PlaceOf(p) /\ SourceOf(p)' = SourceOf(p)
  BY <1>1 DEF PlaceOf, SourceOf
<1>3. \A p, o : MemoryByte(p, o)' = MemoryByte(p, o)
  BY <1>2 DEF MemoryByte
<1>4. \A p : Whole(p)' = Whole(p)
  BY <1>3 DEF Whole
<1> QED BY <1>1, <1>2, <1>4 DEF Memory

\* A step that parses no area and decides nothing leaves what the session can see.
LEMMA KnownKept ==
  ASSUME [Next]_vars, UNCHANGED swap_list,
         Decided' <=> Decided
  PROVE  Known' = Known
<1>1. UNCHANGED <<src, area, badarea, interrupts>>
  BY DumpKept DEF dump
<1>2. Found' = Found
  BY <1>1 DEF Found, GetSwapInfo
<1> QED BY <1>2 DEF Known

\* The answer of a finished read is the one promised.
LEMMA DonePromise ==
  ASSUME TypeOK, AreasInv, CopyInv, pc = "loop", remain = 0
  PROVE  /\ req[3] = 0 \/ Known # {}
         /\ result = [i \in 0..(req[3] - 1) |->
                        IF Service!PageAt(i) \in UNION Known
                        THEN Memory[Service!PageAt(i)].bytes[Service!OffsetAt(i)] ELSE Zero]
<1> USE SizeAssumption
<1>1. /\ DOMAIN result = 0..(req[3] - 1)
      /\ result = [i \in DOMAIN result |-> IF i < done THEN Expected(i) ELSE Zero]
  BY DEF CopyInv
<1>2. req[1] \in Nat /\ req[2] \in Nat /\ req[3] \in Nat /\ PageSize \in Nat \ {0}
  <2>1. req[1] \in Nat /\ req[2] \in Offset /\ req[3] \in Nat
    BY DEF TypeOK
  <2> QED BY <2>1 DEF Offset
<1>3. req[3] # 0 => Decided
  BY <1>2 DEF AreasInv
<1>4. req[3] = 0 \/ Known # {}
  BY <1>3 DEF Known
<1>5. ASSUME NEW i \in 0..(req[3] - 1)
      PROVE  Expected(i) = IF Service!PageAt(i) \in UNION Known
                           THEN Memory[Service!PageAt(i)].bytes[Service!OffsetAt(i)] ELSE Zero
  <2>1. Decided /\ UNION Known = Found
    BY <1>2, <1>3 DEF Known
  <2>2. Service!PageAt(i) = PageAt(i) /\ Service!OffsetAt(i) = OffsetAt(i)
    BY DEF Service!PageAt, Service!OffsetAt, PageAt, OffsetAt
  <2>3. OffsetAt(i) \in Offset
    <3>1. req[2] + i \in Nat
      BY <1>2
    <3> QED BY <1>2, <3>1 DEF OffsetAt, Offset
  <2>4. CASE PageAt(i) \in Found
    <3>1. PageAt(i) \in 0..(NPages - 1)
      BY <2>4 DEF Found
    <3>2. Memory[PageAt(i)].bytes[OffsetAt(i)] = MemoryByte(PageAt(i), OffsetAt(i))
      BY <2>3, <3>1 DEF Memory, Whole
    <3> QED BY <2>1, <2>2, <2>4, <3>2 DEF Expected
  <2>5. CASE PageAt(i) \notin Found
    BY <2>1, <2>2, <2>5 DEF Expected
  <2> QED BY <2>4, <2>5
<1>6. \A i \in 0..(req[3] - 1) : i < done
  BY <1>2 DEF done
<1>7. result = [i \in 0..(req[3] - 1) |-> Expected(i)]
  BY <1>1, <1>6
<1> QED BY <1>4, <1>5, <1>7

\* Every step of a read is a step of the promise, or none.
LEMMA NextPromise ==
  ASSUME "same" \notin Sources, IInv, [Next]_vars, IInv'
  PROVE  [Service!Next]_(Service!vars)
<1> USE SizeAssumption
<1>0. TypeOK /\ AreasInv /\ CopyInv /\ TypeOK' /\ AreasInv'
  BY DEF IInv
<1>m. Memory' = Memory /\ interrupts' = interrupts /\ badarea' = badarea
  BY MemoryKept, DumpKept DEF dump
<1>s. ASSUME Known' = Known, Status' = Status, req' = req, Answered' = Answered
      PROVE  UNCHANGED Service!vars
  BY <1>s, <1>m DEF Service!vars, Memory, Known, Status, Answered
<1>1. ASSUME NEW p \in 0..NPages, NEW o \in Offset, NEW len \in 0..MaxLen, UreadMemory(p, o, len)
      PROVE  Service!Ask
  <2>1. /\ pc \in {"idle", "done"} /\ pc' = "loop" /\ req' = <<p, o, len>>
        /\ UNCHANGED swap_list
    BY <1>1 DEF UreadMemory
  <2>2. Decided' <=> Decided
    BY <1>m, <2>1 DEF Decided
  <2>3. Known' = Known
    BY <2>1, <2>2, KnownKept
  <2>4. Status \in {"idle", "answered"} /\ Status' = "busy" /\ Answered' = Service!NoAnswer
    BY <2>1 DEF Status, Answered, Service!NoAnswer
  <2>5. req' \in (0..NPages) \X Service!Offset \X (0..MaxLen)
    BY <2>1 DEF Offset, Service!Offset
  <2> QED
    BY <1>m, <2>3, <2>4, <2>5 DEF Service!Ask, Memory, Known, Status, Answered
<1>2. ASSUME NextPage PROVE Service!Answer \/ UNCHANGED Service!vars
  <2>1. pc = "loop" /\ UNCHANGED <<swap_list, req, result, remain>>
    BY <1>2 DEF NextPage, loop
  <2>2. CASE pc' = "done"
    <3>1. remain = 0
      BY <1>2, <2>2 DEF NextPage
    <3>2. Known' = Known
      BY <1>m, <2>1, <2>2, KnownKept DEF Decided
    <3>3. Status = "busy" /\ Status' = "answered" /\ Answered' = result
      BY <2>1, <2>2 DEF Status, Answered
    <3>4. /\ req[3] = 0 \/ Known # {}
          /\ result = [i \in 0..(req[3] - 1) |->
                         IF Service!PageAt(i) \in UNION Known
                         THEN Memory[Service!PageAt(i)].bytes[Service!OffsetAt(i)] ELSE Zero]
      BY <1>0, <2>1, <3>1, DonePromise
    <3> QED
      BY <1>m, <2>1, <3>2, <3>3, <3>4 DEF Service!Answer, Memory, Known, Status, Answered
  <2>3. CASE pc' = "copy"
    <3>1. Decided' <=> Decided
      BY <1>m, <2>1, <2>3 DEF Decided
    <3> QED BY <1>s, <2>1, <2>3, <3>1, KnownKept DEF Status, Answered
  <2>4. CASE pc' = "parser_swap_info"
    <3>1. swap_list = <<>>
      BY <1>2, <2>4 DEF NextPage
    <3>2. Decided' <=> Decided
      BY <1>m, <2>1, <3>1 DEF Decided
    <3> QED BY <1>s, <2>1, <2>4, <3>2, KnownKept DEF Status, Answered
  <2> QED BY <1>2, <2>2, <2>3, <2>4 DEF NextPage
<1>3. ASSUME ParserSwapInfo PROVE Service!Settle \/ UNCHANGED Service!vars
  <2>1. /\ pc = "parser_swap_info" /\ pc' \in {"parser_swap_info", "copy"}
        /\ Status' = Status /\ Status = "busy" /\ req' = req /\ Answered' = Answered
    BY <1>3 DEF ParserSwapInfo, Status, Answered
  <2>2. CASE Decided
    <3>1. UNCHANGED Found
      BY <1>0, <2>2, FoundKept
    <3>2. Decided'
      BY <1>m, <2>1, <2>2 DEF Decided
    <3> QED BY <1>s, <2>1, <2>2, <3>1, <3>2 DEF Known
  <2>3. CASE ~Decided /\ ~Decided'
    BY <1>s, <2>1, <2>3 DEF Known
  <2>4. CASE ~Decided /\ Decided'
    <3>1. next > NSwap /\ UNCHANGED swap_list
      BY <1>m, <1>3, <2>1, <2>4 DEF ParserSwapInfo, Decided
    <3>2. Parsed(NSwap + 1)
      <4>1. next = NSwap + 1
        BY <1>0, <3>1 DEF TypeOK
      <4> QED BY <1>0, <2>1, <4>1 DEF AreasInv
    <3>3. Found \in Service!Choices
      BY <1>0, <3>2, FoundIsChoice
    <3>4. UNCHANGED <<src, area, badarea>>
      BY DumpKept DEF dump
    <3>5. Found' = Found
      BY <3>1, <3>4 DEF Found, GetSwapInfo
    <3>6. Known = {} /\ Known' = {Found}
      BY <2>4, <3>5 DEF Known
    <3>7. \E v \in Service!Choices : Known' = {v}
      BY <3>3, <3>6
    <3> QED
      BY <1>m, <2>1, <3>6, <3>7 DEF Service!Settle, Memory, Known, Status, Answered
  <2> QED BY <2>2, <2>3, <2>4
<1>4. ASSUME CopyPage PROVE UNCHANGED Service!vars
  <2>1. pc = "copy" /\ pc' = "loop" /\ UNCHANGED <<swap_list, req>>
    BY <1>4 DEF CopyPage
  <2>2. Decided' <=> Decided
    BY <1>m, <2>1 DEF Decided
  <2> QED BY <1>s, <2>1, <2>2, KnownKept DEF Status, Answered
<1>5. ASSUME Interrupt PROVE Service!Abandon
  <2>1. /\ interrupts /\ pc \notin {"idle", "done"} /\ pc' = "idle" /\ req' = <<0, 0, 0>>
        /\ UNCHANGED swap_list
    BY <1>5 DEF Interrupt
  <2>2. Status = "busy" /\ Status' = "idle" /\ Answered' = Service!NoAnswer
    BY <2>1 DEF Status, Answered, Service!NoAnswer
  <2>3. UNCHANGED <<src, area, badarea>>
    BY DumpKept DEF dump
  <2>4. Found' = Found /\ Found \in Service!Choices
    <3>1. Found \in Service!Choices
      BY <1>0, <2>1, FoundIsChoice
    <3> QED BY <2>1, <2>3, <3>1 DEF Found, GetSwapInfo
  <2>5. Known' = Known \/ (Known = {} /\ \E v \in Service!Choices : Known' = {v})
    <3>1. Decided => Decided'
      BY <1>m, <2>1 DEF Decided
    <3> QED BY <2>4, <3>1 DEF Known
  <2> QED
    BY <1>m, <2>1, <2>2, <2>5 DEF Service!Abandon, Memory, Known, Status, Answered
<1>6. ASSUME UNCHANGED vars PROVE UNCHANGED Service!vars
  <2>1. Known' = Known
    BY <1>6, KnownKept DEF vars, dump, Decided
  <2> QED BY <1>s, <1>6, <2>1 DEF vars, Status, Answered
<1> QED
  BY <1>1, <1>2, <1>3, <1>4, <1>5, <1>6 DEF Next, Step, Service!Next

\* uread_memory, page by page, with the areas parsed on the way and interrupted
\* anywhere, implements the service that answers a whole range at once from one set of
\* pages per session (that every read ends is left to TLC).
THEOREM PromiseIsKept ==
  ASSUME "same" \notin Sources
  PROVE  Spec => Service!Safe
<1>1. IInv /\ [Next]_vars => IInv'
  BY NextInv
<1>2. IInv /\ [Next]_vars /\ IInv' => [Service!Next]_(Service!vars)
  BY NextPromise
<1> QED
  BY InitInv, InitPromise, <1>1, <1>2, PTL DEF Spec, Service!Safe

-----------------------------------------------------------------------------
(***************************************************************************)
(* LZ4_decompress_generic, the module Lz4Block, which gives the bytes of a *)
(* page that was compressed; block is the object and the buffer.           *)
(***************************************************************************)

CONSTANTS Blocks, BadBytes, Capacities
VARIABLES block, pos, out

L == INSTANCE Lz4Block WITH dump <- block

\* What the record of the output looks like while nothing was read or written outside.
Lz4Out ==
  /\ {"page", "ret", "inside"} \subseteq DOMAIN out
  /\ out.inside = TRUE /\ out.ret \in Int /\ out.ret <= L!oend

\* The variables of the decoder.
Lz4Positions == [ip : Nat, op : Nat, token : Nat, length : Nat, offset : Nat]

\* How far the stages have come in the input and the page: behind a stage there is
\* room for what the next one reads and writes before it checks again.
Lz4Room ==
  /\ pc = "decompress" => pos.ip = 0 /\ pos.op = 0
  /\ pc = "token" => pos.ip < L!iend /\ pos.op <= L!oend
  /\ pc = "run" => /\ pos.ip <= L!iend /\ pos.op <= L!oend /\ pos.length >= L!RUN_MASK
                   /\ pos.length # L!RUN_MASK => pos.ip < L!iend - L!RUN_MASK
  /\ pc = "literals" => pos.ip <= L!iend /\ pos.op <= L!oend
  /\ pc \in {"match", "mlen", "copy"} => pos.ip < L!iend /\ pos.op <= L!oend - L!MFLIMIT
  /\ pc \in {"mlen", "copy"} => pos.offset <= pos.op
  /\ pc = "rest" => /\ pos.ip < L!iend /\ pos.op \in 8..(L!oend - L!MINMATCH) /\ pos.length >= L!MINMATCH
                    /\ pos.offset <= pos.op

\* The inductive invariant of the decoder.
Lz4Inv ==
  /\ block.src \in Seq(L!Octet) /\ block.cap \in Nat
  /\ pos \in Lz4Positions
  /\ Lz4Out
  /\ pc \in {"decompress", "token", "run", "literals", "match", "mlen", "copy", "rest", "done"}
  /\ Lz4Room

\* An element of a sequence.
LEMMA ElementOf == ASSUME NEW X, NEW s \in Seq(X), NEW i \in DOMAIN s PROVE s[i] \in X
  OBVIOUS

\* A byte of the input, or the 0 that stands for one outside.
LEMMA Lz4Byte ==
  ASSUME Lz4Inv
  PROVE  /\ \A at \in Nat : L!In(at) \in 0..255
         /\ \A at \in Nat : L!LZ4_readLE16(at) \in Nat
<1>1. \A at \in Nat : L!In(at) \in 0..255
  <2> SUFFICES ASSUME NEW at \in Nat PROVE L!In(at) \in 0..255
    OBVIOUS
  <2>1. block.src \in Seq(L!Octet)
    BY DEF Lz4Inv
  <2>2. CASE at < Len(block.src)
    <3>1. at + 1 \in DOMAIN block.src
      BY <2>1, <2>2
    <3>2. block.src[at + 1] \in 0..255
      <4>1. block.src[at + 1] \in L!Octet
        BY <2>1, <3>1, ElementOf
      <4> QED BY <4>1 DEF L!Octet
    <3>3. L!In(at) = block.src[at + 1]
      BY <2>2 DEF L!In, L!iend
    <3> QED BY <3>2, <3>3
  <2>3. CASE ~(at < Len(block.src))
    BY <2>3 DEF L!In, L!iend
  <2> QED BY <2>2, <2>3, Zenon
<1>2. ASSUME NEW at \in Nat PROVE L!LZ4_readLE16(at) \in Nat
  <2>1. at + 1 \in Nat
    OBVIOUS
  <2>2. PICK a \in 0..255, b \in 0..255 : L!In(at) = a /\ L!In(at + 1) = b
    BY <1>1, <2>1, Zenon
  <2>3. L!LZ4_readLE16(at) = a + 256 * b
    BY <2>2 DEF L!LZ4_readLE16
  <2> QED BY <2>3
<1> QED BY <1>1, <1>2

\* A wild copy to an end that is behind its start moves less than eight bytes more.
LEMMA WildLength ==
  ASSUME NEW from \in Int, NEW end \in Int
  PROVE  /\ L!Wild(from, end) \in Nat
         /\ end <= from + 8 => L!Wild(from, end) = 8
         /\ end > from + 8 => from + L!Wild(from, end) <= end + 7
<1>1. CASE end <= from + 8
  BY <1>1 DEF L!Wild
<1>2. CASE end > from + 8
  <2> DEFINE n == end - from + 7
  <2>1. n \in Nat /\ L!Wild(from, end) = 8 * (n \div 8)
    BY <1>2 DEF L!Wild
  <2>2. 8 * (n \div 8) \in Nat /\ 8 * (n \div 8) <= n
    <3> HIDE DEF n
    <3> QED BY <2>1
  <2> QED BY <1>2, <2>1, <2>2
<1> QED BY <1>1, <1>2

\* A step that writes something to the page, all of it inside.
LEMMA Lz4Writes ==
  ASSUME Lz4Out, NEW P, NEW b, b, L!Writes(P, b), UNCHANGED block
  PROVE  Lz4Out'
<1>1. DOMAIN out' = DOMAIN out /\ out'.inside = (out.inside /\ b) /\ out'.ret = out.ret
  BY DEF Lz4Out, L!Writes, L!Looks
<1>2. out'.inside = TRUE
  BY <1>1, Zenon DEF Lz4Out
<1> QED BY <1>1, <1>2 DEF Lz4Out, L!oend

\* A step that writes nothing to the page.
LEMMA Lz4Reads ==
  ASSUME Lz4Out, NEW b, b, L!Looks(b), UNCHANGED block
  PROVE  Lz4Out'
<1>1. DOMAIN out' = DOMAIN out /\ out'.inside = (out.inside /\ b) /\ out'.ret = out.ret
  BY DEF Lz4Out, L!Writes, L!Looks
<1>2. out'.inside = TRUE
  BY <1>1, Zenon DEF Lz4Out
<1> QED BY <1>1, <1>2 DEF Lz4Out, L!oend

\* A block that is given up has nothing read or written outside.
LEMMA Lz4Fails ==
  ASSUME Lz4Out, block.cap \in Nat, NEW ip \in Nat, L!Fail(ip), UNCHANGED block
  PROVE  Lz4Out' /\ pc' = "done"
<1>1. DOMAIN out' = DOMAIN out /\ out'.inside = out.inside /\ out'.ret = -ip - 1 /\ pc' = "done"
  BY DEF Lz4Out, L!Fail
<1>2. -ip - 1 \in Int /\ -ip - 1 <= L!oend
  BY DEF L!oend
<1> QED BY <1>1, <1>2 DEF Lz4Out, L!oend

\* The start of the decoder.
LEMMA Lz4Decompress == ASSUME Lz4Inv, L!Decompress PROVE Lz4Inv'
<1>1. UNCHANGED <<block, pos>> /\ L!iend \in Nat
  BY DEF L!Decompress, Lz4Inv, L!iend
<1>2. CASE pc' = "token" /\ out' = out /\ L!iend # 0
  <2>1. pos.ip = 0 /\ pos.op = 0
    BY DEF L!Decompress, Lz4Inv, Lz4Room
  <2> QED BY <1>1, <1>2, <2>1 DEF Lz4Inv, Lz4Room, L!iend, L!oend, Lz4Out
<1>3. CASE pc' = "done" /\ out' = out
  BY <1>1, <1>3 DEF Lz4Inv, Lz4Room, L!iend, L!oend, Lz4Out
<1>4. CASE pc' = "done" /\ \E r \in {0, -1} : out' = [out EXCEPT !.ret = r]
  BY <1>1, <1>4 DEF Lz4Inv, Lz4Room, L!iend, L!oend, Lz4Out
<1> QED BY <1>2, <1>3, <1>4 DEF L!Decompress

\* What the lengths and the page are known to be.
LEMMA Lz4Types ==
  ASSUME Lz4Inv
  PROVE  /\ L!iend \in Nat /\ L!oend \in Nat /\ Lz4Out /\ block.cap \in Nat
         /\ pos.ip \in Nat /\ pos.op \in Nat /\ pos.token \in Nat /\ pos.length \in Nat /\ pos.offset \in Nat
         /\ pos = [ip |-> pos.ip, op |-> pos.op, token |-> pos.token, length |-> pos.length, offset |-> pos.offset]
<1>1. block.src \in Seq(L!Octet) /\ L!oend \in Nat /\ Lz4Out /\ pos \in Lz4Positions /\ block.cap \in Nat
  BY DEF Lz4Inv, L!oend
<1>2. L!iend \in Nat
  BY <1>1 DEF L!iend
<1> QED BY <1>1, <1>2 DEF Lz4Positions

\* What is left to show of a step.
LEMMA Lz4Step ==
  ASSUME Lz4Inv, UNCHANGED block, Lz4Out', pos' \in Lz4Positions,
         NEW p \in {"token", "run", "literals", "match", "mlen", "copy", "rest", "done"}, pc' = p, Lz4Room'
  PROVE  Lz4Inv'
  BY DEF Lz4Inv


\* The parts of the token and the offset behind the literals.
LEMMA Lz4Parts ==
  ASSUME Lz4Inv
  PROVE  /\ L!In(pos.ip) \in 0..255 /\ L!Lits \in 0..15 /\ L!In(pos.ip) % 16 \in 0..15
         /\ L!LZ4_readLE16(pos.ip + 1 + L!Lits) \in Nat
<1>1. PICK t \in 0..255 : L!In(pos.ip) = t
  BY Lz4Types, Lz4Byte
<1>2. t \div 16 \in 0..15 /\ t % 16 \in 0..15
  OBVIOUS
<1>3. PICK l \in 0..15 : L!Lits = l
  BY <1>1, <1>2 DEF L!Lits
<1>4. pos.ip + 1 + l \in Nat
  BY Lz4Types
<1> QED BY <1>1, <1>2, <1>3, <1>4, Lz4Byte

\* The token, with the shortcut for short literals and matches.
LEMMA Lz4Token == ASSUME Lz4Inv, L!Token PROVE Lz4Inv'
<1>1. UNCHANGED block /\ pc = "token" /\ L!iend' = L!iend /\ L!oend' = L!oend
  BY DEF L!Token, L!iend, L!oend
<1>2. /\ pos.ip \in Nat /\ pos.op \in Nat /\ pos.ip < L!iend /\ pos.op <= L!oend
      /\ L!iend \in Nat /\ L!oend \in Nat /\ Lz4Out
  BY <1>1, Lz4Types DEF Lz4Inv, Lz4Room
<1>3. PICK t \in 0..255, l \in 0..15, m \in 0..15, o \in Nat :
        L!In(pos.ip) = t /\ L!Lits = l /\ L!In(pos.ip) % 16 = m /\ L!LZ4_readLE16(pos.ip + 1 + L!Lits) = o
  BY Lz4Parts, Zenon
<1>4. L!AfterLits = [ip |-> pos.ip + 1 + l + 2, op |-> pos.op + l, token |-> t, length |-> m, offset |-> o]
  BY <1>3 DEF L!AfterLits
<1>5. CASE L!Shortcut
  <2>1. l # 15 /\ pos.ip + 1 < L!iend - 16 /\ pos.op <= L!oend - 32
    BY <1>3, <1>5 DEF L!Shortcut, L!RUN_MASK
  <2>2. L!LitsInside
    BY <1>2, <1>3, <2>1 DEF L!LitsInside, L!InsideIn, L!InsideOut
  <2>3. CASE L!ShortMatch
    <3>1. pos' = [L!AfterLits EXCEPT !.op = @ + L!AfterLits.length + L!MINMATCH] /\ pc' = "token"
      BY <1>1, <1>5, <2>3 DEF L!Token
    <3>2. PICK P : L!Writes(P, L!LitsInside /\ L!InsideOut(L!AfterLits.op, 18))
      BY <1>5, <2>3 DEF L!Token
    <3>3. pos' = [ip |-> pos.ip + 1 + l + 2, op |-> pos.op + l + m + 4, token |-> t, length |-> m, offset |-> o]
      BY <1>4, <3>1 DEF L!MINMATCH
    <3>4. L!InsideOut(L!AfterLits.op, 18)
      BY <1>2, <1>4, <2>1 DEF L!InsideOut
    <3>5. Lz4Out'
      BY <1>1, <1>2, <2>2, <3>2, <3>4, Lz4Writes, Zenon
    <3>6. pos' \in Lz4Positions /\ pos'.ip < L!iend /\ pos'.op <= L!oend
      <4>1. /\ pos.ip + 1 + l + 2 \in Nat /\ pos.ip + 1 + l + 2 < L!iend
            /\ pos.op + l + m + 4 \in Nat /\ pos.op + l + m + 4 <= L!oend
        <5>1. m # 15
          BY <1>4, <2>3 DEF L!ShortMatch, L!ML_MASK
        <5> QED BY <1>2, <2>1, <5>1
      <4> QED BY <3>3, <4>1 DEF Lz4Positions
    <3>7. Lz4Room'
      BY <1>1, <3>1, <3>6 DEF Lz4Room
    <3> QED BY <1>1, <3>1, <3>5, <3>6, <3>7, Lz4Step
  <2>4. CASE ~L!ShortMatch
    <3>1. pos' = L!AfterLits /\ pc' = "match" /\ L!Writes(L!LitsCopied, L!LitsInside)
      BY <1>1, <1>5, <2>4 DEF L!Token
    <3>2. Lz4Out'
      BY <1>1, <1>2, <2>2, <3>1, Lz4Writes, Zenon
    <3>3. pos' \in Lz4Positions /\ pos'.ip < L!iend /\ pos'.op <= L!oend - 12
      BY <1>2, <1>4, <2>1, <3>1 DEF Lz4Positions
    <3>4. Lz4Room'
      BY <1>1, <3>1, <3>3 DEF Lz4Room, L!MFLIMIT, L!WILDCOPYLENGTH, L!MINMATCH
    <3> QED BY <1>1, <3>1, <3>2, <3>3, <3>4, Lz4Step
  <2> QED BY <2>3, <2>4
<1>6. CASE ~L!Shortcut
  <2>1. /\ pos' = [pos EXCEPT !.ip = @ + 1, !.token = L!In(pos.ip), !.length = L!Lits]
        /\ L!Looks(L!InsideIn(pos.ip, 1))
        /\ pc' = IF L!Lits = L!RUN_MASK THEN "run" ELSE "literals"
    BY <1>6 DEF L!Token
  <2>2. Lz4Out'
    <3>1. L!InsideIn(pos.ip, 1)
      BY <1>2 DEF L!InsideIn
    <3> QED BY <1>1, <1>2, <2>1, <3>1, Lz4Reads
  <2>3. pos' = [ip |-> pos.ip + 1, op |-> pos.op, token |-> t, length |-> l, offset |-> pos.offset]
    BY <1>3, <2>1, Lz4Types, Zenon
  <2>4. pos' \in Lz4Positions /\ pos'.ip <= L!iend /\ pos'.op <= L!oend /\ pos'.length = l
    BY <1>2, <2>3, Lz4Types DEF Lz4Positions
  <2>5. pc' = IF l = 15 THEN "run" ELSE "literals"
    BY <1>3, <2>1 DEF L!RUN_MASK
  <2>6. Lz4Room'
    BY <1>1, <2>4, <2>5 DEF Lz4Room, L!RUN_MASK
  <2> QED BY <1>1, <2>2, <2>4, <2>5, <2>6, Lz4Step
<1> QED BY <1>5, <1>6

\* A byte of a long literal length.
LEMMA Lz4LiteralLength == ASSUME Lz4Inv, L!LiteralLength PROVE Lz4Inv'
<1>1. UNCHANGED block /\ pc = "run" /\ L!iend' = L!iend /\ L!oend' = L!oend
  BY DEF L!LiteralLength, L!iend, L!oend
<1>2. /\ pos.ip \in Nat /\ pos.op \in Nat /\ pos.length \in Nat /\ pos.op <= L!oend /\ pos.length >= 15
      /\ pos.length # 15 => pos.ip < L!iend - 15
      /\ L!iend \in Nat /\ L!oend \in Nat /\ Lz4Out /\ block.cap \in Nat
  BY <1>1, Lz4Types DEF Lz4Inv, Lz4Room, L!RUN_MASK
<1>3. CASE pos.length = L!RUN_MASK /\ pos.ip >= L!iend - L!RUN_MASK
  <2>1. L!Fail(pos.ip) /\ pos' = pos
    BY <1>2, <1>3 DEF L!LiteralLength, L!RUN_MASK
  <2>2. Lz4Out' /\ pc' = "done"
    BY <1>1, <1>2, <2>1, Lz4Fails
  <2> QED BY <1>1, <2>1, <2>2, Lz4Step DEF Lz4Inv, Lz4Room
<1>4. CASE ~(pos.length = L!RUN_MASK /\ pos.ip >= L!iend - L!RUN_MASK)
  <2>1. /\ pos' = [pos EXCEPT !.ip = @ + 1, !.length = @ + L!In(pos.ip)]
        /\ L!Looks(L!InsideIn(pos.ip, 1))
        /\ pc' = IF L!In(pos.ip) = 255 /\ pos.ip + 1 < L!iend - L!RUN_MASK THEN "run" ELSE "literals"
    BY <1>4 DEF L!LiteralLength
  <2>2. PICK t \in 0..255 : L!In(pos.ip) = t
    BY <1>2, Lz4Byte
  <2>3. pos.ip < L!iend - 15
    BY <1>2, <1>4 DEF L!RUN_MASK
  <2>4. Lz4Out'
    <3>1. L!InsideIn(pos.ip, 1)
      BY <1>2, <2>3 DEF L!InsideIn
    <3> QED BY <1>1, <1>2, <2>1, <3>1, Lz4Reads
  <2>5. pos' = [ip |-> pos.ip + 1, op |-> pos.op, token |-> pos.token, length |-> pos.length + t, offset |-> pos.offset]
    BY <2>1, <2>2, Lz4Types, Zenon
  <2>6. pos' \in Lz4Positions
    <3>1. pos.ip + 1 \in Nat /\ pos.length + t \in Nat
      BY <1>2
    <3> QED BY <2>5, <3>1, Lz4Types DEF Lz4Positions
  <2>7. CASE t = 255 /\ pos.ip + 1 < L!iend - 15
    <3>1. pc' = "run"
      BY <2>1, <2>2, <2>7 DEF L!RUN_MASK
    <3>2. pos'.ip <= L!iend /\ pos'.op <= L!oend /\ pos'.length >= 15 /\ pos'.ip < L!iend - 15
      BY <1>2, <2>3, <2>5, <2>7
    <3>3. Lz4Room'
      BY <1>1, <3>1, <3>2 DEF Lz4Room, L!RUN_MASK
    <3> QED BY <1>1, <2>4, <2>6, <3>1, <3>3, Lz4Step
  <2>8. CASE ~(t = 255 /\ pos.ip + 1 < L!iend - 15)
    <3>1. pc' = "literals"
      BY <2>1, <2>2, <2>8 DEF L!RUN_MASK
    <3>2. pos'.ip <= L!iend /\ pos'.op <= L!oend
      BY <1>2, <2>3, <2>5
    <3>3. Lz4Room'
      BY <1>1, <3>1, <3>2 DEF Lz4Room
    <3> QED BY <1>1, <2>4, <2>6, <3>1, <3>3, Lz4Step
  <2> QED BY <2>7, <2>8
<1> QED BY <1>3, <1>4

\* The literals, with the bytes the wild copy moves behind them.
LEMMA Lz4CopyLiterals == ASSUME Lz4Inv, L!CopyLiterals PROVE Lz4Inv'
<1> DEFINE cpy == pos.op + pos.length
           ip == pos.ip + pos.length
           wild == L!Wild(pos.op, cpy)
<1>1. UNCHANGED block /\ pc = "literals" /\ L!iend' = L!iend /\ L!oend' = L!oend
  BY DEF L!CopyLiterals, L!iend, L!oend
<1>2. /\ pos.ip \in Nat /\ pos.op \in Nat /\ pos.length \in Nat /\ pos.token \in Nat /\ pos.op <= L!oend
      /\ pos.ip <= L!iend /\ L!iend \in Nat /\ L!oend \in Nat /\ Lz4Out /\ block.cap \in Nat
  BY <1>1, Lz4Types DEF Lz4Inv, Lz4Room
<1>3. cpy \in Nat /\ ip \in Nat
  BY <1>2
<1>4. CASE L!AtEnd(cpy, ip) /\ (ip # L!iend \/ cpy > L!oend) /\ L!Fail(pos.ip) /\ UNCHANGED pos
  <2>1. Lz4Out' /\ pc' = "done"
    BY <1>1, <1>2, <1>4, Lz4Fails
  <2> QED BY <1>1, <1>4, <2>1, Lz4Step DEF Lz4Inv, Lz4Room
<1>5. ASSUME cpy <= L!oend, NEW P, out' = [out EXCEPT !.page = P, !.ret = cpy],
             pos' = [pos EXCEPT !.ip = ip, !.op = cpy], pc' = "done"
      PROVE  Lz4Inv'
  <2>1. DOMAIN out' = DOMAIN out /\ out'.inside = out.inside /\ out'.ret = cpy
    BY <1>2, <1>5 DEF Lz4Out
  <2>2. Lz4Out'
    BY <1>1, <1>2, <1>3, <1>5, <2>1 DEF Lz4Out
  <2>3. pos' = [ip |-> ip, op |-> cpy, token |-> pos.token, length |-> pos.length, offset |-> pos.offset]
    BY <1>5, Lz4Types, Zenon
  <2>4. pos' \in Lz4Positions
    BY <1>3, <2>3, Lz4Types DEF Lz4Positions
  <2> QED BY <1>1, <1>5, <2>2, <2>4, Lz4Step DEF Lz4Room
<1>6. ASSUME ~L!AtEnd(cpy, ip), NEW P,
             L!Writes(P, L!InsideIn(pos.ip, wild) /\ L!InsideOut(pos.op, wild) /\ L!InsideIn(ip, 2)),
             pos' = [pos EXCEPT !.ip = ip + 2, !.op = cpy, !.length = pos.token % 16, !.offset = L!LZ4_readLE16(ip)],
             pc' = "match"
      PROVE  Lz4Inv'
  <2>1. cpy <= L!oend - 12 /\ ip <= L!iend - 8
    BY <1>2, <1>3, <1>6 DEF L!AtEnd, L!MFLIMIT, L!LASTLITERALS, L!WILDCOPYLENGTH, L!MINMATCH
  <2>2. wild \in Nat /\ (cpy <= pos.op + 8 => wild = 8) /\ (cpy > pos.op + 8 => pos.op + wild <= cpy + 7)
    <3>1. pos.op \in Int /\ cpy \in Int
      BY <1>2, <1>3
    <3> HIDE DEF cpy
    <3> QED BY <3>1, WildLength, Zenon
  <2>3. L!InsideIn(pos.ip, wild) /\ L!InsideOut(pos.op, wild) /\ L!InsideIn(ip, 2)
    <3> HIDE DEF wild
    <3> QED BY <1>2, <2>1, <2>2 DEF L!InsideIn, L!InsideOut
  <2>4. Lz4Out'
    BY <1>1, <1>2, <1>6, <2>3, Lz4Writes, Zenon
  <2>5. PICK o \in Nat, m \in Nat : L!LZ4_readLE16(ip) = o /\ pos.token % 16 = m
    BY <1>2, <1>3, Lz4Byte
  <2>6. pos' = [ip |-> ip + 2, op |-> cpy, token |-> pos.token, length |-> m, offset |-> o]
    BY <1>6, <2>5, Lz4Types, Zenon
  <2>7. pos' \in Lz4Positions /\ pos'.ip < L!iend /\ pos'.op <= L!oend - 12
    <3> HIDE DEF ip, cpy
    <3> QED BY <1>2, <1>3, <2>1, <2>6 DEF Lz4Positions
  <2>8. Lz4Room'
    BY <1>1, <1>6, <2>7 DEF Lz4Room, L!MFLIMIT, L!WILDCOPYLENGTH, L!MINMATCH
  <2> QED BY <1>1, <1>6, <2>4, <2>7, <2>8, Lz4Step
<1> HIDE DEF cpy, ip, wild
<1> QED BY <1>4, <1>5, <1>6, Zenon DEF L!CopyLiterals, cpy, ip, wild

\* The offset of a match is put where the match goes.
LEMMA Lz4CheckMatch == ASSUME Lz4Inv, L!CheckMatch PROVE Lz4Inv'
<1>1. UNCHANGED <<block, pos>> /\ pc = "match" /\ L!iend' = L!iend /\ L!oend' = L!oend
  BY DEF L!CheckMatch, L!iend, L!oend
<1>2. /\ pos.ip \in Nat /\ pos.op \in Nat /\ pos.offset \in Nat /\ pos.op <= L!oend - 12
      /\ pos.ip < L!iend /\ L!iend \in Nat /\ L!oend \in Nat /\ Lz4Out /\ block.cap \in Nat /\ pos \in Lz4Positions
  BY <1>1, Lz4Types DEF Lz4Inv, Lz4Room, L!MFLIMIT, L!WILDCOPYLENGTH, L!MINMATCH
<1>3. CASE pos.op - pos.offset < 0 /\ L!Fail(pos.ip)
  <2>1. Lz4Out' /\ pc' = "done"
    BY <1>1, <1>2, <1>3, Lz4Fails
  <2> QED BY <1>1, <1>2, <2>1, Lz4Step DEF Lz4Room
<1>4. ASSUME pos.op - pos.offset >= 0, NEW P, L!Writes(P, L!InsideOut(pos.op, 2)), pc' \in {"mlen", "copy"}
      PROVE  Lz4Inv'
  <2>1. L!InsideOut(pos.op, 2)
    BY <1>2 DEF L!InsideOut
  <2>2. Lz4Out'
    BY <1>1, <1>2, <1>4, <2>1, Lz4Writes
  <2>3. PICK p \in {"mlen", "copy"} : pc' = p
    BY <1>4
  <2>4. pos.offset <= pos.op
    BY <1>2, <1>4
  <2>5. Lz4Room'
    BY <1>1, <1>2, <2>3, <2>4 DEF Lz4Room, L!MFLIMIT, L!WILDCOPYLENGTH, L!MINMATCH
  <2> QED BY <1>1, <1>2, <2>2, <2>3, <2>5, Lz4Step
<1>5. CASE /\ pos.op - pos.offset >= 0
           /\ L!Writes(L!Put(out.page, pos.op, <<pos.offset % 256, pos.offset \div 256>>), L!InsideOut(pos.op, 2))
           /\ pc' \in {"mlen", "copy"}
  BY <1>4, <1>5
<1> QED BY <1>3, <1>5 DEF L!CheckMatch

\* A byte of a long match length.
LEMMA Lz4MatchLength == ASSUME Lz4Inv, L!MatchLength PROVE Lz4Inv'
<1>1. UNCHANGED block /\ pc = "mlen" /\ L!iend' = L!iend /\ L!oend' = L!oend
  BY DEF L!MatchLength, L!iend, L!oend
<1>2. /\ pos.ip \in Nat /\ pos.op \in Nat /\ pos.offset \in Nat /\ pos.length \in Nat /\ pos.op <= L!oend - 12
      /\ pos.offset <= pos.op
      /\ pos.ip < L!iend /\ L!iend \in Nat /\ L!oend \in Nat /\ Lz4Out /\ block.cap \in Nat
  BY <1>1, Lz4Types, SMTT(20) DEF Lz4Inv, Lz4Room, L!MFLIMIT, L!WILDCOPYLENGTH, L!MINMATCH
<1>3. CASE L!Fail(pos.ip + 1) /\ pos' = [pos EXCEPT !.ip = @ + 1]
  <2>1. Lz4Out' /\ pc' = "done"
    <3>1. pos.ip + 1 \in Nat
      BY <1>2
    <3> QED BY <1>1, <1>2, <1>3, <3>1, Lz4Fails
  <2>2. pos' \in Lz4Positions
    BY <1>2, <1>3, Lz4Types DEF Lz4Positions
  <2> QED BY <1>1, <2>1, <2>2, Lz4Step DEF Lz4Room
<1>4. CASE /\ pos.ip + 1 <= L!iend - L!LASTLITERALS
           /\ pos' = [pos EXCEPT !.ip = @ + 1, !.length = @ + L!In(pos.ip)]
           /\ L!Looks(L!InsideIn(pos.ip, 1))
           /\ pc' \in {"mlen", "copy"}
  <2>1. PICK t \in 0..255 : L!In(pos.ip) = t
    BY <1>2, Lz4Byte
  <2>2. pos.ip + 1 < L!iend
    BY <1>2, <1>4 DEF L!LASTLITERALS
  <2>3. Lz4Out'
    <3>1. L!InsideIn(pos.ip, 1)
      BY <1>2 DEF L!InsideIn
    <3> QED BY <1>1, <1>2, <1>4, <3>1, Lz4Reads
  <2>4. pos' = [ip |-> pos.ip + 1, op |-> pos.op, token |-> pos.token, length |-> pos.length + t, offset |-> pos.offset]
    BY <1>4, <2>1, Lz4Types, Zenon
  <2>5. pos' \in Lz4Positions
    <3>1. pos.ip + 1 \in Nat /\ pos.length + t \in Nat
      BY <1>2
    <3> QED BY <2>4, <3>1, Lz4Types DEF Lz4Positions
  <2>6. PICK p \in {"mlen", "copy"} : pc' = p
    BY <1>4
  <2>7. pos'.ip < L!iend /\ pos'.op <= L!oend - 12 /\ pos'.offset <= pos'.op
    BY <1>2, <2>2, <2>4
  <2>8. Lz4Room'
    BY <1>1, <2>6, <2>7 DEF Lz4Room, L!MFLIMIT, L!WILDCOPYLENGTH, L!MINMATCH
  <2> QED BY <1>1, <2>3, <2>5, <2>6, <2>8, Lz4Step
<1> QED BY <1>3, <1>4 DEF L!MatchLength

\* The rest of a match is copied from inside the page too.
LEMMA Lz4RestFrom ==
  ASSUME pos.offset \in Nat
  PROVE  L!RestOffset \in Nat /\ L!RestOffset <= 8 + pos.offset
<1>1. CASE pos.offset >= 8
  BY <1>1 DEF L!RestOffset
<1>2. CASE pos.offset < 8
  <2>1. L!RestOffset = 8 + pos.offset - L!inc32table[pos.offset + 1] + L!dec64table[pos.offset + 1]
    BY <1>2 DEF L!RestOffset
  <2>2. \A d \in 0..7 : LET r == 8 + d - L!inc32table[d + 1] + L!dec64table[d + 1] IN r \in Nat /\ r <= 8 + d
    <3> SUFFICES ASSUME NEW d \in 0..7 PROVE LET r == 8 + d - L!inc32table[d + 1] + L!dec64table[d + 1] IN r \in Nat /\ r <= 8 + d
      OBVIOUS
    <3>0. CASE d = 0 BY <3>0, SMTT(20) DEF L!inc32table, L!dec64table
    <3>1. CASE d = 1 BY <3>1, SMTT(20) DEF L!inc32table, L!dec64table
    <3>2. CASE d = 2 BY <3>2, SMTT(20) DEF L!inc32table, L!dec64table
    <3>3. CASE d = 3 BY <3>3, SMTT(20) DEF L!inc32table, L!dec64table
    <3>4. CASE d = 4 BY <3>4, SMTT(20) DEF L!inc32table, L!dec64table
    <3>5. CASE d = 5 BY <3>5, SMTT(20) DEF L!inc32table, L!dec64table
    <3>6. CASE d = 6 BY <3>6, SMTT(20) DEF L!inc32table, L!dec64table
    <3>7. CASE d = 7 BY <3>7, SMTT(20) DEF L!inc32table, L!dec64table
    <3> QED BY <3>0, <3>1, <3>2, <3>3, <3>4, <3>5, <3>6, <3>7
  <2>3. pos.offset \in 0..7
    BY <1>2
  <2> QED BY <2>1, <2>2, <2>3
<1> QED BY <1>1, <1>2

\* The first eight bytes of a match.
LEMMA Lz4CopyFirst == ASSUME Lz4Inv, L!CopyFirst PROVE Lz4Inv'
<1>1. UNCHANGED block /\ pc = "copy" /\ L!iend' = L!iend /\ L!oend' = L!oend /\ pc' = "rest"
  BY DEF L!CopyFirst, L!iend, L!oend
<1>2. /\ pos.ip \in Nat /\ pos.op \in Nat /\ pos.offset \in Nat /\ pos.length \in Nat /\ pos.op <= L!oend - 12
      /\ pos.offset <= pos.op
      /\ pos.ip < L!iend /\ L!iend \in Nat /\ L!oend \in Nat /\ Lz4Out /\ block.cap \in Nat
  BY <1>1, Lz4Types DEF Lz4Inv, Lz4Room, L!MFLIMIT, L!WILDCOPYLENGTH, L!MINMATCH
<1>3. PICK P : L!Writes(P, L!InsideOut(pos.op, 8))
  BY DEF L!CopyFirst
<1>4. Lz4Out'
  <2>1. L!InsideOut(pos.op, 8)
    BY <1>2 DEF L!InsideOut
  <2> QED BY <1>1, <1>2, <1>3, <2>1, Lz4Writes
<1>5. PICK r \in Nat : L!RestOffset = r /\ r <= 8 + pos.offset
  BY <1>2, Lz4RestFrom
<1>6. pos' = [ip |-> pos.ip, op |-> pos.op + 8, token |-> pos.token, length |-> pos.length + 4, offset |-> r]
  BY <1>5, Lz4Types, Zenon DEF L!CopyFirst, L!MINMATCH
<1>7. pos' \in Lz4Positions
  <2>1. pos.op + 8 \in Nat /\ pos.length + 4 \in Nat
    BY <1>2
  <2> QED BY <1>6, <2>1, Lz4Types DEF Lz4Positions
<1>8. pos'.ip < L!iend /\ pos'.op \in 8..(L!oend - 4) /\ pos'.length >= 4 /\ pos'.offset <= pos'.op
  BY <1>2, <1>5, <1>6
<1>9. Lz4Room'
  BY <1>1, <1>8 DEF Lz4Room, L!MINMATCH
<1> QED BY <1>1, <1>4, <1>7, <1>9, Lz4Step

\* The rest of a match, with the bytes the wild copies move behind it.
LEMMA Lz4CopyRest == ASSUME Lz4Inv, L!CopyRest PROVE Lz4Inv'
<1> DEFINE cpy == pos.op - 8 + pos.length
           limit == L!oend - (L!WILDCOPYLENGTH - 1)
           n == IF pos.length > 16 THEN 8 + L!Wild(pos.op + 8, cpy) ELSE 8
<1>1. UNCHANGED block /\ pc = "rest" /\ L!iend' = L!iend /\ L!oend' = L!oend /\ pos' = [pos EXCEPT !.op = cpy]
  BY DEF L!CopyRest, L!iend, L!oend
<1>2. /\ pos.ip \in Nat /\ pos.op \in Nat /\ pos.length \in Nat /\ pos.op >= 8 /\ pos.op <= L!oend - 4 /\ pos.length >= 4
      /\ pos.ip < L!iend /\ L!iend \in Nat /\ L!oend \in Nat /\ Lz4Out /\ block.cap \in Nat
  BY <1>1, Lz4Types DEF Lz4Inv, Lz4Room, L!MINMATCH
<1>3. cpy \in Nat /\ limit = L!oend - 7
  BY <1>2 DEF L!WILDCOPYLENGTH
<1>4. pos' \in Lz4Positions /\ pos'.ip = pos.ip /\ pos'.op = cpy
  <2>1. pos' = [ip |-> pos.ip, op |-> cpy, token |-> pos.token, length |-> pos.length, offset |-> pos.offset]
    BY <1>1, Lz4Types
  <2> HIDE DEF cpy
  <2> QED BY <1>3, <2>1, Lz4Types DEF Lz4Positions
<1>5. CASE L!Fail(pos.ip)
  <2>1. Lz4Out' /\ pc' = "done"
    BY <1>1, <1>2, <1>5, Lz4Fails
  <2> QED BY <1>1, <1>4, <2>1, Lz4Step DEF Lz4Room
<1>6. ASSUME cpy <= L!oend, NEW P, NEW b, b, L!Writes(P, b), pc' = "token"
      PROVE  Lz4Inv'
  <2>1. Lz4Out'
    BY <1>1, <1>2, <1>6, Lz4Writes, Zenon
  <2>2. Lz4Room'
    BY <1>1, <1>2, <1>4, <1>6 DEF Lz4Room
  <2> QED BY <1>1, <1>4, <1>6, <2>1, <2>2, Lz4Step
<1>7. pos.op < limit => L!InsideOut(pos.op, L!Wild(pos.op, limit))
  <2> SUFFICES ASSUME pos.op < limit PROVE L!InsideOut(pos.op, L!Wild(pos.op, limit))
    OBVIOUS
  <2>1. PICK w \in Nat : /\ L!Wild(pos.op, limit) = w
                         /\ limit <= pos.op + 8 => w = 8
                         /\ limit > pos.op + 8 => pos.op + w <= limit + 7
    <3>1. pos.op \in Int /\ limit \in Int
      BY <1>2, <1>3
    <3> HIDE DEF limit
    <3> QED BY <3>1, WildLength, Zenon
  <2>2. pos.op + w <= L!oend
    BY <1>2, <1>3, <2>1
  <2> QED BY <1>2, <2>1, <2>2 DEF L!InsideOut
<1>8. cpy <= L!oend - 12 => L!InsideOut(pos.op, n)
  <2> SUFFICES ASSUME cpy <= L!oend - 12 PROVE L!InsideOut(pos.op, n)
    OBVIOUS
  <2>1. CASE pos.length <= 16
    <3>1. n = 8
      BY <1>2, <2>1
    <3>2. pos.op + 8 <= L!oend
      BY <1>2
    <3> QED BY <1>2, <3>1, <3>2 DEF L!InsideOut
  <2>2. CASE pos.length > 16
    <3>1. pos.op + 8 \in Int /\ cpy \in Int /\ cpy > pos.op + 8 /\ pos.op + 16 <= cpy + 8
      BY <1>2, <2>2
    <3>2. PICK w \in Nat : /\ L!Wild(pos.op + 8, cpy) = w
                           /\ cpy <= pos.op + 8 + 8 => w = 8
                           /\ cpy > pos.op + 8 + 8 => pos.op + 8 + w <= cpy + 7
      <4> HIDE DEF cpy
      <4> QED BY <3>1, WildLength, Zenon
    <3>3. n = 8 + w
      BY <2>2, <3>2
    <3>4. pos.op + (8 + w) <= L!oend
      <4> HIDE DEF cpy
      <4> QED BY <1>2, <3>1, <3>2
    <3> QED BY <1>2, <3>3, <3>4 DEF L!InsideOut
  <2> QED BY <1>2, <2>1, <2>2
<1>9. \/ L!Fail(pos.ip)
      \/ /\ cpy <= L!oend - 5 /\ pc' = "token"
         /\ L!Writes(L!SlowCopied(pos.op, cpy, limit), pos.op < limit => L!InsideOut(pos.op, L!Wild(pos.op, limit)))
      \/ /\ cpy <= L!oend - 12 /\ pc' = "token"
         /\ L!Writes(L!Move(out.page, pos.op, pos.op - pos.offset, n, 8), L!InsideOut(pos.op, n))
  BY DEF L!CopyRest, L!MATCH_SAFEGUARD_DISTANCE, L!WILDCOPYLENGTH, L!MINMATCH, L!LASTLITERALS
<1>10. (cpy <= L!oend - 5 => cpy <= L!oend) /\ (cpy <= L!oend - 12 => cpy <= L!oend)
  BY <1>2, <1>3
<1> HIDE DEF cpy, limit, n
<1> QED BY <1>5, <1>6, <1>7, <1>8, <1>9, <1>10, Zenon

\* Whatever the bytes replaced or cut off, the input is one of bytes.
LEMMA Lz4Init == ASSUME L!Lz4Assumption, L!Init PROVE Lz4Inv
<1>1. PICK b \in Blocks, c \in Capacities, name \in {"lz4", "zstd"} :
       \/ block = [block |-> b, src |-> L!Encode(b), cap |-> c, intact |-> TRUE, comp |-> name]
       \/ \E i \in 1..Len(L!Encode(b)), n \in {0, 1}, v \in BadBytes :
            block = [block |-> b, src |-> L!Replaced(L!Encode(b), i, n, v), cap |-> c, intact |-> FALSE, comp |-> name]
       \/ \E n \in 0..Len(L!Encode(b)) - 1 :
            /\ BadBytes # {}
            /\ block = [block |-> b, src |-> SubSeq(L!Encode(b), 1, n), cap |-> c, intact |-> FALSE, comp |-> name]
  BY Zenon DEF L!Init
<1> DEFINE e == L!Encode(b)
<1>2. e \in Seq(L!Octet) /\ c \in Nat /\ BadBytes \subseteq L!Octet
  BY DEF L!Lz4Assumption
<1> HIDE DEF e
<1>3. block.src \in Seq(L!Octet) /\ block.cap \in Nat
  <2>1. CASE block.src = e /\ block.cap = c
    BY <1>2, <2>1
  <2>2. ASSUME NEW i \in 1..Len(e), NEW n \in {0, 1}, NEW v \in BadBytes,
               block.src = L!Replaced(e, i, n, v), block.cap = c
        PROVE  block.src \in Seq(L!Octet) /\ block.cap \in Nat
    <3>1. \A k \in 1..Len(e) : e[k] \in L!Octet
      BY <1>2, ElementOf
    <3>2. \A k \in 1..Len(e) : (IF k \in i..i + n THEN v ELSE e[k]) \in L!Octet
      BY <1>2, <3>1
    <3>3. Len(e) \in Nat
      BY <1>2
    <3> QED BY <1>2, <2>2, <3>2, <3>3 DEF L!Replaced
  <2>3. ASSUME NEW n \in 0..Len(e) - 1, block.src = SubSeq(e, 1, n), block.cap = c
        PROVE  block.src \in Seq(L!Octet) /\ block.cap \in Nat
    BY <1>2, <2>3
  <2>4. \/ block.src = e /\ block.cap = c
        \/ \E i \in 1..Len(e), n \in {0, 1}, v \in BadBytes : block.src = L!Replaced(e, i, n, v) /\ block.cap = c
        \/ \E n \in 0..Len(e) - 1 : block.src = SubSeq(e, 1, n) /\ block.cap = c
    BY <1>1, SMTT(20) DEF e
  <2> QED BY <2>1, <2>2, <2>3, <2>4
<1>4. pc = "decompress" /\ pos = [ip |-> 0, op |-> 0, token |-> 0, length |-> 0, offset |-> 0]
  BY DEF L!Init
<1>5. Lz4Out
  <2>1. out = [page |-> [i \in 1..block.cap |-> 0], ret |-> -1, inside |-> TRUE]
    BY DEF L!Init, L!Unset
  <2> QED BY <1>3, <2>1 DEF Lz4Out, L!oend
<1> QED BY <1>3, <1>4, <1>5 DEF Lz4Inv, Lz4Positions, Lz4Room

\* LZ4_decompress_generic on any input, intact or damaged, reads inside the input and
\* writes inside the page with every byte its wide copies move, for every block,
\* capacity and damage.
THEOREM Lz4StaysInside == ASSUME L!Lz4Assumption PROVE L!Spec => []L!DecodedInside
<1>1. L!Init => Lz4Inv
  BY Lz4Init
<1>2. Lz4Inv /\ [L!Next]_L!vars => Lz4Inv'
  <2> SUFFICES ASSUME Lz4Inv, [L!Next]_L!vars PROVE Lz4Inv'
    OBVIOUS
  <2>1. CASE UNCHANGED L!vars
    BY <2>1 DEF L!vars, Lz4Inv, Lz4Out, Lz4Room, L!iend, L!oend
  <2> QED BY <2>1, Lz4Decompress, Lz4Token, Lz4LiteralLength, Lz4CopyLiterals, Lz4CheckMatch,
             Lz4MatchLength, Lz4CopyFirst, Lz4CopyRest DEF L!Next
<1>3. Lz4Inv => L!DecodedInside
  <2> SUFFICES ASSUME Lz4Inv PROVE L!DecodedInside
    OBVIOUS
  <2>1. pc \in {"mlen", "copy", "rest"} => pos.op - pos.offset >= 0
    BY Lz4Types DEF Lz4Inv, Lz4Room
  <2> QED BY <2>1 DEF Lz4Inv, Lz4Out, L!DecodedInside
<1> QED BY <1>1, <1>2, <1>3, PTL DEF L!Spec

=============================================================================
