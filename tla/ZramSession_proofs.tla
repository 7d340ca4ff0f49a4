------------------------- MODULE ZramSession_proofs -------------------------
(***************************************************************************)
(* Safety of the shared zram cache, for every number of zrams, classes and *)
(* groups, every dump and every order of commands, swap reads, failures and*)
(* interrupts.                                                             *)
(***************************************************************************)
EXTENDS ZramSession, SequenceTheorems, TLAPS

\* No element occurs twice in s.
Distinct(s) == \A i, j \in 1..Len(s) : s[i] = s[j] => i = j

\* e is an element of s.
Has(s, e) == \E i \in 1..Len(s) : s[i] = e

\* The sequence operations the caches use, as facts about types.
LEMMA SeqFacts ==
  ASSUME NEW S
  PROVE  /\ <<>> \in Seq(S)
         /\ \A e \in S : <<e>> \in Seq(S)
         /\ \A s \in Seq(S), e \in S : Append(s, e) \in Seq(S)
         /\ \A s \in Seq(S) : s # <<>> => Head(s) \in S /\ Tail(s) \in Seq(S)
OBVIOUS

\* Appending a new element keeps a list free of duplicates
\* (zram_list.push_back after the lookup).
LEMMA AppendDistinct ==
  ASSUME NEW S, NEW s \in Seq(S), NEW e \in S, Distinct(s), ~Has(s, e)
  PROVE  Distinct(Append(s, e))
BY DEF Distinct, Has

\* Appending adds one element to those a list has.
LEMMA AppendHas ==
  ASSUME NEW S, NEW s \in Seq(S), NEW e \in S, NEW d \in S
  PROVE  Has(Append(s, e), d) <=> (Has(s, d) \/ d = e)
<1>1. /\ Append(s, e) \in Seq(S)
      /\ Len(Append(s, e)) = Len(s) + 1
      /\ \A i \in 1..Len(s) : Append(s, e)[i] = s[i]
      /\ Append(s, e)[Len(s) + 1] = e
      /\ Len(s) \in Nat
  OBVIOUS
<1> QED
  BY <1>1 DEF Has

\* The loop over the idr consumes a duplicate-free list from the front.
LEMMA TailDistinct ==
  ASSUME NEW S, NEW s \in Seq(S), s # <<>>, Distinct(s)
  PROVE  /\ Tail(s) \in Seq(S)
         /\ Head(s) \in S
         /\ Distinct(Tail(s))
         /\ ~Has(Tail(s), Head(s))
         /\ \A e \in S : Has(Tail(s), e) => Has(s, e)
<1>1. /\ Tail(s) \in Seq(S) /\ Head(s) \in S
      /\ Head(s) = s[1]
      /\ Len(s) \in Nat \ {0}
      /\ Len(Tail(s)) = Len(s) - 1
      /\ \A i \in 1..Len(Tail(s)) : Tail(s)[i] = s[i + 1]
  OBVIOUS
<1> QED
  BY <1>1 DEF Distinct, Has

\* What parser_zpage has read so far of class k: the groups 1..n.
Read(k, n) ==
  /\ Len(fullness_list[k]) >= n
  /\ \A g \in 1..n : Has(fullness_list[k], g)

\* What parser_zrams has left to do is new to zram_list: without it the loop
\* over the idr would not keep zram_list free of duplicates.
ZramsInv ==
  /\ Distinct(zram_list)
  /\ pc = "parser_zrams" =>
       Distinct(todo) /\ \A z \in Zrams : ~(Has(todo, z) /\ Has(zram_list, z))

\* How far parser_zpage has come, and what a marked class holds.
GroupsInv ==
  /\ pc = "parser_zpage" =>
       todo # <<>> /\ Read(<<Head(todo), cls>>, grp - 1)
  /\ \A k \in zspage_parser : Read(k, GroupCnt)

\* The inductive invariant.
IInv == TypeOK /\ ZramsInv /\ GroupsInv

\* The constructor leaves empty caches.
LEMMA InitInv == Init => IInv
<1> SUFFICES ASSUME Init PROVE IInv
  OBVIOUS
<1>1. TypeOK
  BY CountAssumption DEF Init, TypeOK, Kind, Op, Group, Class
<1> QED
  BY <1>1 DEF Init, IInv, ZramsInv, GroupsInv, Distinct

\* The ways a command goes on or ends keep the types, the caches being typed.
LEMMA ControlType ==
  ASSUME TypeOK, UNCHANGED dump,
         zram_list' \in Seq(Zrams), fullness_list' \in [Class -> Seq(Group)],
         zspage_parser' \in SUBSET Class
  PROVE  /\ \A st, r : Finish(st, r) => TypeOK'
         /\ Die => TypeOK'
         /\ \A zs \in Seq(Zrams) : Visit(zs) => TypeOK'
<1>1. 1 \in Group /\ 1 \in 1..ClassCnt /\ <<>> \in Seq(Zrams)
  BY CountAssumption, SeqFacts DEF Group
<1>2. ASSUME NEW st, NEW r, Finish(st, r) PROVE TypeOK'
  BY <1>1, <1>2 DEF Finish, TypeOK, dump
<1>3. ASSUME Die PROVE TypeOK'
  BY <1>3 DEF Die, TypeOK, dump, pos
<1>4. ASSUME NEW zs \in Seq(Zrams), Visit(zs) PROVE TypeOK'
  BY <1>4 DEF Visit, TypeOK, dump
<1> QED
  BY <1>2, <1>3, <1>4

\* parser_zram adds a zram or nothing.
LEMMA ParserZramType ==
  ASSUME TypeOK, NEW z \in Zrams, ParserZram(z)
  PROVE  zram_list' \in Seq(Zrams)
<1>1. Append(zram_list, z) \in Seq(Zrams) /\ zram_list \in Seq(Zrams)
  BY SeqFacts DEF TypeOK
<1> QED
  BY <1>1 DEF ParserZram

\* Every step keeps the types.
LEMMA NextType == ASSUME IInv, [Next]_vars PROVE TypeOK'
<1>0. TypeOK /\ <<>> \in Seq(Zrams)
  BY SeqFacts DEF IInv
<1>1. ASSUME NEW o \in Op, CmdMain(o) PROVE TypeOK'
  BY <1>0, <1>1, ZramAssumption, Zenon DEF CmdMain, TypeOK, dump, cache
<1>2. ASSUME NEW z \in Zrams, ReadZramPage(z) PROVE TypeOK'
  <2>1. zram_list' \in Seq(Zrams)
    BY <1>0, <1>2, ParserZramType DEF ReadZramPage, TypeOK
  <2> QED
    BY <1>0, <1>2, <2>1 DEF ReadZramPage, TypeOK, dump, pos
<1>3. CASE Interrupt
  BY <1>0, <1>3, ControlType DEF Interrupt, TypeOK, cache
<1>4. CASE ParserZrams
  <2>1. CASE todo = <<>>
    BY <1>0, <1>4, <2>1 DEF ParserZrams, TypeOK, dump
  <2>2. CASE todo # <<>>
    <3>1. Head(todo) \in Zrams /\ Tail(todo) \in Seq(Zrams)
      BY <1>0, <2>2, SeqFacts DEF TypeOK
    <3>2. ParserZram(Head(todo)) /\ todo' = Tail(todo) /\ UNCHANGED pc
      BY <1>4, <2>2 DEF ParserZrams
    <3>3. zram_list' \in Seq(Zrams)
      BY <1>0, <3>1, <3>2, ParserZramType
    <3> QED
      BY <1>0, <1>4, <3>1, <3>2, <3>3 DEF ParserZrams, TypeOK, dump
  <2> QED BY <2>1, <2>2
<1>5. CASE PrintZrams
  BY <1>0, <1>5, ControlType DEF PrintZrams, TypeOK, cache
<1>6. CASE PrintMemPool
  BY <1>0, <1>6, ControlType DEF PrintMemPool, TypeOK, cache
<1>7. CASE PrintZspages
  <2>1. ASSUME InList(op.arg) PROVE <<op.arg>> \in Seq(Zrams)
    <3>1. op.arg \in Zrams
      BY <1>0, <2>1 DEF TypeOK, InList
    <3> QED BY <3>1
  <2> QED
    BY <1>0, <1>7, <2>1, ControlType, Zenon DEF PrintZspages, TypeOK, cache
<1>8. CASE PrintObjs
  BY <1>0, <1>8, ControlType DEF PrintObjs, TypeOK, cache
<1>9. CASE VisitClass
  <2>0. UNCHANGED dump /\ UNCHANGED cache
    BY <1>9 DEF VisitClass
  <2>1. ASSUME NextClass, todo # <<>> PROVE TypeOK'
    <3>1. Tail(todo) \in Seq(Zrams)
      BY <1>0, <2>1, SeqFacts DEF TypeOK
    <3>2. cls' \in 1..ClassCnt
      BY <1>0, <2>1, CountAssumption DEF NextClass, TypeOK
    <3> QED
      BY <1>0, <2>0, <2>1, <3>1, <3>2, Zenon DEF NextClass, TypeOK, dump, cache
  <2>2. ASSUME pc' = "parser_zpage", grp' = 1, UNCHANGED <<op, todo, cls, out, shown>>
        PROVE  TypeOK'
    <3>1. grp' \in Group
      BY <2>2, CountAssumption DEF Group
    <3> QED
      BY <1>0, <2>0, <2>2, <3>1 DEF TypeOK, dump, cache
  <2>3. (\A st, r : Finish(st, r) => TypeOK') /\ (Die => TypeOK')
    BY <1>0, <2>0, ControlType DEF TypeOK, cache
  <2> QED
    BY <1>9, <2>1, <2>2, <2>3 DEF VisitClass
<1>10. CASE ParserZpage
  <2> DEFINE k == <<Head(todo), cls>>
  <2>1. k \in Class /\ Head(todo) \in Zrams
    BY <1>0, <1>10, SeqFacts DEF ParserZpage, IInv, GroupsInv, TypeOK, Class
  <2>2. CASE <<k, grp>> \in corrupt
    BY <1>0, <1>10, <2>2, ControlType DEF ParserZpage, TypeOK
  <2>3. CASE <<k, grp>> \notin corrupt
    <3>1. fullness_list' \in [Class -> Seq(Group)]
      <4>1. Append(fullness_list[k], grp) \in Seq(Group)
        BY <1>0, <2>1, SeqFacts DEF TypeOK
      <4>2. fullness_list' = [fullness_list EXCEPT ![k] = Append(fullness_list[k], grp)]
        BY <1>10, <2>3, Zenon DEF ParserZpage
      <4> HIDE DEF k
      <4> QED BY <1>0, <4>1, <4>2, Zenon DEF TypeOK
    <3>2. zspage_parser' \in SUBSET Class
      BY <1>0, <1>10, <2>1, <2>3, Zenon DEF ParserZpage, TypeOK
    <3>3. grp' \in Group
      BY <1>0, <1>10, <2>3, CountAssumption DEF ParserZpage, TypeOK, Group
    <3> QED
      BY <1>0, <1>10, <2>3, <3>1, <3>2, <3>3 DEF ParserZpage, TypeOK, dump
  <2> QED BY <2>2, <2>3
<1>11. CASE UNCHANGED vars
  BY <1>0, <1>11 DEF vars, dump, cache, pos, TypeOK
<1> QED
  BY <1>1, <1>2, <1>3, <1>4, <1>5, <1>6, <1>7, <1>8, <1>9, <1>10, <1>11
     DEF Next, Step

\* Both writers of zram_list keep it free of duplicates.
LEMMA NextZrams == ASSUME IInv, [Next]_vars PROVE ZramsInv'
<1>0. TypeOK /\ ZramsInv
  BY DEF IInv
<1>1. ASSUME NEW o \in Op, CmdMain(o) PROVE ZramsInv'
  <2>1. CASE zram_list = <<>>
    <3>1. Distinct(ZramIdr) /\ \A z : ~Has(<<>>, z)
      BY ZramAssumption DEF Distinct, Has
    <3>2. todo' = ZramIdr /\ zram_list' = <<>>
      BY <1>1, <2>1 DEF CmdMain, cache
    <3> QED
      BY <1>0, <2>1, <3>1, <3>2 DEF ZramsInv
  <2>2. CASE zram_list # <<>>
    BY <1>0, <1>1, <2>2 DEF CmdMain, cache, ZramsInv
  <2> QED BY <2>1, <2>2
<1>2. ASSUME NEW z \in Zrams, ReadZramPage(z) PROVE ZramsInv'
  <2>1. CASE InList(z)
    BY <1>0, <1>2, <2>1 DEF ReadZramPage, ZramsInv
  <2>2. CASE ~InList(z)
    <3>1. Distinct(Append(zram_list, z))
      BY <1>0, <2>2, AppendDistinct DEF TypeOK, ZramsInv, InList, Has
    <3>2. zram_list' \in {zram_list, Append(zram_list, z)} /\ pc' = "idle"
      BY <1>2, <2>2 DEF ReadZramPage, ParserZram
    <3> QED
      BY <1>0, <3>1, <3>2, Zenon DEF ZramsInv
  <2> QED BY <2>1, <2>2
<1>3. CASE ParserZrams
  <2>1. CASE todo = <<>>
    BY <1>0, <1>3, <2>1 DEF ParserZrams, ZramsInv
  <2>2. CASE todo # <<>>
    <3> DEFINE h == Head(todo)
    <3>1. /\ Distinct(todo)
          /\ \A z \in Zrams : ~(Has(todo, z) /\ Has(zram_list, z))
          /\ todo \in Seq(Zrams) /\ zram_list \in Seq(Zrams)
      BY <1>0, <1>3 DEF ParserZrams, ZramsInv, TypeOK
    <3>2. /\ h \in Zrams /\ Distinct(Tail(todo)) /\ ~Has(Tail(todo), h)
          /\ \A e \in Zrams : Has(Tail(todo), e) => Has(todo, e)
      BY <2>2, <3>1, TailDistinct
    <3>3. Has(todo, h)
      <4>1. todo[1] = h /\ 1 \in 1..Len(todo)
        BY <2>2, <3>1
      <4> QED BY <4>1 DEF Has
    <3>4. ~Has(zram_list, h)
      BY <3>1, <3>2, <3>3
    <3>5. Distinct(Append(zram_list, h))
      BY <1>0, <3>1, <3>2, <3>4, AppendDistinct DEF ZramsInv
    <3>6. \A z \in Zrams : Has(Append(zram_list, h), z) <=> (Has(zram_list, z) \/ z = h)
      BY <3>1, <3>2, AppendHas
    <3>7. /\ todo' = Tail(todo)
          /\ zram_list' \in {zram_list, Append(zram_list, h)}
      BY <1>3, <2>2 DEF ParserZrams, ParserZram
    <3> HIDE DEF h
    <3>8. Distinct(zram_list') /\ Distinct(todo')
      BY <1>0, <3>2, <3>5, <3>7, Zenon DEF ZramsInv
    <3>9. \A z \in Zrams : ~(Has(todo', z) /\ Has(zram_list', z))
      BY <3>1, <3>2, <3>6, <3>7, Zenon
    <3> QED
      BY <3>8, <3>9 DEF ZramsInv
  <2> QED BY <2>1, <2>2
<1>4. ASSUME UNCHANGED zram_list, pc' # "parser_zrams" PROVE ZramsInv'
  BY <1>0, <1>4 DEF ZramsInv
<1>5. CASE Interrupt
  BY <1>4, <1>5 DEF Interrupt, Finish, cache
<1>6. CASE PrintZrams
  BY <1>4, <1>6 DEF PrintZrams, Finish, Die, cache
<1>7. CASE PrintMemPool
  BY <1>4, <1>7 DEF PrintMemPool, Finish, Die, cache
<1>8. CASE PrintZspages
  BY <1>4, <1>8 DEF PrintZspages, Finish, Visit, cache
<1>9. CASE PrintObjs
  BY <1>4, <1>9 DEF PrintObjs, Visit, cache
<1>10. CASE VisitClass
  BY <1>4, <1>10 DEF VisitClass, Finish, Die, NextClass, cache
<1>11. CASE ParserZpage
  BY <1>4, <1>11 DEF ParserZpage, Finish
<1>12. CASE UNCHANGED vars
  BY <1>0, <1>12 DEF vars, cache, pos, ZramsInv
<1> QED
  BY <1>1, <1>2, <1>3, <1>5, <1>6, <1>7, <1>8, <1>9, <1>10, <1>11, <1>12
     DEF Next, Step

\* fullness_list only grows, and the mark follows the last group.
LEMMA NextGroups == ASSUME IInv, [Next]_vars PROVE GroupsInv'
<1>0. TypeOK /\ GroupsInv
  BY DEF IInv
<1>1. ASSUME UNCHANGED <<fullness_list, zspage_parser>>, pc' # "parser_zpage"
      PROVE  GroupsInv'
  BY <1>0, <1>1 DEF GroupsInv, Read
<1>2. ASSUME NEW o \in Op, CmdMain(o) PROVE GroupsInv'
  BY <1>1, <1>2 DEF CmdMain, cache
<1>3. ASSUME NEW z \in Zrams, ReadZramPage(z) PROVE GroupsInv'
  BY <1>1, <1>3 DEF ReadZramPage
<1>4. CASE Interrupt
  BY <1>1, <1>4 DEF Interrupt, Finish, cache
<1>5. CASE ParserZrams
  BY <1>1, <1>5 DEF ParserZrams
<1>6. CASE PrintZrams
  BY <1>1, <1>6 DEF PrintZrams, Finish, Die, cache
<1>7. CASE PrintMemPool
  BY <1>1, <1>7 DEF PrintMemPool, Finish, Die, cache
<1>8. CASE PrintZspages
  BY <1>1, <1>8 DEF PrintZspages, Finish, Visit, cache
<1>9. CASE PrintObjs
  BY <1>1, <1>9 DEF PrintObjs, Visit, cache
<1>10. CASE VisitClass
  <2>1. UNCHANGED <<fullness_list, zspage_parser>>
    BY <1>10 DEF VisitClass, cache
  <2>2. CASE pc' # "parser_zpage"
    BY <1>1, <2>1, <2>2
  <2>3. CASE pc' = "parser_zpage"
    <3>1. todo # <<>> /\ UNCHANGED <<todo, cls>> /\ grp' = 1
      BY <1>10, <2>3 DEF VisitClass, Finish, Die, NextClass
    <3>2. <<Head(todo), cls>> \in Class
      BY <1>0, <3>1, SeqFacts DEF TypeOK, Class
    <3>3. Len(fullness_list[<<Head(todo), cls>>]) >= 0
      BY <1>0, <3>2 DEF TypeOK
    <3> QED
      BY <1>0, <2>1, <3>1, <3>3 DEF GroupsInv, Read
  <2> QED BY <2>2, <2>3
<1>11. CASE ParserZpage
  <2> DEFINE k == <<Head(todo), cls>>
  <2>1. k \in Class /\ todo # <<>> /\ Read(k, grp - 1)
    BY <1>0, <1>11, SeqFacts DEF ParserZpage, GroupsInv, TypeOK, Class
  <2>2. CASE <<k, grp>> \in corrupt
    BY <1>1, <1>11, <2>2 DEF ParserZpage, Finish
  <2>3. CASE <<k, grp>> \notin corrupt
    <3>1. /\ fullness_list' = [fullness_list EXCEPT ![k] = Append(@, grp)]
          /\ UNCHANGED <<todo, cls>>
          /\ grp = GroupCnt => pc' = "classes" /\ zspage_parser' = zspage_parser \cup {k}
          /\ grp # GroupCnt => grp' = grp + 1 /\ UNCHANGED <<pc, zspage_parser>>
      BY <1>11, <2>3 DEF ParserZpage
    <3>2. /\ fullness_list \in [Class -> Seq(Group)] /\ fullness_list[k] \in Seq(Group)
          /\ grp \in Group /\ Len(fullness_list[k]) \in Nat
          /\ zspage_parser \subseteq Class
      BY <1>0, <2>1 DEF TypeOK
    <3> HIDE DEF k
    <3>3. /\ fullness_list'[k] = Append(fullness_list[k], grp)
          /\ \A j \in Class : j # k => fullness_list'[j] = fullness_list[j]
      BY <2>1, <3>1, <3>2
    <3>4. \A g \in Group : Has(fullness_list[k], g) \/ g = grp => Has(fullness_list'[k], g)
      BY <3>2, <3>3, AppendHas
    <3>5. Len(fullness_list'[k]) = Len(fullness_list[k]) + 1
      BY <3>2, <3>3
    <3>6. (1..grp) \subseteq Group /\ grp \in Nat \ {0}
      BY <3>2, CountAssumption DEF Group
    <3>7. Len(fullness_list'[k]) >= grp /\ \A g \in 1..grp : Has(fullness_list'[k], g)
      BY <2>1, <3>2, <3>4, <3>5, <3>6 DEF Read
    <3>8. ASSUME NEW j \in zspage_parser PROVE Read(j, GroupCnt)'
      <4>1. Read(j, GroupCnt) /\ j \in Class
        BY <1>0, <3>2, <3>8 DEF GroupsInv
      <4>2. CASE j # k
        BY <3>3, <4>1, <4>2 DEF Read
      <4>3. CASE j = k
        BY <3>2, <3>4, <3>5, <4>1, <4>3, CountAssumption DEF Read, Group
      <4> QED BY <4>2, <4>3
    <3>9. CASE grp = GroupCnt
      BY <3>1, <3>7, <3>8, <3>9 DEF GroupsInv, Read
    <3>10. CASE grp # GroupCnt
      <4>1. grp' - 1 = grp /\ zspage_parser' = zspage_parser /\ todo' = todo
        BY <3>1, <3>6, <3>10
      <4>2. <<Head(todo'), cls'>> = k
        BY <3>1 DEF k
      <4>3. Len(fullness_list'[<<Head(todo'), cls'>>]) >= grp' - 1
            /\ \A g \in 1..(grp' - 1) : Has(fullness_list'[<<Head(todo'), cls'>>], g)
        BY <3>7, <4>1, <4>2
      <4> QED
        BY <2>1, <3>8, <4>1, <4>3 DEF GroupsInv, Read
    <3> QED BY <3>9, <3>10
  <2> QED BY <2>2, <2>3
<1>12. CASE UNCHANGED vars
  BY <1>0, <1>12 DEF vars, cache, pos, GroupsInv, Read
<1> QED
  BY <1>2, <1>3, <1>4, <1>5, <1>6, <1>7, <1>8, <1>9, <1>10, <1>11, <1>12
     DEF Next, Step

\* IInv is an invariant of the session.
THEOREM CacheInvariant == Spec => []IInv
<1>1. IInv /\ [Next]_vars => IInv'
  BY NextType, NextZrams, NextGroups DEF IInv
<1> QED
  BY InitInv, <1>1, PTL DEF Spec

\* The types of the caches and of the loop positions of the printers.
THEOREM TypeCorrect == Spec => []TypeOK
<1>1. IInv => TypeOK
  BY DEF IInv
<1> QED
  BY CacheInvariant, <1>1, PTL

\* However zram commands, swap reads, failures and interrupts alternate, no
\* zram is cached twice.
THEOREM CacheHasNoDuplicates == Spec => []NoDuplicateZram
<1>1. IInv => NoDuplicateZram
  BY DEF IInv, ZramsInv, NoDuplicateZram, Distinct
<1> QED
  BY CacheInvariant, <1>1, PTL

\* The printers never index a fullness_list past its end, and a marked class
\* holds every group.
THEOREM MarkedClassesComplete == Spec => []FlagMeansAllGroups
<1>1. IInv => FlagMeansAllGroups
  BY DEF IInv, GroupsInv, FlagMeansAllGroups, Read, Has, Group
<1> QED
  BY CacheInvariant, <1>1, PTL

-----------------------------------------------------------------------------
(* What the commands print in a session without ^C.                          *)

\* The class a running command is at, and whether all its lists can be read.
Cur == <<Head(todo), cls>>
Clean(k) == \A g \in Group : <<k, g>> \notin corrupt

UpTo(n) == [g \in 1..n |-> g]

\* A marked class holds its groups once and in order: a class whose parsing was
\* aborted has a corrupt list and is never marked, so no group is read twice.
ReadInv ==
  /\ \A k \in zspage_parser : fullness_list[k] = UpTo(GroupCnt)
  /\ \A k \in Class \ zspage_parser :
       Clean(k) /\ ~(pc = "parser_zpage" /\ k = Cur) => fullness_list[k] = <<>>
  /\ pc = "parser_zpage" =>
       /\ Cur \in Class \ zspage_parser
       /\ \A g \in 1..(grp - 1) : <<Cur, g>> \notin corrupt
       /\ Clean(Cur) => fullness_list[Cur] = UpTo(grp - 1)

\* Steps outside parser_zpage leave the groups alone; an aborted parse leaves a class
\* that is not clean.
LEMMA ReadKept ==
  ASSUME ReadInv, UNCHANGED <<fullness_list, zspage_parser, corrupt>>, pc' # "parser_zpage",
         pc = "parser_zpage" => ~Clean(Cur)
  PROVE  ReadInv'
<1>1. \A k \in zspage_parser' : fullness_list'[k] = UpTo(GroupCnt)
  BY DEF ReadInv
<1>2. ASSUME NEW k \in Class \ zspage_parser, Clean(k) PROVE fullness_list[k] = <<>>
  BY <1>2 DEF ReadInv
<1>3. \A k \in Class \ zspage_parser' : Clean(k)' => fullness_list'[k] = <<>>
  BY <1>2 DEF Clean
<1> QED
  BY <1>1, <1>3 DEF ReadInv

\* Every step without ^C keeps what the classes hold.
LEMMA NextRead == ASSUME IInv, ~interrupts, ReadInv, [Next]_vars PROVE ReadInv'
<1>0. TypeOK /\ GroupsInv
  BY DEF IInv
<1>1. ASSUME NEW o \in Op, CmdMain(o) PROVE ReadInv'
  BY <1>1, ReadKept DEF CmdMain, cache, dump
<1>2. ASSUME NEW z \in Zrams, ReadZramPage(z) PROVE ReadInv'
  BY <1>2, ReadKept DEF ReadZramPage, dump
<1>3. CASE Interrupt
  BY <1>3 DEF Interrupt
<1>4. CASE ParserZrams
  BY <1>4, ReadKept DEF ParserZrams, dump
<1>5. CASE PrintZrams
  BY <1>5, ReadKept DEF PrintZrams, Finish, Die, cache, dump
<1>6. CASE PrintMemPool
  BY <1>6, ReadKept DEF PrintMemPool, Finish, Die, cache, dump
<1>7. CASE PrintZspages
  BY <1>7, ReadKept DEF PrintZspages, Finish, Visit, cache, dump
<1>8. CASE PrintObjs
  BY <1>8, ReadKept DEF PrintObjs, Visit, cache, dump
<1>9. CASE VisitClass
  <2>1. UNCHANGED <<fullness_list, zspage_parser, corrupt>> /\ pc = "classes"
    BY <1>9 DEF VisitClass, cache, dump
  <2>2. CASE pc' # "parser_zpage"
    BY <2>1, <2>2, ReadKept
  <2>3. CASE pc' = "parser_zpage"
    <3>1. todo # <<>> /\ Cur \notin zspage_parser /\ UNCHANGED <<todo, cls>> /\ grp' = 1
      BY <1>9, <2>3 DEF VisitClass, Finish, Die, NextClass, Cur
    <3>2. Cur \in Class /\ Cur' = Cur
      BY <1>0, <3>1, SeqFacts DEF TypeOK, Class, Cur
    <3>3. UpTo(grp' - 1) = <<>> /\ 1..(grp' - 1) = {}
      BY <3>1 DEF UpTo
    <3>4. \A k \in Class \ zspage_parser : Clean(k) => fullness_list[k] = <<>>
      BY <2>1 DEF ReadInv
    <3>5. \A k : Clean(k)' <=> Clean(k)
      BY <2>1 DEF Clean
    <3> QED
      BY <2>1, <3>1, <3>2, <3>3, <3>4, <3>5 DEF ReadInv
  <2> QED BY <2>2, <2>3
<1>10. CASE ParserZpage
  <2> DEFINE k == Cur
  <2>1. /\ k \in Class \ zspage_parser
        /\ \A g \in 1..(grp - 1) : <<k, g>> \notin corrupt
        /\ Clean(k) => fullness_list[k] = UpTo(grp - 1)
        /\ corrupt' = corrupt
    BY <1>10 DEF ParserZpage, ReadInv, dump
  <2>2. CASE <<k, grp>> \in corrupt
    <3>1. ~Clean(k)
      BY <1>0, <2>2 DEF Clean, TypeOK
    <3>2. UNCHANGED <<fullness_list, zspage_parser>> /\ pc' # "parser_zpage"
      BY <1>10, <2>2 DEF ParserZpage, Finish, Cur
    <3> QED BY <2>1, <3>1, <3>2, ReadKept
  <2>3. CASE <<k, grp>> \notin corrupt
    <3>1. /\ fullness_list' = [fullness_list EXCEPT ![k] = Append(@, grp)]
          /\ Cur' = k
          /\ grp = GroupCnt => pc' = "classes" /\ zspage_parser' = zspage_parser \cup {k}
          /\ grp # GroupCnt => pc' = "parser_zpage" /\ grp' = grp + 1 /\ UNCHANGED zspage_parser
      BY <1>10, <2>3 DEF ParserZpage, Cur
    <3>2. /\ fullness_list \in [Class -> Seq(Group)] /\ zspage_parser \subseteq Class
          /\ grp \in 1..GroupCnt /\ GroupCnt \in Nat
      BY <1>0, CountAssumption DEF TypeOK, Group
    <3>3. \A j : Clean(j)' <=> Clean(j)
      BY <2>1 DEF Clean
    <3> HIDE DEF k
    <3>4. /\ fullness_list'[k] = Append(fullness_list[k], grp)
          /\ \A j \in Class : j # k => fullness_list'[j] = fullness_list[j]
      BY <2>1, <3>1, <3>2
    <3>5. Append(UpTo(grp - 1), grp) = UpTo(grp)
      BY <3>2 DEF UpTo
    <3>6. Clean(k) => fullness_list'[k] = UpTo(grp)
      BY <2>1, <3>4, <3>5
    <3>7. \A j \in zspage_parser : fullness_list'[j] = UpTo(GroupCnt)
      BY <2>1, <3>2, <3>4 DEF ReadInv
    <3>8. \A j \in Class \ zspage_parser : Clean(j) /\ j # k => fullness_list'[j] = <<>>
      BY <3>4 DEF ReadInv, k
    <3>9. ASSUME NEW g \in 1..grp PROVE <<k, g>> \notin corrupt
      <4>1. g = grp \/ g \in 1..(grp - 1)
        BY <3>2, <3>9
      <4> QED BY <2>1, <2>3, <4>1
    <3>10. CASE grp = GroupCnt
      <4>1. Clean(k)
        BY <3>9, <3>10 DEF Clean, Group
      <4> QED
        BY <3>1, <3>3, <3>6, <3>7, <3>8, <3>10, <4>1 DEF ReadInv
    <3>11. CASE grp # GroupCnt
      <4>1. grp' - 1 = grp
        BY <3>1, <3>2, <3>11
      <4> QED
        BY <2>1, <3>1, <3>3, <3>6, <3>7, <3>8, <3>9, <3>11, <4>1, Zenon DEF ReadInv
    <3> QED BY <3>10, <3>11
  <2> QED BY <2>2, <2>3
<1>11. CASE UNCHANGED vars
  BY <1>11 DEF vars, dump, cache, pos, ReadInv, Clean, Cur
<1> QED
  BY <1>1, <1>2, <1>3, <1>4, <1>5, <1>6, <1>7, <1>8, <1>9, <1>10, <1>11
     DEF Next, Step

\* The first c classes of z, group by group.
Listing(z, c) ==
  [n \in 1..(c * GroupCnt) |-> <<<<z, ((n - 1) \div GroupCnt) + 1>>, ((n - 1) % GroupCnt) + 1>>]

\* The class and the group at a place of the listing.
LEMMA PlaceInListing ==
  ASSUME NEW G \in Nat \ {0}, NEW c \in Nat, NEW g \in 1..G
  PROVE  (c * G + g - 1) \div G = c /\ (c * G + g - 1) % G = g - 1
<1>1. ASSUME NEW n \in Nat, NEW q \in Nat, NEW r \in 0..(G - 1),
             n = G * c + (g - 1), n = G * q + r
      PROVE  q = c /\ r = g - 1
  <2>1. G * (q - c) = G * q - G * c /\ G * q \in Int /\ G * c \in Int /\ G * (q - c) \in Int
    OBVIOUS
  <2>2. G * (q - c) = (g - 1) - r
    BY <1>1, <2>1
  <2>3. ASSUME NEW d \in Int, G * d < G, G * d > -G PROVE d = 0
    <3>1. CASE d >= 1
      <4>1. G * d >= G
        BY <3>1
      <4> QED BY <2>3, <4>1
    <3>2. CASE d <= -1
      <4>1. G * d <= -G
        BY <3>2
      <4> QED BY <2>3, <4>1
    <3> QED BY <3>1, <3>2
  <2>4. G * (q - c) < G /\ G * (q - c) > -G
    BY <2>1, <2>2
  <2>5. q = c
    <3>1. q - c = 0
      BY <2>3, <2>4
    <3> QED BY <3>1
  <2>6. G * (q - c) = 0
    BY <2>5
  <2> QED BY <2>2, <2>5, <2>6
<1>2. c * G \in Nat /\ c * G = G * c
  OBVIOUS
<1>3. c * G + g - 1 \in Nat /\ c * G + g - 1 = G * c + (g - 1)
  BY <1>2
<1>4. ASSUME NEW n \in Nat
      PROVE  n \div G \in Nat /\ n % G \in 0..(G - 1) /\ n = G * (n \div G) + (n % G)
  OBVIOUS
<1> QED BY <1>1, <1>3, <1>4

\* One more class is listed behind the others.
LEMMA ListingGrows ==
  ASSUME NEW z, NEW c \in Nat
  PROVE  Listing(z, c) \o [g \in Group |-> <<<<z, c + 1>>, g>>] = Listing(z, c + 1)
<1>0. SUFFICES ASSUME NEW G \in Nat \ {0}, G = GroupCnt, NEW m \in Nat, m = c * G,
                    NEW a, a = Listing(z, c), NEW b, b = [g \in Group |-> <<<<z, c + 1>>, g>>]
             PROVE  a \o b = Listing(z, c + 1)
  <2>1. GroupCnt \in Nat \ {0} /\ c * GroupCnt \in Nat
    BY CountAssumption
  <2> QED BY <2>1, Zenon
<1> DEFINE S == ({z} \X Nat) \X Nat
           E(i) == <<<<z, ((i - 1) \div G) + 1>>, ((i - 1) % G) + 1>>
<1>1. \A i \in Nat \ {0} : E(i) \in S
  <2>1. ASSUME NEW i \in Nat \ {0} PROVE (i - 1) \div G \in Nat /\ (i - 1) % G \in Nat
    <3>1. i - 1 \in Nat
      OBVIOUS
    <3> QED BY <3>1
  <2> QED BY <2>1
<1>2. a = [i \in 1..m |-> E(i)]
  BY <1>0 DEF Listing
<1>3. b = [g \in 1..G |-> <<<<z, c + 1>>, g>>]
  BY <1>0 DEF Group
<1>4. Listing(z, c + 1) = [i \in 1..(m + G) |-> E(i)]
  <2>1. (c + 1) * G = m + G
    BY <1>0
  <2> QED BY <1>0, <2>1 DEF Listing
<1>5. a \in [1..m -> S] /\ b \in [1..G -> S]
  <2>1. \A g \in 1..G : <<<<z, c + 1>>, g>> \in S
    OBVIOUS
  <2>2. b \in [1..G -> S]
    BY <1>3, <2>1
  <2> HIDE DEF S, E
  <2>3. a \in [1..m -> S]
    BY <1>1, <1>2
  <2> QED BY <2>2, <2>3
<1>6. /\ a \o b \in [1..(m + G) -> S]
      /\ \A i \in 1..m : (a \o b)[i] = a[i]
      /\ \A i \in 1..G : (a \o b)[m + i] = b[i]
  <2> HIDE DEF S
  <2>1. a \in Seq(S) /\ Len(a) = m /\ b \in Seq(S) /\ Len(b) = G
    BY <1>5
  <2>2. a \o b \in Seq(S) /\ Len(a \o b) = m + G
    BY <2>1
  <2>3. a \o b \in [1..Len(a \o b) -> S]
    BY <2>2, LenProperties, Zenon
  <2>4. a \o b \in [1..(m + G) -> S]
    BY <2>2, <2>3
  <2> QED BY <2>1, <2>4
<1>7. ASSUME NEW i \in 1..(m + G) PROVE (a \o b)[i] = E(i)
  <2>1. CASE i <= m
    BY <1>2, <1>6, <2>1
  <2>2. CASE i > m
    <3>1. PICK g \in 1..G : i = m + g
      <4>1. i - m \in 1..G /\ i = m + (i - m)
        BY <2>2
      <4> QED BY <4>1
    <3>2. (a \o b)[i] = <<<<z, c + 1>>, g>>
      BY <1>3, <1>6, <3>1
    <3>3. (i - 1) \div G = c /\ (i - 1) % G = g - 1 /\ (g - 1) + 1 = g
      BY <1>0, <3>1, PlaceInListing
    <3> QED BY <3>2, <3>3
  <2>3. i <= m \/ i > m
    OBVIOUS
  <2> QED BY <2>1, <2>2, <2>3, Zenon
<1> HIDE DEF S, E
<1> QED BY <1>4, <1>6, <1>7, Zenon

\* The class zram -o is asked for, or the class of the zspage it is asked for.
Target == IF op.arg \in Class THEN op.arg ELSE op.arg[1]

\* What the loops over the classes have printed, and what -o still has ahead of it:
\* a cached zram that holds the address is to come, and its class is not passed yet.
LoopInv ==
  /\ pc \in {"idle", "parser_zrams", "switch"} => cls = 1 /\ out = <<>>
  /\ pc # "idle" => shown.status = "none"
  /\ pc \in {"classes", "parser_zpage"} =>
       \/ /\ op.letter = "z"
          /\ \/ todo = <<op.arg>> /\ out = Listing(op.arg, cls - 1)
             \/ todo = <<>> /\ out = AllZspages(op.arg)
       \/ /\ op.letter = "o"
          /\ InList(Target[1]) =>
               \E i \in 1..Len(todo) : todo[i] = Target[1] /\ (i = 1 => cls <= Target[2])

\* The argument an option takes.
LEMMA ArgType ==
  ASSUME TypeOK
  PROVE  /\ op.letter = "z" => op.arg \in Zrams
         /\ op.letter = "o" =>
              /\ op.arg \in Class \cup Zspage
              /\ Target \in Class /\ Target[1] \in Zrams /\ Target[2] \in 1..ClassCnt
              /\ op.arg \notin Class => op.arg = <<Target, op.arg[2]>> /\ op.arg[2] \in Group
              /\ op.arg \in Class => Target = op.arg
<1>1. op \in Op
  BY DEF TypeOK
<1>2. op.letter = "z" => op.arg \in Zrams
  BY <1>1 DEF Op
<1>3. op.letter = "o" => op.arg \in Class \cup Zspage
  BY <1>1 DEF Op
<1>4. ASSUME op.arg \in Class \cup Zspage
      PROVE  /\ Target \in Class
             /\ op.arg \notin Class => op.arg = <<Target, op.arg[2]>> /\ op.arg[2] \in Group
  BY <1>4 DEF Target, Zspage
<1>5. Target \in Class => Target[1] \in Zrams /\ Target[2] \in 1..ClassCnt
  BY DEF Class
<1> QED
  BY <1>2, <1>3, <1>4, <1>5 DEF Target

\* A marked class is printed group by group.
LEMMA GroupsExact ==
  ASSUME ReadInv, NEW k \in zspage_parser
  PROVE  GroupsOf(k) = [g \in Group |-> <<k, g>>]
<1>1. fullness_list[k] = UpTo(GroupCnt)
  BY DEF ReadInv
<1>2. \A g \in Group : fullness_list[k][g] = g
  BY <1>1 DEF UpTo, Group
<1> QED BY <1>2 DEF GroupsOf

\* -o stops at the class of the address it is asked for, and at no other.
LEMMA MatchExact ==
  ASSUME TypeOK, ReadInv, op.letter = "o", NEW k \in zspage_parser
  PROVE  /\ k # Target => MatchIn(k) = <<>>
         /\ k = Target => /\ MatchIn(k) # <<>>
                          /\ MatchIn(k) = IF op.arg \in Class THEN [g \in Group |-> <<op.arg, g>>]
                                          ELSE <<op.arg>>
<1>1. k \in Class
  BY DEF TypeOK
<1>2. GroupsOf(k) = [g \in Group |-> <<k, g>>]
  BY GroupsExact
<1>3. 1 \in Group
  BY CountAssumption DEF Group
<1>4. CASE op.arg \in Class
  <2>1. Target = op.arg
    BY <1>4 DEF Target
  <2>2. \A g \in Group : op.arg # <<k, g>>
    BY <1>1, <1>4, AddressAssumption DEF Zspage
  <2>3. GroupsOf(k) # <<>>
    BY <1>2, <1>3
  <2> QED BY <1>2, <1>4, <2>1, <2>2, <2>3 DEF MatchIn
<1>5. CASE op.arg \notin Class
  <2>1. op.arg = <<Target, op.arg[2]>> /\ op.arg[2] \in Group
    BY <1>5, ArgType
  <2>2. op.arg # k
    BY <1>1, <1>5
  <2>3. (\E g \in Group : op.arg = GroupsOf(k)[g]) <=> k = Target
    BY <1>2, <2>1
  <2> QED BY <1>5, <2>2, <2>3 DEF MatchIn
<1> QED BY <1>4, <1>5

\* A class that has been printed, or that -o has searched in vain, is behind the loop.
LEMMA NextClassLoop ==
  ASSUME IInv, ReadInv, LoopInv, pc = "classes", todo # <<>>, Cur \in zspage_parser,
         NextClass, UNCHANGED zram_list,
         op.letter = "o" => MatchIn(Cur) = <<>>,
         op.letter # "o" => out' = out \o GroupsOf(Cur)
  PROVE  LoopInv'
<1>0. TypeOK /\ cls \in 1..ClassCnt /\ ClassCnt \in Nat \ {0} /\ todo \in Seq(Zrams)
  BY CountAssumption DEF IInv, TypeOK
<1>1. /\ pc' = "classes" /\ op' = op /\ shown' = shown /\ shown.status = "none"
      /\ cls = ClassCnt => todo' = Tail(todo) /\ cls' = 1
      /\ cls # ClassCnt => todo' = todo /\ cls' = cls + 1
  BY DEF NextClass, LoopInv
<1>2. CASE op.letter = "z"
  <2>1. todo = <<op.arg>> /\ out = Listing(op.arg, cls - 1)
    BY <1>2 DEF LoopInv
  <2>2. Cur = <<op.arg, cls>>
    BY <2>1 DEF Cur
  <2>3. out' = Listing(op.arg, cls - 1) \o [g \in Group |-> <<<<op.arg, cls>>, g>>]
    BY <1>2, <2>1, <2>2, GroupsExact, Zenon
  <2>4. cls - 1 \in Nat /\ (cls - 1) + 1 = cls
    BY <1>0
  <2>5. out' = Listing(op.arg, cls)
    BY <2>3, <2>4, ListingGrows, Zenon
  <2>6. CASE cls = ClassCnt
    <3>1. todo' = <<>>
      BY <1>1, <2>1, <2>6
    <3>2. out' = AllZspages(op.arg)
      BY <2>5, <2>6 DEF Listing, AllZspages
    <3> QED BY <1>1, <1>2, <3>1, <3>2 DEF LoopInv, AllZspages
  <2>7. CASE cls # ClassCnt
    <3>1. todo' = <<op.arg>> /\ cls' - 1 = cls
      BY <1>0, <1>1, <2>1, <2>7
    <3> QED BY <1>1, <1>2, <2>5, <3>1 DEF LoopInv, Listing
  <2> QED BY <2>6, <2>7
<1>3. CASE op.letter = "o"
  <2> DEFINE T == Target
  <2>1. T \in Class /\ T[1] \in Zrams /\ T[2] \in 1..ClassCnt /\ T = <<T[1], T[2]>>
    BY <1>0, <1>3, ArgType DEF Class
  <2>2. Cur # T
    BY <1>0, <1>3, MatchExact
  <2>3. Target' = T /\ (InList(T[1])' <=> InList(T[1]))
    BY <1>1 DEF Target, InList
  <2> HIDE DEF T
  <2>4. ASSUME InList(T[1])
        PROVE  \E i \in 1..Len(todo') : todo'[i] = T[1] /\ (i = 1 => cls' <= T[2])
    <3>1. PICK i \in 1..Len(todo) : todo[i] = T[1] /\ (i = 1 => cls <= T[2])
      BY <1>3, <2>4 DEF LoopInv, T
    <3>2. CASE i = 1
      <4>1. Head(todo) = T[1]
        BY <1>0, <3>1, <3>2
      <4>2. cls # T[2]
        BY <2>1, <2>2, <4>1 DEF Cur
      <4>3. cls < T[2] /\ cls # ClassCnt
        BY <1>0, <2>1, <3>1, <3>2, <4>2
      <4> QED BY <1>0, <1>1, <2>1, <3>1, <3>2, <4>3
    <3>3. CASE i # 1
      <4>1. CASE cls = ClassCnt
        <5>1. /\ todo' = Tail(todo) /\ cls' = 1 /\ i - 1 \in 1..Len(Tail(todo))
              /\ Tail(todo)[i - 1] = todo[i]
          BY <1>0, <1>1, <3>1, <3>3, <4>1
        <5> QED BY <2>1, <3>1, <5>1
      <4>2. CASE cls # ClassCnt
        BY <1>1, <3>1, <3>3, <4>2
      <4> QED BY <4>1, <4>2
    <3> QED BY <3>2, <3>3
  <2> QED BY <1>1, <1>3, <2>3, <2>4 DEF LoopInv, T
<1> QED BY <1>2, <1>3 DEF LoopInv

\* Every step without ^C keeps the output on its way.
LEMMA NextLoop ==
  ASSUME IInv, ~interrupts, ReadInv, LoopInv, [Next]_vars
  PROVE  LoopInv'
<1>0. TypeOK
  BY DEF IInv
<1>1. \A st, r : Finish(st, r) => LoopInv'
  BY DEF Finish, LoopInv
<1>2. ASSUME Die, pc # "idle" PROVE LoopInv'
  BY <1>2 DEF Die, LoopInv
<1>3. ASSUME NEW o \in Op, CmdMain(o) PROVE LoopInv'
  BY <1>3 DEF CmdMain, LoopInv
<1>4. ASSUME NEW z \in Zrams, ReadZramPage(z) PROVE LoopInv'
  BY <1>4 DEF ReadZramPage, LoopInv, pos
<1>5. CASE Interrupt
  BY <1>5 DEF Interrupt
<1>6. CASE ParserZrams
  <2>1. pc = "parser_zrams" /\ pc' \in {"parser_zrams", "switch"} /\ UNCHANGED <<cls, out, shown>>
    BY <1>6 DEF ParserZrams
  <2> QED BY <2>1 DEF LoopInv
<1>7. CASE PrintZrams
  BY <1>1, <1>2, <1>7 DEF PrintZrams
<1>8. CASE PrintMemPool
  BY <1>1, <1>2, <1>8 DEF PrintMemPool
<1>9. CASE PrintZspages
  <2>1. CASE InList(op.arg)
    <3>1. /\ pc = "switch" /\ pc' = "classes" /\ todo' = <<op.arg>> /\ op.letter = "z"
          /\ UNCHANGED <<op, cls, out, shown>>
      BY <1>9, <2>1 DEF PrintZspages, Visit
    <3>2. cls = 1 /\ out = <<>> /\ shown.status = "none"
      BY <3>1 DEF LoopInv
    <3>3. Listing(op.arg, 0) = <<>>
      BY CountAssumption DEF Listing
    <3> QED BY <3>1, <3>2, <3>3 DEF LoopInv, Listing
  <2>2. CASE ~InList(op.arg)
    BY <1>1, <1>9, <2>2 DEF PrintZspages
  <2> QED BY <2>1, <2>2
<1>10. CASE PrintObjs
  <2>1. /\ pc = "switch" /\ pc' = "classes" /\ todo' = zram_list /\ op.letter = "o"
        /\ UNCHANGED <<op, cls, out, shown, zram_list>>
    BY <1>10 DEF PrintObjs, Visit, cache
  <2>2. cls = 1 /\ shown.status = "none"
    BY <2>1 DEF LoopInv
  <2>3. Target[2] \in 1..ClassCnt /\ Target' = Target
    BY <1>0, <2>1, ArgType DEF Target
  <2>4. ASSUME InList(Target[1])'
        PROVE  \E i \in 1..Len(todo') : todo'[i] = Target[1] /\ (i = 1 => cls' <= Target[2])
    BY <2>1, <2>2, <2>3, <2>4 DEF InList
  <2> QED BY <2>1, <2>2, <2>3, <2>4 DEF LoopInv
<1>11. CASE VisitClass
  <2>1. pc = "classes" /\ UNCHANGED <<zram_list, zspage_parser>>
    BY <1>11 DEF VisitClass, cache
  <2>2. CASE todo = <<>>
    BY <1>1, <1>11, <2>2 DEF VisitClass
  <2>3. CASE todo # <<>> /\ IsNull(Head(todo), cls)
    BY <1>2, <1>11, <2>1, <2>3 DEF VisitClass
  <2>4. CASE todo # <<>> /\ ~IsNull(Head(todo), cls) /\ Cur \notin zspage_parser
    <3>1. pc' = "parser_zpage" /\ UNCHANGED <<op, todo, cls, out, shown>>
      BY <1>11, <2>4 DEF VisitClass, Cur
    <3>2. Target' = Target /\ (InList(Target[1])' <=> InList(Target[1]))
      BY <2>1, <3>1 DEF Target, InList
    <3> QED BY <2>1, <3>1, <3>2 DEF LoopInv, Listing, AllZspages
  <2>5. CASE todo # <<>> /\ ~IsNull(Head(todo), cls) /\ Cur \in zspage_parser
    <3>1. CASE op.letter = "o" /\ MatchIn(Cur) # <<>>
      BY <1>1, <1>11, <2>5, <3>1 DEF VisitClass, Cur
    <3>2. CASE ~(op.letter = "o" /\ MatchIn(Cur) # <<>>)
      <4>1. NextClass /\ (op.letter # "o" => out' = out \o GroupsOf(Cur))
        BY <1>11, <2>5, <3>2, Zenon DEF VisitClass, Cur
      <4> QED BY <2>1, <2>5, <3>2, <4>1, NextClassLoop
    <3> QED BY <3>1, <3>2
  <2> QED BY <2>2, <2>3, <2>4, <2>5
<1>12. CASE ParserZpage
  <2>1. CASE <<<<Head(todo), cls>>, grp>> \in corrupt
    BY <1>1, <1>12, <2>1 DEF ParserZpage
  <2>2. CASE <<<<Head(todo), cls>>, grp>> \notin corrupt
    <3>1. /\ pc = "parser_zpage" /\ pc' \in {"parser_zpage", "classes"}
          /\ UNCHANGED <<op, todo, cls, out, shown, zram_list>>
      BY <1>12, <2>2 DEF ParserZpage
    <3>2. Target' = Target /\ (InList(Target[1])' <=> InList(Target[1]))
      BY <3>1 DEF Target, InList
    <3> QED BY <3>1, <3>2 DEF LoopInv, Listing, AllZspages
  <2> QED BY <2>1, <2>2
<1>13. CASE UNCHANGED vars
  BY <1>13 DEF vars, cache, pos, LoopInv, Target, InList, Listing, AllZspages
<1> QED
  BY <1>3, <1>4, <1>5, <1>6, <1>7, <1>8, <1>9, <1>10, <1>11, <1>12, <1>13
     DEF Next, Step

\* What a step shows is what was asked for.
LEMMA NextShown ==
  ASSUME IInv, ~interrupts, ReadInv, LoopInv, OutputExact, [Next]_vars
  PROVE  OutputExact'
<1>0. TypeOK
  BY DEF IInv
<1>1. ASSUME shown'.status # "printed" PROVE OutputExact'
  BY <1>1 DEF OutputExact, ListingExact, SearchFinds
<1>2. ASSUME NEW st, NEW r, Finish(st, r) PROVE shown' = [status |-> st, op |-> op, out |-> r]
  BY <1>2 DEF Finish, Result
<1>3. ASSUME pc # "idle", UNCHANGED shown PROVE OutputExact'
  BY <1>1, <1>3 DEF LoopInv
<1>4. ASSUME NEW o \in Op, CmdMain(o) PROVE OutputExact'
  BY <1>1, <1>4 DEF CmdMain
<1>5. ASSUME NEW z \in Zrams, ReadZramPage(z) PROVE OutputExact'
  BY <1>1, <1>5 DEF ReadZramPage, Result
<1>6. CASE Interrupt
  BY <1>6 DEF Interrupt
<1>7. CASE ParserZrams
  BY <1>3, <1>7 DEF ParserZrams
<1>8. ASSUME op.letter \notin {"z", "o"}, pc # "idle", NEW st, NEW r, Finish(st, r) \/ Die
      PROVE  OutputExact'
  <2>1. CASE Die
    BY <1>3, <1>8, <2>1 DEF Die
  <2>2. CASE Finish(st, r)
    <3>1. shown'.op.letter \notin {"z", "o"}
      BY <1>2, <1>8, <2>2
    <3>2. ListingExact'
      BY <3>1 DEF ListingExact
    <3>3. SearchFinds'
      BY <3>1 DEF SearchFinds
    <3> QED BY <3>2, <3>3 DEF OutputExact
  <2> QED BY <1>8, <2>1, <2>2
<1>9. CASE PrintZrams
  BY <1>8, <1>9 DEF PrintZrams
<1>10. CASE PrintMemPool
  BY <1>8, <1>10 DEF PrintMemPool
<1>11. CASE PrintZspages
  <2>1. CASE InList(op.arg)
    BY <1>3, <1>11, <2>1 DEF PrintZspages, Visit
  <2>2. CASE ~InList(op.arg)
    BY <1>1, <1>2, <1>11, <2>2 DEF PrintZspages
  <2> QED BY <2>1, <2>2
<1>12. CASE PrintObjs
  BY <1>3, <1>12 DEF PrintObjs, Visit
<1>13. CASE VisitClass
  <2>1. pc = "classes" /\ UNCHANGED zram_list /\ (op.letter = "z" \/ op.letter = "o")
    BY <1>13 DEF VisitClass, cache, LoopInv
  <2>2. CASE todo = <<>>
    <3>1. shown' = [status |-> "printed", op |-> op, out |-> out]
      BY <1>2, <1>13, <2>2 DEF VisitClass
    <3>2. CASE op.letter = "z"
      <4>1. out = AllZspages(op.arg)
        BY <2>1, <2>2, <3>2 DEF LoopInv
      <4> QED BY <3>1, <3>2, <4>1 DEF OutputExact, ListingExact, SearchFinds, AllZspages
    <3>3. CASE op.letter = "o"
      <4>1. ~InList(Target[1])
        BY <2>1, <2>2, <3>3 DEF LoopInv
      <4>2. shown'.op.arg = op.arg /\ zram_list' = zram_list
        BY <2>1, <3>1
      <4>3. Target[1] = IF shown'.op.arg \in Class THEN shown'.op.arg[1] ELSE shown'.op.arg[1][1]
        BY <4>2 DEF Target
      <4>4. ~(\E i \in 1..Len(zram_list') :
               zram_list'[i] = IF shown'.op.arg \in Class THEN shown'.op.arg[1] ELSE shown'.op.arg[1][1])
        BY <4>1, <4>2, <4>3 DEF InList
      <4>5. ListingExact'
        BY <3>1, <3>3 DEF ListingExact
      <4>6. SearchFinds'
        BY <4>4 DEF SearchFinds, InList
      <4> QED BY <4>5, <4>6 DEF OutputExact
    <3> QED BY <2>1, <3>2, <3>3
  <2>3. CASE todo # <<>> /\ Cur \in zspage_parser /\ op.letter = "o" /\ MatchIn(Cur) # <<>>
                         /\ ~IsNull(Head(todo), cls)
    <3>1. shown' = [status |-> "printed", op |-> op, out |-> MatchIn(Cur)]
      BY <1>2, <1>13, <2>3 DEF VisitClass, Cur
    <3>2. MatchIn(Cur) = IF op.arg \in Class THEN [g \in Group |-> <<op.arg, g>>] ELSE <<op.arg>>
      BY <1>0, <2>3, MatchExact
    <3> QED BY <2>3, <3>1, <3>2 DEF OutputExact, ListingExact, SearchFinds
  <2>4. CASE todo # <<>> /\ ~(Cur \in zspage_parser /\ op.letter = "o" /\ MatchIn(Cur) # <<>>
                              /\ ~IsNull(Head(todo), cls))
    <3>1. UNCHANGED shown
      BY <1>13, <2>4 DEF VisitClass, Cur, Die, NextClass
    <3> QED BY <1>3, <2>1, <3>1
  <2> QED BY <2>2, <2>3, <2>4
<1>14. CASE ParserZpage
  <2>1. CASE <<<<Head(todo), cls>>, grp>> \in corrupt
    BY <1>1, <1>2, <1>14, <2>1 DEF ParserZpage
  <2>2. CASE <<<<Head(todo), cls>>, grp>> \notin corrupt
    BY <1>3, <1>14, <2>2 DEF ParserZpage
  <2> QED BY <2>1, <2>2
<1>15. CASE UNCHANGED vars
  BY <1>15 DEF vars, dump, cache, OutputExact, ListingExact, SearchFinds, InList, AllZspages
<1> QED
  BY <1>4, <1>5, <1>6, <1>7, <1>9, <1>10, <1>11, <1>12, <1>13, <1>14, <1>15
     DEF Next, Step

\* In a session without ^C, for every number of zrams, classes and groups and whatever
\* lists are corrupt, zram -z prints every zspage once and zram -o finds what it is asked
\* for, however commands, swap reads and aborted parses came before.
THEOREM OutputIsExact == Spec => []OutputExact
<1> DEFINE J == ~interrupts => ReadInv /\ LoopInv
<1>1. Init => J /\ OutputExact
  <2> SUFFICES ASSUME Init PROVE ReadInv /\ LoopInv /\ OutputExact
    OBVIOUS
  <2>1. ReadInv
    BY DEF Init, ReadInv
  <2>2. pc = "idle" /\ cls = 1 /\ out = <<>> /\ shown.status = "none"
    BY DEF Init, Result
  <2>3. LoopInv
    BY <2>2 DEF LoopInv
  <2>4. ListingExact /\ SearchFinds
    BY <2>2 DEF ListingExact, SearchFinds
  <2> QED BY <2>1, <2>3, <2>4 DEF OutputExact
<1>2. IInv /\ (J /\ OutputExact) /\ [Next]_vars => (J /\ OutputExact)'
  <2> SUFFICES ASSUME IInv, J, OutputExact, [Next]_vars PROVE J' /\ OutputExact'
    OBVIOUS
  <2>1. interrupts' = interrupts
    BY Zenon DEF Next, Step, CmdMain, ReadZramPage, Interrupt, ParserZrams, PrintZrams, PrintMemPool,
           PrintZspages, PrintObjs, VisitClass, ParserZpage, vars, dump
  <2>2. CASE interrupts
    BY <2>1, <2>2 DEF OutputExact, ListingExact, SearchFinds
  <2>3. CASE ~interrupts
    BY <2>1, <2>3, NextRead, NextLoop, NextShown
  <2> QED BY <2>2, <2>3
<1> QED
  BY <1>1, <1>2, CacheInvariant, PTL DEF Spec

=============================================================================
