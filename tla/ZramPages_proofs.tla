-------------------------- MODULE ZramPages_proofs --------------------------
(***************************************************************************)
(* The pages of zram, for every value of the constants: the listing of a   *)
(* zspage agrees with the reader of its objects, for every page size,      *)
(* object size and length of the zspage; and lzo1x_decompress_safe stays   *)
(* inside the object and the page on every input, intact or damaged, for   *)
(* every block and capacity.                                               *)
(***************************************************************************)
EXTENDS ZspageWalk, Sequences, WellFoundedInduction, TLAPS

\* A multiple below another one is at least one step below it.
LEMMA LessMultiple ==
  ASSUME NEW s \in Nat \ {0}, NEW a \in Nat, NEW b \in Nat
  PROVE  /\ a < b => s * a + s <= s * b
         /\ s * a < s * b => a < b
<1>1. ASSUME NEW c \in Nat, NEW d \in Nat, c < d PROVE s * c + s <= s * d
  <2>1. PICK e \in Nat : d = (c + 1) + e
    <3>1. d - (c + 1) \in Nat /\ d = (c + 1) + (d - (c + 1))
      BY <1>1
    <3> QED BY <3>1
  <2>2. s * d = s * c + s + s * e
    BY <2>1
  <2>3. s * e >= 0 /\ s * c \in Int /\ s * e \in Int
    OBVIOUS
  <2> QED BY <2>2, <2>3
<1>2. s * a \in Int /\ s * b \in Int
  OBVIOUS
<1>3. ASSUME s * a < s * b PROVE a < b
  <2>1. CASE a = b
    BY <1>2, <1>3, <2>1
  <2>2. CASE b < a
    BY <1>1, <1>2, <1>3, <2>2
  <2> QED BY <2>1, <2>2
<1> QED BY <1>1, <1>3

\* Two multiples of s that are less than s apart are the same multiple.
LEMMA SameMultiple ==
  ASSUME NEW s \in Nat \ {0}, NEW a \in Nat, NEW b \in Nat, NEW w \in Int,
         s * a >= w, s * a < w + s, s * b >= w, s * b < w + s
  PROVE  a = b
<1>1. s * a \in Int /\ s * b \in Int
  OBVIOUS
<1>2. ~(a < b) /\ ~(b < a)
  BY <1>1, LessMultiple
<1> QED BY <1>2

\* Where the walk is: between pages the next object begins less than an object
\* behind the start of the next page; inside a page it begins at obj_start.
WalkInv ==
  /\ pc = "parser_pages" /\ ~Huge =>
       /\ size * obj_index >= page * PageSize
       /\ size * obj_index < page * PageSize + size
  /\ pc = "parser_obj" => page * PageSize + obj_start = size * obj_index
  /\ Huge /\ page = 0 => obj_index = 0
  /\ pc = "huge" => Huge /\ page = 0 /\ obj_start = 0
  /\ pc = "parser_obj" => ~Huge

\* page.units is what zsmalloc wrote, throughout the walk.
UnitsInv == \A p \in DOMAIN units : UnitsOf(size, p, units[p])

\* The inductive invariant.
IInv == TypeOK /\ UnitsInv /\ WalkInv /\ ListedWhereRead

\* parser_zpage starts at the first page with obj_index 0.
LEMMA InitInv == Init => IInv
<1> SUFFICES ASSUME Init PROVE IInv
  OBVIOUS
<1>1. TypeOK
  BY SizesAssumption DEF Init, TypeOK
<1>2. UnitsInv
  BY DEF Init, UnitsInv
<1>3. size * 0 = 0 /\ 0 * PageSize = 0 /\ size \in Nat \ {0} /\ PageSize \in Nat
  BY SizesAssumption DEF Init
<1>4. WalkInv
  BY <1>3 DEF Init, WalkInv
<1>5. ListedWhereRead
  BY DEF Init, ListedWhereRead
<1> QED
  BY <1>1, <1>2, <1>4, <1>5 DEF IInv

\* A step of the walk keeps the types.
LEMMA NextType == ASSUME TypeOK, WalkInv, [Next]_vars PROVE TypeOK'
<1> USE SizesAssumption
<1>1. CASE ParserPages
  <2>1. CASE page = chain
    BY <1>1, <2>1 DEF ParserPages, TypeOK, class
  <2>2. CASE page # chain
    <3>1. units[page] \in 0..(PageSize - 1) /\ page < chain
      BY <2>2 DEF TypeOK
    <3>2. obj_start' \in 0..(PageSize - 1) /\ pc' \in {"parser_obj", "huge"}
      BY <1>1, <2>2, <3>1 DEF ParserPages
    <3> QED
      BY <1>1, <3>1, <3>2 DEF ParserPages, TypeOK, class
  <2> QED BY <2>1, <2>2
<1>2. CASE WholeObj
  <2>1. Zobj(obj_start + size) \in
          [id: Nat, page: 0..(chain - 1), start: 0..(PageSize - 1), end: 0..PageSize]
    BY <1>2 DEF WholeObj, TypeOK, Zobj
  <2>2. objs' \subseteq [id: Nat, page: 0..(chain - 1), start: 0..(PageSize - 1), end: 0..PageSize]
    BY <1>2, <2>1 DEF WholeObj, TypeOK
  <2>3. /\ obj_index' \in Nat /\ obj_start' \in 0..(PageSize - 1)
        /\ UNCHANGED <<size, pages_per_zspage, units, chain, pc, page>>
    BY <1>2 DEF WholeObj, TypeOK, class
  <2> QED
    BY <2>2, <2>3 DEF TypeOK
<1>3. CASE LastObj
  <2>1. Zobj(PageSize) \in
          [id: Nat, page: 0..(chain - 1), start: 0..(PageSize - 1), end: 0..PageSize]
    BY <1>3 DEF LastObj, TypeOK, Zobj
  <2>2. objs' \subseteq [id: Nat, page: 0..(chain - 1), start: 0..(PageSize - 1), end: 0..PageSize]
    BY <1>3, <2>1 DEF LastObj, TypeOK
  <2>3. /\ obj_index' \in Nat /\ pc' = "parser_pages" /\ page' \in 0..chain
        /\ UNCHANGED <<size, pages_per_zspage, units, chain, obj_start>>
    BY <1>3 DEF LastObj, TypeOK, class
  <2> QED
    BY <2>2, <2>3 DEF TypeOK
<1>4. CASE UNCHANGED vars
  BY <1>4 DEF vars, class, TypeOK
<1> QED
  BY <1>1, <1>2, <1>3, <1>4 DEF Next

\* A step keeps the position of the walk, and lists objects where they are.
LEMMA NextWalk == ASSUME IInv, [Next]_vars PROVE WalkInv' /\ ListedWhereRead'
<1> USE SizesAssumption DEF IInv
<1>0. /\ PageSize \in Nat \ {0} /\ size \in Nat \ {0} /\ size <= PageSize
      /\ page \in Nat /\ obj_start \in Nat /\ obj_start < PageSize /\ obj_index \in Nat
      /\ size * obj_index \in Nat /\ page * PageSize \in Nat
  BY DEF TypeOK
<1>1. size * (obj_index + 1) = size * obj_index + size
      /\ (page + 1) * PageSize = page * PageSize + PageSize
  BY <1>0
<1>2. ASSUME UNCHANGED class PROVE (Huge' <=> Huge) /\ size' = size
  BY <1>2 DEF Huge, objs_per_zspage, class
<1>3. CASE ParserPages
  <2>0. UNCHANGED <<page, obj_index, objs, size>> /\ (Huge' <=> Huge)
    BY <1>2, <1>3 DEF ParserPages
  <2>1. ListedWhereRead'
    BY <2>0 DEF ListedWhereRead
  <2>2. CASE page = chain
    BY <1>3, <2>0, <2>1, <2>2 DEF ParserPages, WalkInv
  <2>3. CASE page # chain /\ Huge
    <3>1. page = 0
      BY <1>3, <2>3 DEF TypeOK, Huge
    <3> QED
      BY <1>3, <2>0, <2>1, <2>3, <3>1 DEF ParserPages, WalkInv
  <2>4. CASE page # chain /\ ~Huge
    <3>1. page \in DOMAIN units
      BY <1>3, <2>4 DEF TypeOK, ParserPages
    <3>2. PICK m \in 0..(page * PageSize + size) : page * PageSize + units[page] = size * m
      BY <3>1 DEF UnitsInv, UnitsOf
    <3>3. units[page] \in 0..(size - 1) /\ m \in Nat
      BY <3>1, <1>0 DEF TypeOK
    <3>4. size * m >= page * PageSize /\ size * m < page * PageSize + size
      BY <3>2, <3>3, <1>0
    <3>5. m = obj_index
      BY <1>0, <1>3, <2>4, <3>3, <3>4, SameMultiple DEF ParserPages, WalkInv
    <3>6. obj_start' = units[page] /\ pc' = "parser_obj"
      BY <1>3, <2>4 DEF ParserPages
    <3>7. page * PageSize + obj_start' = size * obj_index
      BY <3>2, <3>5, <3>6
    <3> QED
      BY <2>0, <2>1, <2>4, <3>6, <3>7 DEF WalkInv
  <2> QED BY <2>1, <2>2, <2>3, <2>4
<1>4. CASE WholeObj
  <2>0. /\ UNCHANGED <<pc, page, size>> /\ (Huge' <=> Huge) /\ pc = "parser_obj"
        /\ obj_index' = obj_index + 1 /\ obj_start' = obj_start + size
        /\ objs' = objs \cup {Zobj(obj_start + size)}
    BY <1>2, <1>4 DEF WholeObj
  <2>1. page * PageSize + obj_start = size * obj_index /\ ~Huge
    BY <2>0 DEF WalkInv
  <2>2. page * PageSize + obj_start' = size * obj_index'
    BY <1>0, <1>1, <2>0, <2>1
  <2>3. WalkInv'
    BY <2>0, <2>1, <2>2 DEF WalkInv
  <2>4. ListedWhereRead'
    BY <2>0, <2>1 DEF ListedWhereRead, Zobj
  <2> QED BY <2>3, <2>4
<1>5. CASE LastObj
  <2>0. /\ UNCHANGED size /\ (Huge' <=> Huge) /\ pc' = "parser_pages"
        /\ obj_index' = obj_index + 1 /\ page' = page + 1
        /\ objs' = objs \cup {Zobj(PageSize)}
    BY <1>2, <1>5 DEF LastObj
  <2>1. CASE pc = "huge"
    <3>1. Huge /\ page = 0 /\ obj_start = 0 /\ obj_index = 0
      BY <2>1 DEF WalkInv
    <3>2. page * PageSize + obj_start = size * obj_index
      BY <1>0, <3>1
    <3> QED
      BY <1>0, <2>0, <3>1, <3>2 DEF WalkInv, ListedWhereRead, Zobj
  <2>2. CASE pc = "parser_obj"
    <3>1. /\ page * PageSize + obj_start = size * obj_index /\ ~Huge
          /\ obj_start + size >= PageSize
      BY <1>5, <2>2 DEF LastObj, WalkInv
    <3>2. /\ size * obj_index' >= page' * PageSize
          /\ size * obj_index' < page' * PageSize + size
      BY <1>0, <1>1, <2>0, <3>1
    <3>3. WalkInv'
      BY <1>0, <2>0, <3>1, <3>2 DEF WalkInv
    <3>4. ListedWhereRead'
      BY <2>0, <3>1 DEF ListedWhereRead, Zobj
    <3> QED BY <3>3, <3>4
  <2> QED BY <1>5, <2>1, <2>2 DEF LastObj
<1>6. CASE UNCHANGED vars
  BY <1>2, <1>6 DEF vars, class, WalkInv, ListedWhereRead
<1> QED
  BY <1>3, <1>4, <1>5, <1>6 DEF Next

\* Every step of the walk keeps the invariant.
LEMMA InvStep == IInv /\ [Next]_vars => IInv'
<1> SUFFICES ASSUME IInv, [Next]_vars PROVE IInv'
  OBVIOUS
<1>1. TypeOK'
  BY NextType DEF IInv
<1>2. UnitsInv'
  BY DEF IInv, UnitsInv, UnitsOf, Next, ParserPages, WholeObj, LastObj, vars, class
<1> QED
  BY <1>1, <1>2, NextWalk DEF IInv

\* For every page size, object size and number of pages, the place where an
\* object is listed is the place where read_object starts to read it.
THEOREM ListingAgrees == Spec => []ListedWhereRead
<1>1. IInv => ListedWhereRead
  BY DEF IInv
<1> QED
  BY InitInv, InvStep, <1>1, PTL DEF Spec

\* What read_object copies is the object: the pieces it computes from the
\* index lie inside their pages, and together they are as long as the object.
THEOREM PiecesExact ==
  ASSUME TypeOK, NEW i \in Nat
  PROVE  \/ \E x \in Pieces(i) :
              Pieces(i) = {x} /\ x[3] = size /\ x[2] + x[3] <= PageSize
         \/ \E x, y \in Pieces(i) :
              /\ Pieces(i) = {x, y} /\ y[1] = x[1] + 1 /\ y[2] = 0
              /\ x[3] > 0 /\ y[3] > 0 /\ x[3] + y[3] = size
              /\ x[2] + x[3] = PageSize /\ y[3] <= PageSize
<1> DEFINE o == (size * i) % PageSize
           P == PageOf(i)
<1>1. o \in 0..(PageSize - 1) /\ PageSize \in Nat \ {0} /\ size \in 1..PageSize
  BY SizesAssumption DEF TypeOK
<1>2. CASE o + size <= PageSize
  <2>1. Pieces(i) = {<<P, o, size>>}
    BY <1>2 DEF Pieces
  <2> HIDE DEF o, P
  <2> QED BY <1>2, <2>1
<1>3. CASE o + size > PageSize
  <2>1. Pieces(i) = {<<P, o, PageSize - o>>, <<P + 1, 0, size - (PageSize - o)>>}
    BY <1>1, <1>3 DEF Pieces
  <2> HIDE DEF o, P
  <2> DEFINE x == <<P, o, PageSize - o>>
             y == <<P + 1, 0, size - (PageSize - o)>>
  <2>2. x[3] > 0 /\ y[3] > 0 /\ x[3] + y[3] = size /\ x[2] + x[3] = PageSize /\ y[3] <= PageSize
    BY <1>1, <1>3
  <2>3. x \in Pieces(i) /\ y \in Pieces(i) /\ Pieces(i) = {x, y} /\ y[1] = x[1] + 1 /\ y[2] = 0
    BY <2>1
  <2> QED BY <2>2, <2>3
<1> QED BY <1>1, <1>2, <1>3

-----------------------------------------------------------------------------
(* Every object is listed, and read whole.                                   *)

\* The quotient and the remainder of an address by a length.
LEMMA Division ==
  ASSUME NEW a \in Nat, NEW b \in Nat \ {0}
  PROVE  /\ a \div b \in Nat /\ a % b \in 0..(b - 1)
         /\ a = b * (a \div b) + (a % b)
OBVIOUS

\* A page and an offset in it are determined by the address.
LEMMA SamePlace ==
  ASSUME NEW b \in Nat \ {0}, NEW p \in Nat, NEW q \in Nat,
         NEW u \in 0..(b - 1), NEW v \in 0..(b - 1), p * b + u = q * b + v
  PROVE  p = q /\ u = v
<1>1. p * b = b * p /\ q * b = b * q /\ b * p \in Nat /\ b * q \in Nat
  OBVIOUS
<1>2. p = q
  <2> DEFINE w == p * b + u - (b - 1)
  <2>1. w \in Int /\ b * p >= w /\ b * p < w + b /\ b * q >= w /\ b * q < w + b
    BY <1>1
  <2> HIDE DEF w
  <2> QED BY <2>1, SameMultiple
<1>3. p * b = q * b
  BY <1>2
<1> QED BY <1>1, <1>2, <1>3

\* The ids given so far are listed once each, and at the end of the walk the next
\* object would begin behind the pages walked, less than an object behind them.
ListInv ==
  /\ \A o \in objs : o.id < obj_index
  /\ \A i \in 0..(obj_index - 1) : \E o \in objs : o.id = i
  /\ \A o, r \in objs : o.id = r.id => o = r
  /\ Huge /\ pc \in {"parser_pages", "done"} => obj_index = page
  /\ pc = "done" => page = chain
  /\ pc = "done" /\ ~Huge =>
       size * obj_index >= page * PageSize /\ size * obj_index < page * PageSize + size

\* Listing an object under the next id keeps the ids apart.
LEMMA OneMore ==
  ASSUME IInv, ListInv, NEW end, objs' = objs \cup {Zobj(end)}, obj_index' = obj_index + 1
  PROVE  /\ \A o \in objs' : o.id < obj_index'
         /\ \A i \in 0..(obj_index' - 1) : \E o \in objs' : o.id = i
         /\ \A o, r \in objs' : o.id = r.id => o = r
<1> DEFINE z == Zobj(end)
<1>1. z.id = obj_index
  BY DEF Zobj
<1> HIDE DEF z
<1>2. /\ \A o \in objs : o.id < obj_index
      /\ \A i \in 0..(obj_index - 1) : \E o \in objs : o.id = i
      /\ \A o, r \in objs : o.id = r.id => o = r
  BY DEF ListInv
<1>3. obj_index \in Nat /\ \A o \in objs : o.id \in Nat
  BY DEF IInv, TypeOK
<1>4. objs' = objs \cup {z}
  BY DEF z
<1>5. \A o \in objs' : o.id < obj_index'
  BY <1>1, <1>2, <1>3, <1>4
<1>6. ASSUME NEW i \in 0..(obj_index' - 1) PROVE \E o \in objs' : o.id = i
  <2>1. CASE i = obj_index
    BY <1>1, <1>4, <2>1
  <2>2. CASE i # obj_index
    <3>1. i \in 0..(obj_index - 1)
      BY <1>3, <2>2
    <3> QED BY <1>2, <1>4, <3>1
  <2> QED BY <2>1, <2>2
<1>7. ASSUME NEW o \in objs', NEW r \in objs', o.id = r.id PROVE o = r
  <2>1. \A x \in objs : x.id # z.id
    BY <1>1, <1>2, <1>3
  <2> QED BY <1>2, <1>4, <1>7, <2>1
<1> QED BY <1>5, <1>6, <1>7

\* A step keeps the ids apart and the end of the walk in its place.
LEMMA NextList == ASSUME IInv, ListInv, [Next]_vars PROVE ListInv'
<1>0. /\ size \in Nat /\ obj_index \in Nat /\ page \in Nat /\ PageSize \in Nat
      /\ page * PageSize \in Nat /\ size * obj_index \in Nat
  BY SizesAssumption DEF IInv, TypeOK
<1>1. ASSUME UNCHANGED class PROVE (Huge' <=> Huge) /\ UNCHANGED <<size, chain>>
  BY <1>1 DEF Huge, objs_per_zspage, class
<1>2. CASE ParserPages
  <2>1. (Huge' <=> Huge) /\ UNCHANGED <<size, chain, page, obj_index, objs>>
    BY <1>1, <1>2 DEF ParserPages
  <2>2. /\ \A o \in objs' : o.id < obj_index'
        /\ \A i \in 0..(obj_index' - 1) : \E o \in objs' : o.id = i
        /\ \A o, r \in objs' : o.id = r.id => o = r
    BY <2>1 DEF ListInv
  <2>3. CASE page = chain
    <3>1. pc = "parser_pages" /\ pc' = "done"
      BY <1>2, <2>3 DEF ParserPages
    <3> QED BY <2>1, <2>2, <2>3, <3>1 DEF ListInv, IInv, WalkInv
  <2>4. CASE page # chain
    <3>1. pc' \notin {"parser_pages", "done"}
      BY <1>2, <2>4 DEF ParserPages
    <3> QED BY <2>2, <3>1 DEF ListInv
  <2> QED BY <2>3, <2>4
<1>3. CASE WholeObj
  <2>1. pc' \notin {"parser_pages", "done"}
    BY <1>3 DEF WholeObj
  <2>2. objs' = objs \cup {Zobj(obj_start + size)} /\ obj_index' = obj_index + 1
    BY <1>3 DEF WholeObj
  <2> QED BY <2>1, <2>2, OneMore DEF ListInv
<1>4. CASE LastObj
  <2>1. (Huge' <=> Huge) /\ pc' = "parser_pages" /\ page' = page + 1
    BY <1>1, <1>4 DEF LastObj
  <2>2. objs' = objs \cup {Zobj(PageSize)} /\ obj_index' = obj_index + 1
    BY <1>4 DEF LastObj
  <2>3. Huge => obj_index = page
    BY <1>4 DEF LastObj, IInv, WalkInv
  <2>4. Huge' => obj_index' = page'
    BY <2>1, <2>2, <2>3
  <2> QED BY <2>1, <2>2, <2>4, OneMore DEF ListInv
<1>5. CASE UNCHANGED vars
  BY <1>1, <1>5 DEF vars, ListInv, class
<1> QED
  BY <1>2, <1>3, <1>4, <1>5 DEF Next

\* objs_per_zspage objects fit the pages, and no more.
LEMMA ObjsFit ==
  ASSUME TypeOK
  PROVE  /\ objs_per_zspage \in Nat
         /\ size * objs_per_zspage <= pages_per_zspage * PageSize
         /\ pages_per_zspage * PageSize < size * objs_per_zspage + size
<1> DEFINE a == pages_per_zspage * PageSize
           n == objs_per_zspage
<1>1. a \in Nat /\ size \in Nat \ {0}
  BY SizesAssumption DEF TypeOK
<1>2. n = a \div size
  BY DEF objs_per_zspage
<1> HIDE DEF a, n
<1>3. n \in Nat /\ a % size \in 0..(size - 1) /\ a = size * n + (a % size)
  BY <1>1, <1>2, Division, Zenon
<1>4. size * n \in Nat
  BY <1>1, <1>3
<1>5. size * n <= a /\ a < size * n + size
  BY <1>1, <1>3, <1>4
<1> QED BY <1>3, <1>5 DEF a, n

\* read_object copies the bytes of the object it is asked for, inside the zspage.
LEMMA WholeRead == ASSUME TypeOK, ListedWhereRead PROVE ReadsWholeObject
<1> SUFFICES ASSUME NEW o \in objs, o.id < objs_per_zspage
             PROVE  /\ BytesRead(o.id) = (size * o.id)..(size * o.id + size - 1)
                    /\ \A x \in Pieces(o.id) : x[1] < pages_per_zspage /\ x[2] + x[3] <= PageSize
                    /\ \E x \in Pieces(o.id) : x[1] = o.page /\ x[2] = o.start
  BY DEF ReadsWholeObject
<1> DEFINE i == o.id
           at == size * i
           off == at % PageSize
           p == at \div PageSize
<1>1. /\ size \in Nat \ {0} /\ size <= PageSize /\ PageSize \in Nat \ {0}
      /\ i \in Nat /\ o.page \in Nat /\ o.start \in 0..(PageSize - 1)
      /\ pages_per_zspage \in Nat
  BY SizesAssumption DEF TypeOK
<1>2. at \in Nat
  BY <1>1
<1>3. p \in Nat /\ off \in 0..(PageSize - 1) /\ at = p * PageSize + off /\ p * PageSize \in Nat
  <2> HIDE DEF at
  <2>1. p \in Nat /\ off \in 0..(PageSize - 1) /\ at = PageSize * p + off
    BY <1>1, <1>2, Division, Zenon
  <2> HIDE DEF p, off
  <2>2. PageSize * p = p * PageSize /\ p * PageSize \in Nat
    BY <1>1, <2>1
  <2> QED BY <2>1, <2>2
<1>4. o.page * PageSize + o.start = at
  BY DEF ListedWhereRead
<1>5. at + size <= pages_per_zspage * PageSize
  <2>1. size * i + size <= size * objs_per_zspage
    BY <1>1, ObjsFit, LessMultiple
  <2>2. size * objs_per_zspage \in Int /\ pages_per_zspage * PageSize \in Int
    BY <1>1, ObjsFit
  <2> QED BY <1>1, <1>2, <2>1, <2>2, ObjsFit
<1>6. PageOf(i) = p
  BY DEF PageOf
<1>7. Pieces(i) = IF off + size <= PageSize THEN {<<p, off, size>>}
                  ELSE {<<p, off, PageSize - off>>, <<p + 1, 0, size - (PageSize - off)>>}
  BY <1>6 DEF Pieces
<1>8. BytesRead(i) = UNION {(x[1] * PageSize + x[2])..(x[1] * PageSize + x[2] + x[3] - 1) : x \in Pieces(i)}
  BY DEF BytesRead
<1> HIDE DEF at, off, p
<1>9. o.page = p /\ o.start = off
  BY <1>1, <1>3, <1>4, SamePlace, Zenon
<1>10. PageSize * p = p * PageSize /\ PageSize * pages_per_zspage = pages_per_zspage * PageSize
       /\ PageSize * (p + 1) = p * PageSize + PageSize /\ (p + 1) * PageSize = p * PageSize + PageSize
       /\ pages_per_zspage * PageSize \in Nat
  BY <1>1, <1>3
<1>11. p < pages_per_zspage
  <2>1. PageSize * p < PageSize * pages_per_zspage
    BY <1>1, <1>2, <1>3, <1>5, <1>10
  <2> QED BY <1>1, <1>3, <2>1, LessMultiple
<1>12. CASE off + size <= PageSize
  <2>1. Pieces(i) = {<<p, off, size>>}
    BY <1>7, <1>12
  <2>2. BytesRead(i) = (p * PageSize + off)..(p * PageSize + off + size - 1)
    BY <1>8, <2>1
  <2>3. BytesRead(i) = at..(at + size - 1)
    BY <1>3, <2>2
  <2> QED BY <1>9, <1>11, <1>12, <2>1, <2>3 DEF at
<1>13. CASE off + size > PageSize
  <2>1. Pieces(i) = {<<p, off, PageSize - off>>, <<p + 1, 0, size - (PageSize - off)>>}
    BY <1>1, <1>3, <1>7, <1>13
  <2>2. BytesRead(i) = ((p * PageSize + off)..(p * PageSize + off + (PageSize - off) - 1))
                       \cup (((p + 1) * PageSize + 0)..((p + 1) * PageSize + 0 + (size - (PageSize - off)) - 1))
    BY <1>8, <2>1
  <2>3. BytesRead(i) = at..(at + size - 1)
    <3>1. p * PageSize + off + (PageSize - off) - 1 = p * PageSize + PageSize - 1
          /\ (p + 1) * PageSize + 0 = p * PageSize + PageSize
          /\ (p + 1) * PageSize + 0 + (size - (PageSize - off)) - 1 = at + size - 1
      BY <1>1, <1>3, <1>10
    <3>2. BytesRead(i) = (at..(p * PageSize + PageSize - 1)) \cup ((p * PageSize + PageSize)..(at + size - 1))
      BY <1>3, <2>2, <3>1
    <3>3. at <= p * PageSize + PageSize /\ p * PageSize + PageSize <= at + size
      BY <1>1, <1>3, <1>13
    <3> QED BY <1>1, <1>2, <1>3, <3>2, <3>3
  <2>4. p + 1 < pages_per_zspage
    <3>1. PageSize * (p + 1) < PageSize * pages_per_zspage
      BY <1>1, <1>2, <1>3, <1>5, <1>10, <1>13
    <3> QED BY <1>1, <1>3, <3>1, LessMultiple
  <2>5. off + (PageSize - off) <= PageSize /\ 0 + (size - (PageSize - off)) <= PageSize
    BY <1>1, <1>3
  <2> QED BY <1>9, <1>11, <2>1, <2>3, <2>4, <2>5 DEF at
<1> QED BY <1>1, <1>3, <1>12, <1>13

\* At the end of an unbroken chain every object has its id.
LEMMA AllListed == ASSUME TypeOK, ListInv PROVE ListingComplete
<1> SUFFICES ASSUME pc = "done", chain = pages_per_zspage
             PROVE  /\ \A i \in 0..(objs_per_zspage - 1) : \E o \in objs : o.id = i
                    /\ obj_index \in {objs_per_zspage, objs_per_zspage + 1}
  BY DEF ListingComplete, ListInv
<1> DEFINE n == objs_per_zspage
<1>1. /\ size \in Nat \ {0} /\ obj_index \in Nat /\ n \in Nat
      /\ size * n <= page * PageSize /\ page * PageSize < size * n + size
      /\ size * n \in Nat /\ size * obj_index \in Nat /\ page * PageSize \in Nat
  <2>1. /\ size \in Nat \ {0} /\ obj_index \in Nat /\ page = pages_per_zspage
        /\ page \in Nat /\ PageSize \in Nat
    BY SizesAssumption DEF TypeOK, ListInv
  <2>2. n \in Nat /\ size * n <= page * PageSize /\ page * PageSize < size * n + size
    BY <2>1, ObjsFit
  <2> HIDE DEF n
  <2> QED BY <2>1, <2>2
<1>2. obj_index \in {n, n + 1}
  <2>1. CASE Huge
    BY <2>1 DEF ListInv, Huge
  <2>2. CASE ~Huge
    <3>1. size * obj_index >= page * PageSize /\ size * obj_index < page * PageSize + size
      BY <2>2 DEF ListInv
    <3>2. size * (n + 2) = size * n + size + size /\ size * (obj_index + 1) = size * obj_index + size
      BY <1>1
    <3> HIDE DEF n
    <3>3. size * obj_index < size * (n + 2) /\ size * n < size * (obj_index + 1)
      BY <1>1, <3>1, <3>2
    <3>4. obj_index < n + 2 /\ n < obj_index + 1
      BY <1>1, <3>3, LessMultiple
    <3> QED BY <1>1, <3>4
  <2> QED BY <2>1, <2>2
<1>3. \A i \in 0..(n - 1) : i \in 0..(obj_index - 1)
  BY <1>1, <1>2
<1> QED BY <1>2, <1>3 DEF ListInv

\* For every page size, object size and number of pages, read_object copies exactly
\* the bytes of each listed object, inside the zspage, and a walk of an unbroken chain
\* lists every object once.
THEOREM ObjectsAreExact == Spec => []ObjectsExact
<1>1. Init => IInv /\ ListInv
  BY InitInv DEF Init, ListInv
<1>2. (IInv /\ ListInv) /\ [Next]_vars => (IInv /\ ListInv)'
  <2> SUFFICES ASSUME IInv, ListInv, [Next]_vars PROVE IInv' /\ ListInv'
    OBVIOUS
  <2> QED BY InvStep, NextList
<1>3. IInv /\ ListInv => ObjectsExact
  BY WholeRead, AllListed DEF IInv, ObjectsExact
<1> QED
  BY <1>1, <1>2, <1>3, PTL DEF Spec

-----------------------------------------------------------------------------
(***************************************************************************)
(* lzo1x_decompress_safe, the module LzoBlock: the checks before a literal *)
(* run and a match are enough for the three bytes a token may read without *)
(* one.                                                                    *)
(***************************************************************************)

CONSTANTS Programs, Damage, BufSizes, M2_MAX_OFFSET, Far, MAX_255_COUNT
VARIABLES dump, pos, out

Z == INSTANCE LzoBlock WITH Sizes <- BufSizes

\* The text of lzo1x_decompress_safe is one of bytes and fits the buffer; nothing was read
\* outside the input.
LzoOut ==
  /\ {"text", "ret", "inside"} \subseteq DOMAIN out
  /\ out.inside = TRUE /\ out.text \in Seq(Z!Octet) /\ Z!op <= dump.cap

\* The variables of the decoder.
LzoPositions == [ip : Nat, state : 0..4, t : Nat, next : Nat, m : Int, ver : BOOLEAN]

\* How far the decoder has come.  Between its checks ip is never behind the end; a match
\* moves at least three bytes and starts before the end of the text.
LzoRoom ==
  /\ pos.ip <= Z!ip_end
  /\ pc = "op" => pos.ip + 3 <= Z!ip_end
  /\ pc = "run" => pos.t >= 1
  /\ pc = "match" => pos.t >= 3 /\ pos.m < Z!op
  /\ pc \in {"match", "next"} => pos.next \in 0..3

\* The inductive invariant of the decoder.
LzoInv ==
  /\ dump.src \in Seq(Z!Octet) /\ dump.cap \in Nat
  /\ pos \in LzoPositions
  /\ LzoOut
  /\ pc \in {"start", "op", "run", "match", "next", "done"}
  /\ LzoRoom

\* What a sequence holds is of its type.
LEMMA ElementOf == ASSUME NEW X, NEW s \in Seq(X), NEW i \in DOMAIN s PROVE s[i] \in X
  OBVIOUS

\* A byte of the input, or the 0 that stands for one outside.
LEMMA LzoByte ==
  ASSUME LzoInv
  PROVE  /\ \A at \in Nat : Z!In(at) \in 0..255
         /\ \A at \in Nat : Z!In16(at) \in Nat
<1>1. \A at \in Nat : Z!In(at) \in 0..255
  <2> SUFFICES ASSUME NEW at \in Nat PROVE Z!In(at) \in 0..255
    OBVIOUS
  <2>1. dump.src \in Seq(Z!Octet)
    BY DEF LzoInv
  <2>2. CASE at < Len(dump.src)
    <3>1. at + 1 \in DOMAIN dump.src
      BY <2>1, <2>2
    <3>2. dump.src[at + 1] \in 0..255
      <4>1. dump.src[at + 1] \in Z!Octet
        BY <2>1, <3>1, ElementOf
      <4> QED BY <4>1 DEF Z!Octet
    <3>3. Z!In(at) = dump.src[at + 1]
      BY <2>2 DEF Z!In, Z!ip_end
    <3> QED BY <3>2, <3>3
  <2>3. CASE ~(at < Len(dump.src))
    BY <2>3 DEF Z!In, Z!ip_end
  <2> QED BY <2>2, <2>3, Zenon
<1>2. ASSUME NEW at \in Nat PROVE Z!In16(at) \in Nat
  <2>1. at + 1 \in Nat
    OBVIOUS
  <2>2. PICK a \in 0..255, b \in 0..255 : Z!In(at) = a /\ Z!In(at + 1) = b
    BY <1>1, <2>1, Zenon
  <2>3. Z!In16(at) = a + 256 * b
    BY <2>2 DEF Z!In16
  <2> QED BY <2>3
<1> QED BY <1>1, <1>2

\* What the position and the text are known to be.
LEMMA LzoTypes ==
  ASSUME LzoInv
  PROVE  /\ Z!ip_end \in Nat /\ Z!op \in Nat /\ LzoOut /\ dump.cap \in Nat /\ pos \in LzoPositions
         /\ pos.ip \in Nat /\ pos.state \in 0..4 /\ pos.t \in Nat /\ pos.next \in Nat /\ pos.m \in Int /\ pos.ver \in BOOLEAN
         /\ pos = [ip |-> pos.ip, state |-> pos.state, t |-> pos.t, next |-> pos.next, m |-> pos.m, ver |-> pos.ver]
         /\ pos.ip <= Z!ip_end /\ Z!op <= dump.cap
<1>1. dump.src \in Seq(Z!Octet) /\ LzoOut /\ pos \in LzoPositions /\ dump.cap \in Nat
  BY DEF LzoInv
<1>2. Z!ip_end \in Nat
  BY <1>1 DEF Z!ip_end
<1>3. Z!op \in Nat /\ Z!op <= dump.cap
  BY <1>1 DEF Z!op, LzoOut
<1>4. pos.ip <= Z!ip_end
  BY DEF LzoInv, LzoRoom
<1> QED BY <1>1, <1>2, <1>3, <1>4 DEF LzoPositions

\* What is left to show of a step.
LEMMA LzoStep ==
  ASSUME LzoInv, UNCHANGED dump, LzoOut', pos' \in LzoPositions, 
         NEW p \in {"op", "run", "match", "next", "done"}, pc' = p, LzoRoom'
  PROVE  LzoInv'
  BY DEF LzoInv

\* A step that reads inside and writes nothing.
LEMMA LzoReads ==
  ASSUME LzoInv, NEW at, NEW n, Z!InsideIn(at, n), Z!Reads(at, n), UNCHANGED dump
  PROVE  LzoOut' /\ Z!op' = Z!op
<1>1. LzoOut
  BY DEF LzoInv
<1>2. DOMAIN out' = DOMAIN out /\ out'.inside = (out.inside /\ Z!InsideIn(at, n)) /\ out'.text = out.text
  BY <1>1 DEF LzoOut, Z!Reads
<1>3. out'.inside = TRUE
  BY <1>1, <1>2, Zenon DEF LzoOut
<1> QED BY <1>1, <1>2, <1>3 DEF LzoOut, Z!op

\* A step that writes bytes behind the text, within the buffer.
LEMMA LzoWrites ==
  ASSUME LzoInv, NEW at, NEW n, Z!InsideIn(at, n), NEW new \in Seq(Z!Octet),
         Z!op + Len(new) <= dump.cap, Z!Writes(out.text \o new, at, n), UNCHANGED dump
  PROVE  LzoOut'
<1>1. LzoOut
  BY DEF LzoInv
<1>2. DOMAIN out' = DOMAIN out /\ out'.inside = (out.inside /\ Z!InsideIn(at, n)) /\ out'.text = out.text \o new
  BY <1>1 DEF LzoOut, Z!Writes
<1>3. out'.inside = TRUE
  BY <1>1, <1>2, Zenon DEF LzoOut
<1>4. out'.text \in Seq(Z!Octet) /\ Len(out'.text) = Z!op + Len(new)
  BY <1>1, <1>2 DEF LzoOut, Z!op
<1> QED BY <1>1, <1>2, <1>3, <1>4 DEF LzoOut, Z!op

\* A block that is given up: nothing was read outside, nothing written.
LEMMA LzoStops ==
  ASSUME LzoInv, NEW what, NEW at, NEW n, Z!InsideIn(at, n), Z!Stop(what, at, n), UNCHANGED dump,
         pos' \in LzoPositions, pos'.ip <= Z!ip_end
  PROVE  LzoInv'
<1>1. LzoOut
  BY DEF LzoInv
<1>2. DOMAIN out' = DOMAIN out /\ out'.inside = (out.inside /\ Z!InsideIn(at, n)) /\ out'.text = out.text /\ pc' = "done"
  BY <1>1 DEF LzoOut, Z!Stop
<1>3. out'.inside = TRUE
  BY <1>1, <1>2, Zenon DEF LzoOut
<1>4. LzoOut'
  BY <1>1, <1>2, <1>3 DEF LzoOut, Z!op
<1>5. LzoRoom'
  BY <1>2 DEF LzoRoom, Z!ip_end
<1> QED BY <1>2, <1>4, <1>5, LzoStep

\* A block that is given up before anything of the instruction is copied.
LEMMA LzoOverruns == ASSUME LzoInv, NEW what, Z!Overrun(what), UNCHANGED dump PROVE LzoInv'
<1>1. Z!InsideIn(0, 0) /\ Z!Stop(what, 0, 0) /\ pos' = pos
  BY LzoTypes DEF Z!InsideIn, Z!Overrun
<1> QED BY <1>1, LzoTypes, LzoStops

\* The checks mean what they say as long as neither end is passed.
LEMMA LzoChecks ==
  ASSUME LzoInv, NEW n \in Nat
  PROVE  /\ \A at \in Nat : at <= Z!ip_end /\ Z!HAVE_IP(at, n) => Z!InsideIn(at, n)
         /\ Z!HAVE_OP(n) => Z!op + n <= dump.cap
<1>1. ASSUME NEW at \in Nat, at <= Z!ip_end, Z!HAVE_IP(at, n) PROVE Z!InsideIn(at, n)
  BY <1>1, LzoTypes DEF Z!HAVE_IP, Z!InsideIn
<1>2. Z!HAVE_OP(n) => Z!op + n <= dump.cap
  BY LzoTypes DEF Z!HAVE_OP
<1> QED BY <1>1, <1>2

\* A nonempty set of numbers has a smallest member.
LEMMA LeastNumber ==
  ASSUME NEW S, S \subseteq Nat, S # {}
  PROVE  \E x \in S : \A y \in S : x <= y
<1>1. PICK x \in S : \A y \in S : ~(<<y, x>> \in OpToRel(<, Nat))
  BY NatLessThanWellFounded, WFMin, Zenon
<1>2. \A y \in S : ~(y < x)
  BY <1>1, Zenon DEF OpToRel
<1> QED BY <1>2

\* The run of zero bytes ends.
LEMMA ZeroesEnd ==
  ASSUME LzoInv, NEW at \in Nat
  PROVE  Z!ZeroesAt(at) \in Nat
<1> DEFINE S == {n \in 0..Z!ip_end : at + n >= Z!ip_end \/ Z!In(at + n) # 0}
<1>1. S # {} /\ S \subseteq Nat
  <2>1. Z!ip_end \in 0..Z!ip_end /\ at + Z!ip_end >= Z!ip_end
    BY LzoTypes
  <2> QED BY <2>1, LzoTypes
<1>2. PICK n \in S : \A k \in S : n <= k
  <2> HIDE DEF S
  <2> QED BY <1>1, LeastNumber, Zenon
<1>3. n \in 0..Z!ip_end /\ (at + n >= Z!ip_end \/ Z!In(at + n) # 0)
  OBVIOUS
<1>4. \A k \in 0..n - 1 : at + k < Z!ip_end /\ Z!In(at + k) = 0
  <2> SUFFICES ASSUME NEW k \in 0..n - 1 PROVE at + k < Z!ip_end /\ Z!In(at + k) = 0
    OBVIOUS
  <2>1. k \notin S
    <3> HIDE DEF S
    <3>1. n \in Nat
      BY <1>1
    <3> QED BY <1>2, <3>1
  <2>2. k \in 0..Z!ip_end
    BY <1>3, LzoTypes
  <2>3. ~(at + k >= Z!ip_end)
    BY <2>1, <2>2
  <2>4. at + k < Z!ip_end
    BY <2>2, <2>3, LzoTypes
  <2> QED BY <2>1, <2>2, <2>4
<1>5. Z!ZeroesAt(at) \in 0..Z!ip_end
  BY <1>3, <1>4 DEF Z!ZeroesAt
<1> QED BY <1>5, LzoTypes

\* At an instruction three bytes are left.
LEMMA LzoHere ==
  ASSUME LzoInv, pc = "op"
  PROVE  \E a \in Nat, e \in Nat, i \in Nat : Z!At = a /\ Z!ip_end = e /\ pos.ip = i /\ a = i + 1 /\ i + 3 <= e
<1>1. pos.ip \in Nat /\ Z!ip_end \in Nat
  BY LzoTypes
<1>2. pos.ip + 3 <= Z!ip_end
  BY DEF LzoInv, LzoRoom
<1>3. Z!At = pos.ip + 1 /\ pos.ip + 1 \in Nat
  BY <1>1 DEF Z!At
<1> QED BY <1>1, <1>2, <1>3

\* A length that does not fail ends inside the input, and a match's distance is inside too.
LEMMA LzoLength ==
  ASSUME LzoInv, pc = "op", NEW field \in Nat, NEW max \in Nat \ {0}
  PROVE  /\ Z!LengthIp(field) \in Nat /\ Z!LengthIp(field) > pos.ip
         /\ Z!Length(field, max) \in Nat /\ Z!Length(field, max) >= 1
         /\ Z!LengthFails(field) = "" => Z!LengthIp(field) <= Z!ip_end
         /\ Z!MatchFails(field) = "" => Z!LengthIp(field) + 2 <= Z!ip_end
<1>1. PICK a \in Nat, e \in Nat, i \in Nat : Z!At = a /\ Z!ip_end = e /\ pos.ip = i /\ a = i + 1 /\ i + 3 <= e
  BY LzoHere
<1>2. PICK z \in Nat : Z!ZeroesAt(Z!At) = z
  BY <1>1, ZeroesEnd
<1>3. PICK l \in 0..255 : Z!In(Z!At + z) = l
  <2>1. a + z \in Nat
    OBVIOUS
  <2> QED BY <1>1, <2>1, LzoByte
<1>4. CASE field = 0
  <2>1. Z!LengthIp(field) = a + z + 1
    BY <1>1, <1>2, <1>4 DEF Z!LengthIp
  <2>2. Z!Length(field, max) = max + 255 * z + l
    BY <1>2, <1>3, <1>4 DEF Z!Length
  <2>3. Z!LengthFails(field) = "" => a + z + 1 <= e
    <3>1. Z!LengthFails(field) = "" => ~(a + z >= e)
      BY <1>1, <1>2, <1>4 DEF Z!LengthFails
    <3>2. ~(a + z >= e) => a + z + 1 <= e
      OBVIOUS
    <3> QED BY <3>1, <3>2, Zenon
  <2>4. Z!LengthIp(field) \in Nat /\ Z!LengthIp(field) > pos.ip
    BY <1>1, <2>1
  <2>5. Z!LengthFails(field) = "" => Z!LengthIp(field) <= Z!ip_end
    BY <1>1, <2>1, <2>3, Zenon
  <2>6. ASSUME Z!MatchFails(field) = "" PROVE Z!LengthIp(field) + 2 <= Z!ip_end
    <3>1. Z!LengthFails(field) = "" /\ Z!HAVE_IP(Z!LengthIp(field), 2)
      BY <1>4, <2>6, Zenon DEF Z!MatchFails
    <3>2. Z!InsideIn(Z!LengthIp(field), 2)
      BY <2>4, <2>5, <3>1, LzoChecks, Zenon
    <3> QED BY <3>2 DEF Z!InsideIn
  <2>7. Z!Length(field, max) \in Nat /\ Z!Length(field, max) >= 1
    <3>1. max + 255 * z + l \in Nat /\ max + 255 * z + l >= 1
      OBVIOUS
    <3> QED BY <2>2, <3>1
  <2> QED BY <2>4, <2>5, <2>6, <2>7, Zenon
<1>5. CASE field # 0
  <2>1. Z!LengthIp(field) = a /\ Z!Length(field, max) = field
    BY <1>1, <1>5 DEF Z!LengthIp, Z!Length
  <2>2. field >= 1
    BY <1>5
  <2>3. a > i /\ a <= e /\ a + 2 <= e
    BY <1>1
  <2> QED BY <1>1, <2>1, <2>2, <2>3, Zenon
<1> QED BY <1>4, <1>5, Zenon

\* A part of a sequence of bytes.
LEMMA PartOf ==
  ASSUME NEW X, NEW s \in Seq(X), NEW a \in Nat, NEW n \in Nat, a + n <= Len(s)
  PROVE  SubSeq(s, a + 1, a + n) \in Seq(X) /\ Len(SubSeq(s, a + 1, a + n)) = n
<1>1. ASSUME NEW i \in 1..n PROVE s[i + (a + 1) - 1] \in X
  BY <1>1, ElementOf
<1>2. SubSeq(s, a + 1, a + n) = [i \in 1..n |-> s[i + (a + 1) - 1]]
  OBVIOUS
<1> QED BY <1>1, <1>2

\* n bytes of the input are bytes.
LEMMA LzoLiterals ==
  ASSUME LzoInv, NEW n \in Nat, Z!InsideIn(pos.ip, n)
  PROVE  Z!Literals(n) \in Seq(Z!Octet) /\ Len(Z!Literals(n)) = n
<1>1. dump.src \in Seq(Z!Octet) /\ pos.ip \in Nat /\ pos.ip + n <= Len(dump.src)
  BY LzoTypes DEF LzoInv, Z!InsideIn, Z!ip_end
<1> QED BY <1>1, PartOf DEF Z!Literals

\* What a match repeats are bytes of the text.
LEMMA LzoRepeats ==
  ASSUME NEW text \in Seq(Z!Octet), NEW dist \in Nat \ {0}, dist <= Len(text), NEW n \in Nat
  PROVE  \E new \in Seq(Z!Octet) : Z!Repeat(text, dist, n) = text \o new /\ Len(new) = n
<1> DEFINE new == [i \in 1..n |-> text[Len(text) - dist + 1 + ((i - 1) % dist)]]
<1>1. ASSUME NEW i \in 1..n PROVE text[Len(text) - dist + 1 + ((i - 1) % dist)] \in Z!Octet
  <2>1. PICK r \in 0..(dist - 1) : (i - 1) % dist = r
    BY <1>1
  <2>2. Len(text) - dist + 1 + r \in 1..Len(text)
    OBVIOUS
  <2> QED BY <2>1, <2>2, ElementOf
<1>2. new \in Seq(Z!Octet) /\ Len(new) = n
  BY <1>1
<1>3. Z!Repeat(text, dist, n) = text \o new
  BY DEF Z!Repeat
<1> HIDE DEF new
<1> QED BY <1>2, <1>3, Zenon

\* The version and the first literals.
LEMMA LzoBegin == ASSUME LzoInv, Z!Begin PROVE LzoInv'
<1>1. UNCHANGED dump /\ Z!ip_end' = Z!ip_end
  BY DEF Z!Begin, Z!ip_end
<1>2. CASE Z!Overrun("input_overrun")
  BY <1>1, <1>2, LzoOverruns
<1>3. ASSUME Z!ip_end >= 3 PROVE Z!First \in Nat /\ Z!First + 3 <= Z!ip_end
  BY <1>3, LzoTypes DEF Z!First, Z!Versioned
<1>4. PICK v \in BOOLEAN : (Z!Versioned /\ Z!In(1) # 0) = v
  BY Zenon
<1>5. ASSUME Z!ip_end >= 3, Z!Reads(Z!First, 1) PROVE LzoOut' /\ Z!op' = Z!op
  <2>1. Z!InsideIn(Z!First, 1)
    BY <1>3, <1>5, LzoTypes DEF Z!InsideIn
  <2> QED BY <1>1, <1>5, <2>1, LzoReads
<1>6. CASE /\ Z!ip_end >= 3 /\ Z!Reads(Z!First, 1) /\ pc' = "op"
           /\ pos' = [pos EXCEPT !.ver = Z!Versioned /\ Z!In(1) # 0, !.ip = Z!First]
  <2>1. pos' = [ip |-> Z!First, state |-> pos.state, t |-> pos.t, next |-> pos.next, m |-> pos.m, ver |-> v]
    BY <1>4, <1>6, LzoTypes, Zenon
  <2>2. pos' \in LzoPositions
    BY <1>3, <1>6, <2>1, LzoTypes DEF LzoPositions
  <2>3. LzoRoom'
    BY <1>1, <1>3, <1>6, <2>1, LzoTypes DEF LzoRoom
  <2> QED BY <1>1, <1>5, <1>6, <2>2, <2>3, LzoStep
<1>7. CASE /\ Z!ip_end >= 3 /\ Z!In(Z!First) > 17 /\ Z!Reads(Z!First, 1)
           /\ pos' = [pos EXCEPT !.ver = Z!Versioned /\ Z!In(1) # 0, !.ip = Z!First + 1, !.t = Z!In(Z!First) - 17, !.next = Z!In(Z!First) - 17]
           /\ pc' = IF Z!In(Z!First) - 17 < 4 THEN "next" ELSE "run"
  <2>1. PICK b \in 0..255 : Z!In(Z!First) = b
    BY <1>3, <1>7, LzoByte
  <2>2. b - 17 \in Nat /\ Z!First + 1 \in Nat /\ Z!First + 1 <= Z!ip_end
    BY <1>3, <1>7, <2>1, LzoTypes
  <2>3. pos' = [ip |-> Z!First + 1, state |-> pos.state, t |-> b - 17, next |-> b - 17, m |-> pos.m, ver |-> v]
    BY <1>4, <1>7, <2>1, LzoTypes, Zenon
  <2>4. pos' \in LzoPositions
    BY <2>2, <2>3, LzoTypes DEF LzoPositions
  <2>5. CASE b - 17 < 4
    <3>1. pc' = "next"
      BY <1>7, <2>1, <2>5
    <3>2. b - 17 \in 0..3
      BY <2>2, <2>5
    <3>3. LzoRoom'
      BY <1>1, <2>2, <2>3, <3>1, <3>2 DEF LzoRoom
    <3> QED BY <1>1, <1>5, <1>7, <2>4, <3>1, <3>3, LzoStep
  <2>6. CASE ~(b - 17 < 4)
    <3>1. pc' = "run"
      BY <1>7, <2>1, <2>6
    <3>2. b - 17 >= 1
      BY <2>2, <2>6
    <3>3. LzoRoom'
      BY <1>1, <2>2, <2>3, <3>1, <3>2 DEF LzoRoom
    <3> QED BY <1>1, <1>5, <1>7, <2>4, <3>1, <3>3, LzoStep
  <2> QED BY <2>5, <2>6
<1> QED BY <1>2, <1>6, <1>7 DEF Z!Begin

\* The length of a run of literals.
LEMMA LzoLiteralRun == ASSUME LzoInv, Z!LiteralRun PROVE LzoInv'
<1>1. UNCHANGED dump /\ Z!ip_end' = Z!ip_end /\ pc = "op" /\ Z!T \in 0..15
  BY Zenon DEF Z!LiteralRun, Z!Op, Z!ip_end, Z!T
<1>2. PICK a \in Nat, e \in Nat, i \in Nat : Z!At = a /\ Z!ip_end = e /\ pos.ip = i /\ a = i + 1 /\ i + 3 <= e
  BY <1>1, LzoHere
<1>3. PICK f \in 0..15 : Z!T = f
  BY <1>1
<1>4. CASE Z!LengthFails(Z!T) # "" /\ Z!Stop(Z!LengthFails(Z!T), pos.ip, 2) /\ UNCHANGED pos
  <2>1. Z!InsideIn(pos.ip, 2)
    BY <1>2 DEF Z!InsideIn
  <2> QED BY <1>1, <1>4, <2>1, LzoTypes, LzoStops, Zenon
<1>5. CASE /\ Z!LengthFails(Z!T) = ""
           /\ pos' = [pos EXCEPT !.ip = Z!LengthIp(Z!T), !.t = Z!Length(Z!T, 15) + 3]
           /\ Z!Reads(pos.ip, Z!LengthIp(Z!T) - pos.ip)
           /\ pc' = "run"
  <2>1. PICK j \in Nat, n \in Nat : Z!LengthIp(Z!T) = j /\ Z!Length(Z!T, 15) = n /\ j <= e /\ j > i
    <3>1. f \in Nat /\ 15 \in Nat \ {0}
      OBVIOUS
    <3>2. Z!LengthFails(f) = ""
      BY <1>3, <1>5, Zenon
    <3>3. Z!LengthIp(f) \in Nat /\ Z!LengthIp(f) > pos.ip /\ Z!Length(f, 15) \in Nat /\ Z!LengthIp(f) <= Z!ip_end
      BY <1>1, <3>1, <3>2, LzoLength, Zenon
    <3> QED BY <1>2, <1>3, <3>3
  <2>2. Z!InsideIn(pos.ip, Z!LengthIp(Z!T) - pos.ip)
    BY <1>2, <2>1 DEF Z!InsideIn
  <2>3. LzoOut'
    BY <1>1, <1>5, <2>2, LzoReads, Zenon
  <2>4. pos' = [ip |-> j, state |-> pos.state, t |-> n + 3, next |-> pos.next, m |-> pos.m, ver |-> pos.ver]
    BY <1>5, <2>1, LzoTypes, Zenon
  <2>5. pos' \in LzoPositions
    <3>1. n + 3 \in Nat
      OBVIOUS
    <3> QED BY <2>4, <3>1, LzoTypes DEF LzoPositions
  <2>6. pos'.ip <= Z!ip_end /\ pos'.t >= 1
    BY <1>2, <2>1, <2>4
  <2>7. LzoRoom'
    BY <1>1, <1>5, <2>6, Zenon DEF LzoRoom
  <2> QED BY <1>1, <1>5, <2>3, <2>5, <2>7, LzoStep, Zenon
<1> QED BY <1>4, <1>5, Zenon DEF Z!LiteralRun

\* A run of literals is asked for in both buffers before it is copied.
LEMMA LzoCopyRun == ASSUME LzoInv, Z!CopyRun PROVE LzoInv'
<1>1. UNCHANGED dump /\ Z!ip_end' = Z!ip_end /\ pc = "run"
  BY DEF Z!CopyRun, Z!ip_end
<1>2. pos.t \in Nat /\ pos.t >= 1 /\ Z!AtLeast(1, pos.t) = pos.t
  BY <1>1, LzoTypes DEF LzoInv, LzoRoom, Z!AtLeast
<1>3. CASE \E what : Z!Overrun(what)
  BY <1>1, <1>3, LzoOverruns
<1>4. CASE /\ Z!HAVE_OP(pos.t) /\ ~Z!Short(pos.t)
           /\ Z!Writes(out.text \o Z!Literals(Z!AtLeast(1, pos.t)), pos.ip, Z!AtLeast(1, pos.t))
           /\ pos' = [pos EXCEPT !.ip = @ + Z!AtLeast(1, pos.t), !.state = 4]
           /\ pc' = "op"
  <2>1. Z!InsideIn(pos.ip, pos.t + 3)
    <3>1. pos.t + 3 \in Nat
      BY <1>2
    <3> QED BY <1>4, <3>1, LzoTypes, LzoChecks DEF Z!Short
  <2>2. Z!InsideIn(pos.ip, pos.t)
    BY <1>2, <2>1, LzoTypes DEF Z!InsideIn
  <2>3. Z!op + pos.t <= dump.cap
    BY <1>2, <1>4, LzoChecks
  <2>4. Z!Literals(pos.t) \in Seq(Z!Octet) /\ Len(Z!Literals(pos.t)) = pos.t
    BY <1>2, <2>2, LzoLiterals
  <2>5. LzoOut'
    BY <1>1, <1>2, <1>4, <2>2, <2>3, <2>4, LzoWrites
  <2>6. pos' = [ip |-> pos.ip + pos.t, state |-> 4, t |-> pos.t, next |-> pos.next, m |-> pos.m, ver |-> pos.ver]
    BY <1>2, <1>4, LzoTypes, Zenon
  <2>7. pos' \in LzoPositions /\ pos'.ip + 3 <= Z!ip_end /\ pos'.ip <= Z!ip_end
    <3>1. pos.ip + pos.t \in Nat /\ pos.ip + pos.t + 3 <= Z!ip_end /\ pos.ip + pos.t <= Z!ip_end
      BY <1>2, <2>1, LzoTypes DEF Z!InsideIn
    <3> QED BY <2>6, <3>1, LzoTypes DEF LzoPositions
  <2>8. LzoRoom'
    BY <1>1, <1>4, <2>7 DEF LzoRoom
  <2> QED BY <1>1, <1>4, <2>5, <2>7, <2>8, LzoStep
<1> QED BY <1>3, <1>4 DEF Z!CopyRun

\* The bytes of an instruction and the distance of a near match.
LEMMA LzoParts ==
  ASSUME LzoInv, pc = "op"
  PROVE  \E t \in 0..255, b \in 0..255 : Z!T = t /\ Z!In(Z!At) = b
<1>1. pos.ip \in Nat /\ Z!At \in Nat
  BY LzoHere
<1> QED BY <1>1, LzoByte, Zenon DEF Z!T

\* Two bytes are copied from inside the text.
LEMMA LzoNearTwo == ASSUME LzoInv, Z!NearTwo PROVE LzoInv'
<1>1. UNCHANGED dump /\ Z!ip_end' = Z!ip_end /\ pc = "op"
  BY DEF Z!NearTwo, Z!Op, Z!ip_end
<1>2. PICK a \in Nat, e \in Nat, i \in Nat : Z!At = a /\ Z!ip_end = e /\ pos.ip = i /\ a = i + 1 /\ i + 3 <= e
  BY <1>1, LzoHere
<1>3. PICK t \in 0..255, b \in 0..255 : Z!T = t /\ Z!In(Z!At) = b
  BY <1>1, LzoParts, Zenon
<1>4. pos' = [ip |-> a + 1, state |-> pos.state, t |-> pos.t, next |-> t % 4, m |-> pos.m, ver |-> pos.ver]
  BY <1>2, <1>3, LzoTypes, Zenon DEF Z!NearTwo
<1>5. pos' \in LzoPositions /\ pos'.ip <= Z!ip_end /\ pos'.next \in 0..3
  <2>1. a + 1 \in Nat /\ a + 1 <= e /\ t % 4 \in 0..3 /\ t % 4 \in Nat
    BY <1>2
  <2> QED BY <1>2, <1>4, <2>1, LzoTypes DEF LzoPositions
<1>6. Z!InsideIn(pos.ip, 2)
  BY <1>2 DEF Z!InsideIn
<1>7. CASE \E what : Z!Stop(what, pos.ip, 2)
  BY <1>1, <1>5, <1>6, <1>7, LzoStops
<1>8. CASE Z!NearDist <= Z!op /\ Z!HAVE_OP(2) /\ Z!Writes(Z!Repeat(out.text, Z!NearDist, 2), pos.ip, 2) /\ pc' = "next"
  <2>1. PICK d \in Nat \ {0} : Z!NearDist = d
    <3>1. 1 + t \div 4 + 4 * b \in Nat \ {0}
      OBVIOUS
    <3> QED BY <1>3, <3>1 DEF Z!NearDist
  <2>2. PICK x \in Seq(Z!Octet) : out.text = x /\ d <= Len(x)
    BY <1>8, <2>1, LzoTypes DEF LzoOut, Z!op
  <2>3. PICK new \in Seq(Z!Octet) : Z!Repeat(out.text, d, 2) = out.text \o new /\ Len(new) = 2
    <3>1. 2 \in Nat
      OBVIOUS
    <3>2. \E new \in Seq(Z!Octet) : Z!Repeat(x, d, 2) = x \o new /\ Len(new) = 2
      BY <2>2, <3>1, LzoRepeats, Zenon
    <3> QED BY <2>2, <3>2, Zenon
  <2>4. Z!op + 2 <= dump.cap
    BY <1>8, LzoChecks
  <2>5. LzoOut'
    BY <1>1, <1>6, <1>8, <2>1, <2>3, <2>4, LzoWrites, Zenon
  <2>6. LzoRoom'
    BY <1>1, <1>5, <1>8 DEF LzoRoom
  <2> QED BY <1>1, <1>5, <1>8, <2>5, <2>6, LzoStep
<1> QED BY <1>7, <1>8 DEF Z!NearTwo

\* A match whose length and distance are known.
LEMMA LzoToMatch ==
  ASSUME LzoInv, UNCHANGED dump, NEW at, NEW n, Z!InsideIn(at, n), Z!Reads(at, n), pc' = "match",
         NEW ip \in Nat, ip <= Z!ip_end, NEW t \in Nat, t >= 3, NEW next \in 0..3, NEW dist \in Nat \ {0},
         pos' = [pos EXCEPT !.ip = ip, !.next = next, !.t = t, !.m = Z!op - dist]
  PROVE  LzoInv'
<1>1. LzoOut' /\ Z!op' = Z!op
  BY LzoReads
<1>2. pos' = [ip |-> ip, state |-> pos.state, t |-> t, next |-> next, m |-> Z!op - dist, ver |-> pos.ver]
  BY LzoTypes, Zenon
<1>3. Z!op - dist \in Int /\ Z!op - dist < Z!op /\ next \in Nat
  BY LzoTypes
<1>4. pos' \in LzoPositions
  BY <1>2, <1>3, LzoTypes DEF LzoPositions
<1>5. LzoRoom'
  BY <1>1, <1>2, <1>3 DEF LzoRoom, Z!ip_end
<1> QED BY <1>1, <1>4, <1>5, LzoStep

\* The distance of a match of three bytes.
LEMMA LzoBeyondThree == ASSUME Z!LzoAssumption, LzoInv, Z!BeyondThree PROVE LzoInv'
<1>1. UNCHANGED dump /\ Z!ip_end' = Z!ip_end /\ pc = "op" /\ pc' = "match" /\ Z!Reads(pos.ip, 2)
  BY DEF Z!BeyondThree, Z!Op, Z!ip_end
<1>2. PICK a \in Nat, e \in Nat, i \in Nat : Z!At = a /\ Z!ip_end = e /\ pos.ip = i /\ a = i + 1 /\ i + 3 <= e
  BY <1>1, LzoHere
<1>3. PICK t \in 0..255, b \in 0..255 : Z!T = t /\ Z!In(Z!At) = b
  BY <1>1, LzoParts, Zenon
<1>4. PICK d \in Nat \ {0} : M2_MAX_OFFSET + Z!NearDist = d
  <2>1. M2_MAX_OFFSET + (1 + t \div 4 + 4 * b) \in Nat \ {0}
    BY DEF Z!LzoAssumption
  <2> QED BY <1>3, <2>1 DEF Z!NearDist
<1>5. Z!InsideIn(pos.ip, 2) /\ a + 1 \in Nat /\ a + 1 <= Z!ip_end
  BY <1>2 DEF Z!InsideIn
<1>6. t % 4 \in 0..3 /\ 3 \in Nat /\ 3 >= 3
  OBVIOUS
<1>7. pos' = [pos EXCEPT !.ip = a + 1, !.next = t % 4, !.t = 3, !.m = Z!op - d]
  BY <1>2, <1>3, <1>4, Zenon DEF Z!BeyondThree
<1> QED BY <1>1, <1>5, <1>6, <1>7, LzoToMatch, Zenon

\* The length and the distance of a short match.
LEMMA LzoShortMatch == ASSUME LzoInv, Z!ShortMatch PROVE LzoInv'
<1>1. UNCHANGED dump /\ Z!ip_end' = Z!ip_end /\ pc = "op" /\ pc' = "match" /\ Z!Reads(pos.ip, 2) /\ Z!T \in 64..255
  BY DEF Z!ShortMatch, Z!Op, Z!ip_end, Z!T
<1>2. PICK a \in Nat, e \in Nat, i \in Nat : Z!At = a /\ Z!ip_end = e /\ pos.ip = i /\ a = i + 1 /\ i + 3 <= e
  BY <1>1, LzoHere
<1>3. PICK t \in 64..255, b \in 0..255 : Z!T = t /\ Z!In(Z!At) = b
  BY <1>1, LzoParts, Zenon
<1>4. PICK d \in Nat \ {0} : Z!ShortDist = d
  <2>1. 1 + ((t \div 4) % 8) + 8 * b \in Nat \ {0}
    OBVIOUS
  <2> QED BY <1>3, <2>1 DEF Z!ShortDist
<1>5. Z!InsideIn(pos.ip, 2) /\ a + 1 \in Nat /\ a + 1 <= Z!ip_end
  BY <1>2 DEF Z!InsideIn
<1>6. t % 4 \in 0..3 /\ t \div 32 + 1 \in Nat /\ t \div 32 + 1 >= 3
  OBVIOUS
<1>7. pos' = [pos EXCEPT !.ip = a + 1, !.next = t % 4, !.t = t \div 32 + 1, !.m = Z!op - d]
  BY <1>2, <1>3, <1>4 DEF Z!ShortMatch
<1> QED BY <1>1, <1>5, <1>6, <1>7, LzoToMatch, Zenon

\* What the two bytes of a distance are split into.
LEMMA DistanceParts ==
  ASSUME NEW j \in Nat, NEW n \in Nat, n >= 1, NEW w \in Nat
  PROVE  /\ j + 2 \in Nat /\ j >= 0 /\ n + 2 \in Nat /\ n + 2 >= 3
         /\ w % 4 \in 0..3 /\ w \div 4 \in Nat
  OBVIOUS

\* The length and the distance of a match whose length field is f.
LEMMA LzoDistance ==
  ASSUME LzoInv, pc = "op", NEW f \in Nat, NEW max \in Nat \ {0}, Z!MatchFails(f) = ""
  PROVE  \E j \in Nat, n \in Nat, w \in Nat :
           /\ Z!LengthIp(f) = j /\ Z!Length(f, max) = n /\ Z!Word(f) = w
           /\ j + 2 \in Nat /\ j + 2 <= Z!ip_end /\ n + 2 \in Nat /\ n + 2 >= 3 /\ w % 4 \in 0..3 /\ w \div 4 \in Nat
           /\ Z!InsideIn(j, 2)
<1>1. PICK j \in Nat, n \in Nat : Z!LengthIp(f) = j /\ Z!Length(f, max) = n /\ j + 2 <= Z!ip_end /\ n >= 1
  BY LzoLength, Zenon
<1>2. PICK w \in Nat : Z!Word(f) = w
  BY <1>1, LzoByte, Zenon DEF Z!Word
<1>3. /\ j + 2 \in Nat /\ j >= 0 /\ n + 2 \in Nat /\ n + 2 >= 3
      /\ w % 4 \in 0..3 /\ w \div 4 \in Nat
  BY <1>1, DistanceParts, Zenon
<1>4. Z!InsideIn(j, 2)
  BY <1>1, <1>3, Zenon DEF Z!InsideIn
<1> QED BY <1>1, <1>2, <1>3, <1>4, Zenon

\* The length and the distance of a middle match.
LEMMA LzoMidMatch == ASSUME LzoInv, Z!MidMatch PROVE LzoInv'
<1>1. UNCHANGED dump /\ Z!ip_end' = Z!ip_end /\ pc = "op"
  BY Zenon DEF Z!MidMatch, Z!Op, Z!ip_end
<1>2. PICK a \in Nat, e \in Nat, i \in Nat : Z!At = a /\ Z!ip_end = e /\ pos.ip = i /\ a = i + 1 /\ i + 3 <= e
  BY <1>1, LzoHere
<1>3. PICK f \in Nat : Z!T % 32 = f
  <2>1. PICK t \in 0..255 : Z!T = t
    BY <1>1, LzoParts, Zenon
  <2>2. t % 32 \in Nat
    OBVIOUS
  <2> QED BY <2>1, <2>2
<1>4. CASE \E what : Z!Stop(what, pos.ip, 2) /\ UNCHANGED pos
  <2>1. Z!InsideIn(pos.ip, 2)
    BY <1>2 DEF Z!InsideIn
  <2> QED BY <1>1, <1>4, <2>1, LzoTypes, LzoStops
<1>5. CASE /\ Z!MatchFails(f) = ""
           /\ pos' = [pos EXCEPT !.ip = Z!LengthIp(f) + 2, !.next = Z!Word(f) % 4,
                                 !.t = Z!Length(f, 31) + 2, !.m = Z!op - (1 + Z!Word(f) \div 4)]
           /\ Z!Reads(Z!LengthIp(f), 2)
           /\ pc' = "match"
  <2>1. 31 \in Nat \ {0}
    OBVIOUS
  <2>2. PICK j \in Nat, n \in Nat, w \in Nat :
           /\ Z!LengthIp(f) = j /\ Z!Length(f, 31) = n /\ Z!Word(f) = w
           /\ j + 2 \in Nat /\ j + 2 <= Z!ip_end /\ n + 2 \in Nat /\ n + 2 >= 3 /\ w % 4 \in 0..3 /\ w \div 4 \in Nat
           /\ Z!InsideIn(j, 2)
    BY <1>1, <1>5, <2>1, LzoDistance, Zenon
  <2>3. 1 + w \div 4 \in Nat \ {0}
    BY <2>2
  <2>4. pos' = [pos EXCEPT !.ip = j + 2, !.next = w % 4, !.t = n + 2, !.m = Z!op - (1 + w \div 4)]
    BY <1>5, <2>2, Zenon
  <2>5. Z!Reads(j, 2)
    BY <1>5, <2>2, Zenon
  <2>6. pc' = "match"
    BY <1>5, Zenon
  <2> QED BY <1>1, <2>2, <2>3, <2>4, <2>5, <2>6, LzoToMatch, Zenon
<1> QED BY <1>3, <1>4, <1>5, Zenon DEF Z!MidMatch

\* A run of zeroes fits the buffer.
LEMMA LzoZeroRun == ASSUME LzoInv, Z!ZeroRun PROVE LzoInv'
<1>1. UNCHANGED dump /\ Z!ip_end' = Z!ip_end /\ pc = "op"
  BY DEF Z!ZeroRun, Z!Op, Z!ip_end
<1>2. PICK a \in Nat, e \in Nat, i \in Nat : Z!At = a /\ Z!ip_end = e /\ pos.ip = i /\ a = i + 1 /\ i + 3 <= e
  BY <1>1, LzoHere
<1>3. PICK z \in Nat, x \in 0..3 : Z!ZeroLength = z /\ Z!In16(Z!At) % 4 = x
  <2>1. PICK t \in 0..255 : Z!T = t
    BY <1>1, LzoParts, Zenon
  <2>2. a + 2 \in Nat
    OBVIOUS
  <2>3. PICK b \in 0..255, w \in Nat : Z!In(Z!At + 2) = b /\ Z!In16(Z!At) = w
    BY <1>2, <2>2, LzoByte
  <2>4. (t % 8) + 8 * b + 4 \in Nat /\ w % 4 \in 0..3
    OBVIOUS
  <2> QED BY <2>1, <2>3, <2>4 DEF Z!ZeroLength, Z!MIN_ZERO_RUN_LENGTH
<1>4. CASE \E what : Z!Overrun(what)
  BY <1>1, <1>4, LzoOverruns
<1>5. CASE /\ Z!HAVE_IP(Z!At, 3) /\ Z!HAVE_OP(Z!ZeroLength)
           /\ Z!Writes(out.text \o [k \in 1..Z!ZeroLength |-> 0], pos.ip, 4)
           /\ pos' = [pos EXCEPT !.ip = Z!At + 3, !.next = Z!In16(Z!At) % 4]
           /\ pc' = "next"
  <2>1. a + 3 <= e
    <3>1. a <= e
      BY <1>2
    <3>2. Z!InsideIn(a, 3)
      BY <1>2, <1>5, <3>1, LzoChecks, Zenon
    <3> QED BY <1>2, <3>2 DEF Z!InsideIn
  <2>2. Z!InsideIn(pos.ip, 4)
    BY <1>2, <2>1 DEF Z!InsideIn
  <2>3. Z!op + z <= dump.cap
    BY <1>3, <1>5, LzoChecks
  <2>4. [k \in 1..z |-> 0] \in Seq(Z!Octet) /\ Len([k \in 1..z |-> 0]) = z
    BY DEF Z!Octet
  <2>5. Z!Writes(out.text \o [k \in 1..z |-> 0], pos.ip, 4)
    BY <1>3, <1>5
  <2>6. LzoOut'
    <3> DEFINE new == [k \in 1..z |-> 0]
    <3> HIDE DEF new
    <3> QED BY <1>1, <2>2, <2>3, <2>4, <2>5, LzoWrites DEF new
  <2>7. pos' = [ip |-> a + 3, state |-> pos.state, t |-> pos.t, next |-> x, m |-> pos.m, ver |-> pos.ver]
    BY <1>2, <1>3, <1>5, LzoTypes, Zenon
  <2>8. pos' \in LzoPositions /\ pos'.ip <= Z!ip_end /\ pos'.next \in 0..3
    <3>1. a + 3 \in Nat /\ x \in Nat
      OBVIOUS
    <3> QED BY <1>2, <2>1, <2>7, <3>1, LzoTypes DEF LzoPositions
  <2>9. LzoRoom'
    BY <1>1, <1>5, <2>8 DEF LzoRoom
  <2> QED BY <1>1, <1>5, <2>6, <2>8, <2>9, LzoStep
<1> QED BY <1>4, <1>5 DEF Z!ZeroRun

\* The length and the distance of a far match, or the end of the block.
LEMMA LzoFarMatch == ASSUME Z!LzoAssumption, LzoInv, Z!FarMatch PROVE LzoInv'
<1>1. UNCHANGED dump /\ Z!ip_end' = Z!ip_end /\ pc = "op"
  BY Zenon DEF Z!FarMatch, Z!Op, Z!ip_end
<1>2. PICK a \in Nat, e \in Nat, i \in Nat : Z!At = a /\ Z!ip_end = e /\ pos.ip = i /\ a = i + 1 /\ i + 3 <= e
  BY <1>1, LzoHere
<1>3. PICK f \in Nat : Z!T % 8 = f
  <2>1. PICK t \in 0..255 : Z!T = t
    BY <1>1, LzoParts, Zenon
  <2>2. t % 8 \in Nat
    OBVIOUS
  <2> QED BY <2>1, <2>2
<1>4. CASE \E what : Z!Overrun(what)
  BY <1>1, <1>4, LzoOverruns
<1>5. CASE \E what : Z!Stop(what, pos.ip, 3) /\ UNCHANGED pos
  <2>1. Z!InsideIn(pos.ip, 3)
    BY <1>2 DEF Z!InsideIn
  <2> QED BY <1>1, <1>5, <2>1, LzoTypes, LzoStops
<1>6. CASE /\ Z!MatchFails(f) = ""
           /\ pos' = [pos EXCEPT !.ip = Z!LengthIp(f) + 2, !.next = Z!Word(f) % 4,
                                 !.t = Z!Length(f, 7) + 2, !.m = Z!op - (Z!Back + Far)]
           /\ \/ \E what : Z!Stop(what, Z!LengthIp(f), 2)
              \/ Z!Reads(Z!LengthIp(f), 2) /\ pc' = "match"
  <2>1. 7 \in Nat \ {0}
    OBVIOUS
  <2>2. PICK j \in Nat, n \in Nat, w \in Nat :
           /\ Z!LengthIp(f) = j /\ Z!Length(f, 7) = n /\ Z!Word(f) = w
           /\ j + 2 \in Nat /\ j + 2 <= Z!ip_end /\ n + 2 \in Nat /\ n + 2 >= 3 /\ w % 4 \in 0..3 /\ w \div 4 \in Nat
           /\ Z!InsideIn(j, 2)
    BY <1>1, <1>6, <2>1, LzoDistance, Zenon
  <2>3. PICK d \in Nat \ {0} : Z!Back + Far = d
    <3>1. PICK q \in {0, Far} : (IF Z!T >= 24 THEN Far ELSE 0) = q
      OBVIOUS
    <3>2. PICK v \in Nat : w \div 4 = v
      BY <2>2
    <3>3. q + v + Far \in Nat \ {0}
      BY DEF Z!LzoAssumption
    <3> QED BY <1>3, <2>2, <3>1, <3>2, <3>3 DEF Z!Back
  <2>4. pos' = [pos EXCEPT !.ip = j + 2, !.next = w % 4, !.t = n + 2, !.m = Z!op - d]
    BY <1>6, <2>2, <2>3, Zenon
  <2>5. CASE \E what : Z!Stop(what, j, 2)
    <3>1. pos' = [ip |-> j + 2, state |-> pos.state, t |-> n + 2, next |-> w % 4, m |-> Z!op - d, ver |-> pos.ver]
      BY <2>4, LzoTypes, Zenon
    <3>2. Z!op - d \in Int /\ w % 4 \in Nat
      BY <2>2, LzoTypes
    <3>3. pos' \in LzoPositions /\ pos'.ip <= Z!ip_end
      BY <2>2, <3>1, <3>2, LzoTypes DEF LzoPositions
    <3> QED BY <1>1, <2>2, <2>5, <3>3, LzoStops
  <2>6. CASE Z!Reads(j, 2) /\ pc' = "match"
    BY <1>1, <2>2, <2>3, <2>4, <2>6, LzoToMatch, Zenon
  <2> QED BY <1>6, <2>2, <2>5, <2>6, Zenon
<1> QED BY <1>3, <1>4, <1>5, <1>6, Zenon DEF Z!FarMatch

\* A match is copied from inside the text and fits the buffer.
LEMMA LzoCopyMatch == ASSUME LzoInv, Z!CopyMatch PROVE LzoInv'
<1>1. UNCHANGED <<dump, pos>> /\ Z!ip_end' = Z!ip_end /\ pc = "match"
  BY DEF Z!CopyMatch, Z!ip_end
<1>2. /\ pos.t \in Nat /\ pos.t >= 3 /\ pos.m \in Int /\ pos.m < Z!op /\ Z!op \in Nat
      /\ pos.next \in 0..3 /\ pos \in LzoPositions /\ pos.ip <= Z!ip_end /\ Z!ip_end \in Nat
  BY <1>1, LzoTypes DEF LzoInv, LzoRoom
<1>3. Z!AtLeast(3, pos.t) = pos.t
  BY <1>2 DEF Z!AtLeast
<1>4. Z!InsideIn(0, 0)
  BY <1>2 DEF Z!InsideIn
<1>5. CASE \E what : Z!Stop(what, 0, 0)
  BY <1>1, <1>2, <1>4, <1>5, LzoStops
<1>6. CASE pos.m >= 0 /\ Z!HAVE_OP(pos.t) /\ Z!Writes(Z!Repeat(out.text, Z!op - pos.m, Z!AtLeast(3, pos.t)), 0, 0) /\ pc' = "next"
  <2>1. PICK d \in Nat \ {0} : Z!op - pos.m = d /\ d <= Z!op
    BY <1>2, <1>6
  <2>2. PICK x \in Seq(Z!Octet), t \in Nat : out.text = x /\ d <= Len(x) /\ pos.t = t
    BY <1>2, <2>1, LzoTypes DEF LzoOut, Z!op
  <2>3. PICK new \in Seq(Z!Octet) : Z!Repeat(out.text, d, pos.t) = out.text \o new /\ Len(new) = pos.t
    <3>1. \E new \in Seq(Z!Octet) : Z!Repeat(x, d, t) = x \o new /\ Len(new) = t
      BY <2>2, LzoRepeats, Zenon
    <3> QED BY <2>2, <3>1, Zenon
  <2>4. Z!op + pos.t <= dump.cap
    BY <1>2, <1>6, LzoChecks
  <2>5. LzoOut'
    BY <1>1, <1>3, <1>4, <1>6, <2>1, <2>3, <2>4, LzoWrites, Zenon
  <2>6. LzoRoom'
    BY <1>1, <1>2, <1>6 DEF LzoRoom
  <2> QED BY <1>1, <1>2, <1>6, <2>5, <2>6, LzoStep
<1> QED BY <1>5, <1>6 DEF Z!CopyMatch

\* The literals behind a match, which leave three bytes of the input.
LEMMA LzoMatchNext == ASSUME LzoInv, Z!MatchNext PROVE LzoInv'
<1>1. UNCHANGED dump /\ Z!ip_end' = Z!ip_end /\ pc = "next"
  BY DEF Z!MatchNext, Z!ip_end
<1>2. PICK n \in 0..3 : pos.next = n
  BY <1>1 DEF LzoInv, LzoRoom
<1>3. CASE \E what : Z!Overrun(what)
  BY <1>1, <1>3, LzoOverruns
<1>4. CASE /\ ~Z!Short(pos.next) /\ Z!HAVE_OP(pos.next)
           /\ Z!Writes(out.text \o Z!Literals(pos.next), pos.ip, pos.next)
           /\ pos' = [pos EXCEPT !.ip = @ + pos.next, !.state = pos.next]
           /\ pc' = "op"
  <2>0. n \in Nat /\ n + 3 \in Nat /\ n \in 0..4
    OBVIOUS
  <2>1. Z!InsideIn(pos.ip, n + 3)
    BY <1>2, <1>4, <2>0, LzoTypes, LzoChecks DEF Z!Short
  <2>2. Z!InsideIn(pos.ip, n)
    BY <2>0, <2>1, LzoTypes DEF Z!InsideIn
  <2>3. Z!op + n <= dump.cap
    BY <1>2, <1>4, <2>0, LzoChecks
  <2>4. Z!Literals(n) \in Seq(Z!Octet) /\ Len(Z!Literals(n)) = n
    BY <2>0, <2>2, LzoLiterals
  <2>5. LzoOut'
    BY <1>1, <1>2, <1>4, <2>2, <2>3, <2>4, LzoWrites
  <2>6. pos' = [ip |-> pos.ip + n, state |-> n, t |-> pos.t, next |-> pos.next, m |-> pos.m, ver |-> pos.ver]
    BY <1>2, <1>4, LzoTypes, Zenon
  <2>7. pos' \in LzoPositions /\ pos'.ip + 3 <= Z!ip_end /\ pos'.ip <= Z!ip_end
    <3>1. pos.ip + n \in Nat /\ pos.ip + n + 3 <= Z!ip_end /\ pos.ip + n <= Z!ip_end
      BY <2>0, <2>1, LzoTypes DEF Z!InsideIn
    <3> QED BY <2>0, <2>6, <3>1, LzoTypes DEF LzoPositions
  <2>8. LzoRoom'
    BY <1>1, <1>4, <2>7 DEF LzoRoom
  <2> QED BY <1>1, <1>4, <2>5, <2>7, <2>8, LzoStep
<1> QED BY <1>3, <1>4 DEF Z!MatchNext

\* Whatever the bytes replaced or cut off, the input is one of bytes.
LEMMA LzoInit == ASSUME Z!LzoAssumption, Z!Init PROVE LzoInv
<1>1. PICK b \in Programs, c \in BufSizes, ver \in BOOLEAN :
       \/ dump = [block |-> b, src |-> Z!Encode(b, ver), cap |-> c, ver |-> ver, intact |-> TRUE]
       \/ \E i \in 1..Len(Z!Encode(b, ver)), n \in {0, 1}, v \in Damage :
            dump = [block |-> b, src |-> Z!Replaced(Z!Encode(b, ver), i, n, v), cap |-> c, ver |-> ver, intact |-> FALSE]
       \/ \E n \in 0..Len(Z!Encode(b, ver)) - 1 :
            /\ Damage # {}
            /\ dump = [block |-> b, src |-> SubSeq(Z!Encode(b, ver), 1, n), cap |-> c, ver |-> ver, intact |-> FALSE]
  BY DEF Z!Init
<1> DEFINE code == Z!Encode(b, ver)
<1>2. code \in Seq(Z!Octet) /\ c \in Nat /\ Damage \subseteq Z!Octet
  BY DEF Z!LzoAssumption
<1> HIDE DEF code
<1>3. dump.src \in Seq(Z!Octet) /\ dump.cap \in Nat
  <2>1. CASE dump.src = code /\ dump.cap = c
    BY <1>2, <2>1
  <2>2. ASSUME NEW i \in 1..Len(code), NEW n \in {0, 1}, NEW v \in Damage,
               dump.src = Z!Replaced(code, i, n, v), dump.cap = c
        PROVE  dump.src \in Seq(Z!Octet) /\ dump.cap \in Nat
    <3>1. \A k \in 1..Len(code) : code[k] \in Z!Octet
      BY <1>2, ElementOf
    <3>2. \A k \in 1..Len(code) : (IF k \in i..i + n THEN v ELSE code[k]) \in Z!Octet
      BY <1>2, <3>1
    <3>3. Len(code) \in Nat
      BY <1>2
    <3> QED BY <1>2, <2>2, <3>2, <3>3 DEF Z!Replaced
  <2>3. ASSUME NEW n \in 0..Len(code) - 1, dump.src = SubSeq(code, 1, n), dump.cap = c
        PROVE  dump.src \in Seq(Z!Octet) /\ dump.cap \in Nat
    BY <1>2, <2>3
  <2>4. \/ dump.src = code /\ dump.cap = c
        \/ \E i \in 1..Len(code), n \in {0, 1}, v \in Damage : dump.src = Z!Replaced(code, i, n, v) /\ dump.cap = c
        \/ \E n \in 0..Len(code) - 1 : dump.src = SubSeq(code, 1, n) /\ dump.cap = c
    BY <1>1, SMTT(20) DEF code
  <2> QED BY <2>1, <2>2, <2>3, <2>4
<1>4. pc = "start" /\ pos = [ip |-> 0, state |-> 0, t |-> 0, next |-> 0, m |-> 0, ver |-> FALSE]
  BY DEF Z!Init
<1>5. LzoOut
  <2>1. out.text = <<>> /\ out.inside = TRUE /\ {"text", "ret", "inside"} \subseteq DOMAIN out
    BY DEF Z!Init
  <2>2. Z!op = 0 /\ <<>> \in Seq(Z!Octet)
    BY <2>1 DEF Z!op
  <2> QED BY <1>3, <2>1, <2>2 DEF LzoOut
<1>6. pos \in LzoPositions
  BY <1>4 DEF LzoPositions
<1>7. LzoRoom
  BY <1>3, <1>4 DEF LzoRoom, Z!ip_end
<1> QED BY <1>3, <1>4, <1>5, <1>6, <1>7 DEF LzoInv

\* lzo1x_decompress_safe on any input, intact or damaged, reads inside the input and
\* writes inside the page, for every block, capacity and damage.
THEOREM LzoStaysInside == ASSUME Z!LzoAssumption PROVE Z!Spec => []Z!DecodedInside
<1>1. Z!Init => LzoInv
  BY LzoInit
<1>2. LzoInv /\ [Z!Next]_(Z!vars) => LzoInv'
  <2> SUFFICES ASSUME LzoInv, [Z!Next]_(Z!vars) PROVE LzoInv'
    OBVIOUS
  <2>1. CASE UNCHANGED Z!vars
    BY <2>1 DEF Z!vars, LzoInv, LzoOut, LzoRoom, Z!ip_end, Z!op
  <2> QED BY <2>1, LzoBegin, LzoLiteralRun, LzoCopyRun, LzoNearTwo, LzoBeyondThree, LzoShortMatch, LzoMidMatch,
             LzoZeroRun, LzoFarMatch, LzoCopyMatch, LzoMatchNext DEF Z!Next
<1>3. LzoInv => Z!DecodedInside
  BY DEF LzoInv, LzoOut, LzoRoom, Z!DecodedInside
<1> QED BY <1>1, <1>2, <1>3, PTL DEF Z!Spec

=============================================================================
