----------------------------- MODULE ZspageWalk -----------------------------
(***************************************************************************)
(* The objects of one zspage (memory/zraminfo.cpp), seen twice: parser_obj *)
(* lists them page by page for zram -o, and read_object computes from the  *)
(* index in a handle where the bytes of one object are.  Objects lie one   *)
(* behind the other and may cross from one page of the zspage into the     *)
(* next.  Pages are numbered by their place in the zspage, and addresses   *)
(* are offsets in a page.                                                  *)
(***************************************************************************)
EXTENDS Integers

CONSTANTS
  PageSize,  \* page_size
  Sizes,     \* the values of size_class.size of this instance
  MaxPages   \* bound on size_class.pages_per_zspage

ASSUME SizesAssumption ==
  /\ PageSize \in Nat \ {0}
  /\ Sizes \subseteq 1..PageSize
  /\ MaxPages \in Nat \ {0}

VARIABLES
  size,              \* size_class.size
  pages_per_zspage,  \* size_class.pages_per_zspage
  units,             \* page.units: the offset of the first object of a page
  chain,             \* the number of pages the chain of page.freelist links
  pc,
  page,              \* the page being parsed
  obj_start,         \* offset of the next object in it
  obj_index,         \* zspage_ptr->obj_index
  objs               \* the zobjs listed, over all pages

class == <<size, pages_per_zspage, units, chain>>
vars == <<class, pc, page, obj_start, obj_index, objs>>

objs_per_zspage == (pages_per_zspage * PageSize) \div size
Huge == objs_per_zspage = 1 /\ pages_per_zspage = 1

\* zsmalloc puts objects one behind the other: the first one that begins in
\* page p begins less than an object behind the start of the page.
UnitsOf(s, p, u) == u \in 0..(s - 1) /\ \E m \in 0..(p * PageSize + s) : p * PageSize + u = s * m

Init ==
  /\ size \in Sizes
  /\ pages_per_zspage \in 1..MaxPages
  /\ units \in [0..(pages_per_zspage - 1) -> 0..(size - 1)]
  /\ \A p \in DOMAIN units : UnitsOf(size, p, units[p])
  /\ chain \in 0..pages_per_zspage
  /\ pc = "parser_pages"
  /\ page = 0
  /\ obj_start = 0
  /\ obj_index = 0
  /\ objs = {}

Zobj(end) == [id |-> obj_index, page |-> page, start |-> obj_start, end |-> end]

\* Mutant: page.units is not used.
ParserPagesNoUnits ==
  /\ pc = "parser_pages"
  /\ IF page = chain
     THEN pc' = "done" /\ UNCHANGED obj_start
     ELSE /\ pc' = IF Huge THEN "huge" ELSE "parser_obj"
          /\ obj_start' = 0
  /\ UNCHANGED <<class, page, obj_index, objs>>

\* The head of the loop of parser_pages, and of parser_obj(page_addr, ...).
ParserPages ==
  /\ pc = "parser_pages"
  /\ IF page = chain
     THEN pc' = "done" /\ UNCHANGED obj_start
     ELSE /\ pc' = IF Huge THEN "huge" ELSE "parser_obj"
          /\ obj_start' = IF Huge THEN 0 ELSE units[page]
  /\ UNCHANGED <<class, page, obj_index, objs>>

\* An object that ends before the page does.
WholeObj ==
  /\ pc = "parser_obj"
  /\ obj_start + size < PageSize
  /\ objs' = objs \cup {Zobj(obj_start + size)}
  /\ obj_index' = obj_index + 1
  /\ obj_start' = obj_start + size
  /\ UNCHANGED <<class, pc, page>>

\* Mutant: an object that crosses into the next page is not listed.
LastObjOnlyWhole ==
  /\ \/ pc = "parser_obj" /\ obj_start + size >= PageSize
     \/ pc = "huge"
  /\ objs' = IF obj_start + size > PageSize THEN objs ELSE objs \cup {Zobj(PageSize)}
  /\ obj_index' = obj_index + 1
  /\ page' = page + 1
  /\ pc' = "parser_pages"
  /\ UNCHANGED <<class, obj_start>>

\* The last object of a page is cut at the end of the page; the only object
\* of a huge class is the page.
LastObj ==
  /\ \/ pc = "parser_obj" /\ obj_start + size >= PageSize
     \/ pc = "huge"
  /\ objs' = objs \cup {Zobj(PageSize)}
  /\ obj_index' = obj_index + 1
  /\ page' = page + 1
  /\ pc' = "parser_pages"
  /\ UNCHANGED <<class, obj_start>>

Next == ParserPages \/ WholeObj \/ LastObj

Spec == Init /\ [][Next]_vars /\ WF_vars(Next)

-----------------------------------------------------------------------------

\* handle_to_location: the page and the index in it that zsmalloc encoded.
PageOf(obj_idx) == (size * obj_idx) \div PageSize

\* Mutant: the second piece is as long as the first leaves of the page.
PiecesWrongRest(obj_idx) ==
  LET offset == (size * obj_idx) % PageSize
  IN  IF offset + size <= PageSize
      THEN {<<PageOf(obj_idx), offset, size>>}
      ELSE {<<PageOf(obj_idx), offset, PageSize - offset>>,
            <<PageOf(obj_idx) + 1, 0, PageSize - size>>}

\* read_object: the pieces <<page, offset, length>> it copies, in order.
Pieces(obj_idx) ==
  LET offset == (size * obj_idx) % PageSize
  IN  IF offset + size <= PageSize
      THEN {<<PageOf(obj_idx), offset, size>>}
      ELSE {<<PageOf(obj_idx), offset, PageSize - offset>>,
            <<PageOf(obj_idx) + 1, 0, size - (PageSize - offset)>>}

\* The bytes of those pieces, as offsets in the zspage.
BytesRead(obj_idx) ==
  UNION {(x[1] * PageSize + x[2])..(x[1] * PageSize + x[2] + x[3] - 1) : x \in Pieces(obj_idx)}

TypeOK ==
  /\ size \in 1..PageSize
  /\ pages_per_zspage \in Nat \ {0}
  /\ units \in [0..(pages_per_zspage - 1) -> 0..(size - 1)]
  /\ chain \in 0..pages_per_zspage
  /\ pc \in {"parser_pages", "parser_obj", "huge", "done"}
  /\ page \in 0..chain
  /\ pc \in {"parser_obj", "huge"} => page < chain
  /\ obj_start \in 0..(PageSize - 1)
  /\ obj_index \in Nat
  /\ objs \subseteq [id: Nat, page: 0..(chain - 1), start: 0..(PageSize - 1), end: 0..PageSize]

\* The two views agree: an object that zram -o lists under id is listed at the
\* page and offset where read_object begins to read the object of that index,
\* across all pages of the zspage and their cut objects.
ListedWhereRead ==
  \A o \in objs : o.page * PageSize + o.start = size * o.id

\* read_object copies the size bytes of the object, all of them in the zspage,
\* whether it lies in one page or in two.
ReadsWholeObject ==
  \A o \in objs : o.id < objs_per_zspage =>
    /\ BytesRead(o.id) = (size * o.id)..(size * o.id + size - 1)
    /\ \A x \in Pieces(o.id) : x[1] < pages_per_zspage /\ x[2] + x[3] <= PageSize
    /\ \E x \in Pieces(o.id) : x[1] = o.page /\ x[2] = o.start

\* A walk of an unbroken chain lists every object of the zspage once, and at
\* most one more: the unused tail of the last page.
ListingComplete ==
  pc = "done" /\ chain = pages_per_zspage =>
    /\ \A i \in 0..(objs_per_zspage - 1) : \E o \in objs : o.id = i
    /\ \A o, r \in objs : o.id = r.id => o = r
    /\ obj_index \in {objs_per_zspage, objs_per_zspage + 1}

\* Every object is listed, and read whole.
ObjectsExact == ReadsWholeObject /\ ListingComplete

=============================================================================
