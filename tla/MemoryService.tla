---------------------------- MODULE MemoryService ----------------------------
(***************************************************************************)
(* What uread_memory promises the commands that read the memory of a task: *)
(* the bytes the task had, at once, from one and the same set of pages for *)
(* the whole session.  This set is every page the dump has, unless the     *)
(* user interrupts commands; then pages in zram may be missing from it,    *)
(* always the same ones.                                                   *)
(***************************************************************************)
EXTENDS Integers

CONSTANTS
  PageSize,
  NPages,
  MaxLen,
  Byte,
  Zero         \* the byte at an address that has no data

VARIABLES
  memory,      \* where each page is, and its bytes
  interrupts,  \* does the user of this session interrupt commands?
  known,       \* {} or {the pages the answers of this session are made from}
  status,
  req,         \* first page, offset in it and length
  answer

vars == <<memory, interrupts, known, status, req, answer>>

Page == 0..(NPages - 1)
Offset == 0..(PageSize - 1)
NoAnswer == [i \in {} |-> Zero]

InDump == {p \in Page : memory[p].at # "nowhere"}
Resident == {p \in Page : memory[p].at = "memory"}

\* The sets of pages a session may settle on.
Choices == {v \in SUBSET InDump : Resident \subseteq v /\ (interrupts \/ v = InDump)}

Init ==
  /\ memory \in [Page -> [at : {"memory", "zram", "nowhere"}, bytes : [Offset -> Byte]]]
  /\ interrupts \in BOOLEAN
  /\ known \in {{}, {InDump}}
  /\ status = "idle"
  /\ req = <<0, 0, 0>>
  /\ answer = NoAnswer

Ask ==
  /\ status \in {"idle", "answered"}
  /\ status' = "busy"
  /\ req' \in (0..NPages) \X Offset \X (0..MaxLen)
  /\ answer' = NoAnswer
  /\ UNCHANGED <<memory, interrupts, known>>

Settle ==
  /\ status = "busy"
  /\ known = {}
  /\ \E v \in Choices : known' = {v}
  /\ UNCHANGED <<memory, interrupts, status, req, answer>>

PageAt(i) == req[1] + ((req[2] + i) \div PageSize)
OffsetAt(i) == (req[2] + i) % PageSize

\* All of the range at once; nothing has to be known for an empty one.
Answer ==
  /\ status = "busy"
  /\ req[3] = 0 \/ known # {}
  /\ status' = "answered"
  /\ answer' = [i \in 0..(req[3] - 1) |->
                  IF PageAt(i) \in UNION known THEN memory[PageAt(i)].bytes[OffsetAt(i)] ELSE Zero]
  /\ UNCHANGED <<memory, interrupts, known, req>>

Abandon ==
  /\ interrupts
  /\ status = "busy"
  /\ status' = "idle"
  /\ req' = <<0, 0, 0>>
  /\ answer' = NoAnswer
  /\ \/ known' = known
     \/ known = {} /\ \E v \in Choices : known' = {v}
  /\ UNCHANGED <<memory, interrupts>>

Next == Ask \/ Settle \/ Answer \/ Abandon

Safe == Init /\ [][Next]_vars

\* A question is answered or abandoned.
Responds == status = "busy" ~> status # "busy"

Spec == Safe /\ Responds

=============================================================================
