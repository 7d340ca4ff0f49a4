------------------------------- MODULE Binder -------------------------------
(***************************************************************************)
(* binder -t, -p and -l (binder/binder.cpp): the transaction stack of each *)
(* binder thread, the works queued for each process and the log of         *)
(* transactions.  The driver's side is modelled as far as it builds these  *)
(* (calls, nested calls, replies, exits, in any order); the dump is taken  *)
(* at any moment.                                                          *)
(***************************************************************************)
EXTENDS Integers, Sequences, FiniteSets, SequencesExt, FiniteSetsExt

CONSTANTS
  BThreads,         \* binder threads, numbers above 0
  ProcOf,           \* thread -> its process
  LogSize,          \* entries of binder_transaction_log, 32 in the code
  MaxTransactions,  \* bound on the transactions
  MaxNodeWorks      \* bound on the node works queued at a time

VARIABLES dump, pc, pos, out
vars == <<dump, pc, pos, out>>

Procs == {ProcOf[th] : th \in BThreads}
None == 0

\* tr: the transactions; stack: transaction_stack of each thread; todo: the works
\* of each process, transaction numbers or 0 for a node work; cur, full, log: the
\* ring of the log; frames: what each thread is in the middle of, oldest first,
\* as the processes themselves see it (not in the dump).
Init ==
  /\ dump = [tr |-> <<>>, stack |-> [th \in BThreads |-> None], todo |-> [p \in Procs |-> <<>>],
             cur |-> -1, full |-> FALSE, log |-> [i \in 0..(LogSize - 1) |-> None],
             frames |-> [th \in BThreads |-> <<>>], exited |-> {}]
  /\ pc = "live"
  /\ pos = [todo |-> {}, thread |-> None, t |-> None]
  /\ out = [stacks |-> [th \in BThreads |-> <<>>], works |-> [p \in Procs |-> <<>>], log |-> <<>>]

-----------------------------------------------------------------------------
\* The driver, as far as the plugin sees it

Logged(id) ==
  LET next == dump.cur + 1
  IN  [dump EXCEPT !.cur = next, !.full = @ \/ next >= LogSize, !.log[next % LogSize] = id]

Waiting(th) == dump.stack[th] # None /\ dump.tr[dump.stack[th]].from = th
Alive == BThreads \ dump.exited

\* The thread of process p that waits further up the chain of calls of th.
Chain(th, p) ==
  {x \in Alive : /\ ProcOf[x] = p
                 /\ \E i \in DOMAIN dump.frames[th] :
                      dump.frames[th][i].dir = "incoming" /\ dump.tr[dump.frames[th][i].t].from = x}

Call(th, p) ==
  /\ th \in Alive /\ p # ProcOf[th] /\ ~Waiting(th)
  /\ Len(dump.tr) < MaxTransactions
  /\ LET id == Len(dump.tr) + 1
         to == IF Chain(th, p) = {} THEN None ELSE CHOOSE x \in Chain(th, p) : TRUE
         t == [from |-> th, from_parent |-> dump.stack[th], to_proc |-> p, to_thread |-> to, to_parent |-> None,
               queued |-> TRUE]
     IN  dump' = [Logged(id) EXCEPT !.tr = Append(@, t), !.stack[th] = id,
                    !.todo[p] = IF to = None THEN Append(@, id) ELSE @,
                    !.frames[th] = Append(@, [dir |-> "outgoing", t |-> id])]

Receive(th, id) ==
  /\ th \in Alive /\ dump.tr[id].queued
  /\ dump.tr[id].to_thread = th \/ (dump.todo[ProcOf[th]] # <<>> /\ Head(dump.todo[ProcOf[th]]) = id /\ dump.stack[th] = None)
  /\ dump' = [dump EXCEPT !.tr[id].to_thread = th, !.tr[id].to_parent = dump.stack[th], !.tr[id].queued = FALSE,
                !.stack[th] = id, !.todo[ProcOf[th]] = SelectSeq(@, LAMBDA w : w # id),
                !.frames[th] = Append(@, [dir |-> "incoming", t |-> id])]

\* The callee's frame ends, and the caller's if it is still there.
Popped(d, th, id) ==
  LET from == d.tr[id].from
      own == [d EXCEPT !.stack[th] = d.tr[id].to_parent, !.frames[th] = Front(@)]
  IN  IF from = None THEN own
      ELSE [own EXCEPT !.stack[from] = d.tr[id].from_parent, !.frames[from] = Front(@)]

Reply(th) ==
  /\ th \in Alive /\ dump.stack[th] # None /\ ~Waiting(th)
  /\ dump' = Popped(Logged(dump.stack[th]), th, dump.stack[th])

\* A thread exits: its frames are cut off, a call it was serving fails.
Exit(th) ==
  /\ th \in Alive
  /\ \A id \in DOMAIN dump.tr : ~(dump.tr[id].queued /\ dump.tr[id].to_thread = th)
  /\ LET top == dump.stack[th]
         cut == IF top # None /\ ~Waiting(th) THEN Popped(dump, th, top) ELSE dump
         mine == {cut.frames[th][i].t : i \in DOMAIN cut.frames[th]}
         Cut(id) ==
           IF id \notin mine \cup {top} THEN cut.tr[id]
           ELSE IF cut.tr[id].to_thread = th THEN [cut.tr[id] EXCEPT !.to_thread = None, !.to_proc = None]
           ELSE [cut.tr[id] EXCEPT !.from = None]
     IN  dump' = [cut EXCEPT !.tr = [id \in DOMAIN @ |-> Cut(id)], !.stack[th] = None,
                    !.frames[th] = <<>>, !.exited = @ \cup {th}]

NodeWork(p) ==
  /\ \A q \in Procs : Len(SelectSeq(dump.todo[q], LAMBDA w : w = None)) < MaxNodeWorks
  /\ dump' = [dump EXCEPT !.todo[p] = Append(@, None)]

TakeNodeWork(p) ==
  /\ dump.todo[p] # <<>> /\ Head(dump.todo[p]) = None
  /\ dump' = [dump EXCEPT !.todo[p] = Tail(@)]

Driver ==
  /\ pc = "live"
  /\ \/ \E th \in BThreads, p \in Procs : Call(th, p)
     \/ \E th \in BThreads, id \in DOMAIN dump.tr : Receive(th, id)
     \/ \E th \in BThreads : Reply(th) \/ Exit(th)
     \/ \E p \in Procs : NodeWork(p) \/ TakeNodeWork(p)
  /\ UNCHANGED <<pc, pos, out>>

\* The machine crashes, and a command starts.
Crash ==
  /\ pc = "live"
  /\ pc' = "procs"
  /\ pos' = [pos EXCEPT !.todo = Alive]
  /\ UNCHANGED <<dump, out>>

-----------------------------------------------------------------------------
\* The plugin

\* print_binder_transaction_ilocked returns without a line when the transaction
\* has no process or no thread to go to.
Shown(id) == dump.tr[id].to_proc # None /\ dump.tr[id].to_thread # None
Line(label, id) == IF Shown(id) THEN <<[dir |-> label, t |-> id]>> ELSE <<>>

\* print_binder_thread_ilocked, for the threads in the order of their tree
StartThread ==
  /\ pc = "procs" /\ pos.todo # {}
  /\ LET th == Min(pos.todo)
     IN  pos' = [todo |-> pos.todo \ {th}, thread |-> th, t |-> dump.stack[th]]
  /\ pc' = "stack"
  /\ UNCHANGED <<dump, out>>

Emit(label, next) ==
  /\ out' = [out EXCEPT !.stacks[pos.thread] = @ \o Line(label, pos.t)]
  /\ pos' = [pos EXCEPT !.t = next]

\* Mutant: the parent of the caller is followed whichever side the thread is on.
WalkStackFrom ==
  /\ pc = "stack" /\ pos.t # None
  /\ LET t == dump.tr[pos.t]
     IN  \/ t.from = pos.thread /\ Emit("outgoing", t.from_parent)
         \/ t.from # pos.thread /\ t.to_thread = pos.thread /\ Emit("incoming", t.from_parent)
         \/ t.from # pos.thread /\ t.to_thread # pos.thread /\ Emit("bad", None)
  /\ UNCHANGED <<dump, pc>>

\* One turn of its loop
WalkStack ==
  /\ pc = "stack" /\ pos.t # None
  /\ LET t == dump.tr[pos.t]
     IN  \/ t.from = pos.thread /\ Emit("outgoing", t.from_parent)
         \/ t.from # pos.thread /\ t.to_thread = pos.thread /\ Emit("incoming", t.to_parent)
         \/ t.from # pos.thread /\ t.to_thread # pos.thread /\ Emit("bad", None)
  /\ UNCHANGED <<dump, pc>>

EndStack ==
  /\ pc = "stack" /\ pos.t = None
  /\ pc' = "procs"
  /\ UNCHANGED <<dump, pos, out>>

\* for_each_list is given todo.next instead of the address of todo: the list that
\* starts behind the first work and ends with the head of the list itself, which
\* is printed as a work (-1).
TodoSeen(p) == IF dump.todo[p] = <<>> THEN <<>> ELSE Append(Tail(dump.todo[p]), -1)

\* print_binder_work_ilocked
WorksOf(p) == SelectSeq(TodoSeen(p), LAMBDA w : w <= 0 \/ Shown(w))

\* print_binder_transaction_log_entry
LogCount == IF dump.full THEN LogSize ELSE dump.cur
LogLines == SelectSeq([i \in 1..LogCount |-> dump.log[i - 1]], LAMBDA id : id > 0)

PrintWorks ==
  /\ pc = "procs" /\ pos.todo = {}
  /\ out' = [out EXCEPT !.works = [p \in Procs |-> WorksOf(p)], !.log = LogLines]
  /\ pc' = "done"
  /\ UNCHANGED <<dump, pos>>

Next == Driver \/ Crash \/ StartThread \/ WalkStack \/ EndStack \/ PrintWorks

Spec == Init /\ [][Next]_vars

-----------------------------------------------------------------------------

\* For every thread alive in the dump, the stack printed is what the thread is in
\* the middle of, newest first and each in its direction, except for the calls
\* nobody has received (or whose receiver exited); no transaction is "bad",
\* whoever called back, replied or exited in whatever order.
StacksExact ==
  pc = "done" =>
    \A th \in Alive : out.stacks[th] = SelectSeq(Reverse(dump.frames[th]), LAMBDA f : Shown(f.t))

\* No transaction is ever printed as "pending transaction": one that waits in the
\* queue of a process has no thread yet, whatever was received or exited before.
PendingHidden ==
  pc = "done" => \A p \in Procs : \A w \in Range(out.works[p]) : w <= 0

\* The log printed has every transaction the ring still holds, except that the
\* newest is left out until the ring has wrapped; before that it is in order.
LogExact ==
  pc = "done" =>
    IF dump.full THEN Range(out.log) = Range(dump.log) /\ Len(out.log) = LogSize
    ELSE out.log = [i \in 1..dump.cur |-> dump.log[i - 1]]

=============================================================================
