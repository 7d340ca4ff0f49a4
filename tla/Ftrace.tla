------------------------------- MODULE Ftrace -------------------------------
(***************************************************************************)
(* ftrace: the pages of a ring buffer in their order (Ring), the records   *)
(* of a page (Page), and the file of ftrace -d (File).  The three are      *)
(* state machines of their own over the same variables.                    *)
(***************************************************************************)
EXTENDS Integers, Sequences, FiniteSets, SequencesExt, FiniteSetsExt

CONSTANTS   \* Ring
  MaxPages,      \* bound on nr_pages
  MaxTraceCmds   \* bound on the commands of a session

CONSTANTS   \* Page
  MaxRecords,  \* bound on the records of a page
  DeltaBits,   \* the bits of time_delta, 27 in the code
  UintBits,    \* the bits of unsigned int, 32 in the code
  Highs        \* the upper parts of time extensions

CONSTANTS   \* File
  PageSize,    \* page_size
  NrCpus,      \* nr_cpu_ids, and cpus of every trace buffer
  MaxData,     \* bound on the data pages of a cpu
  HeadSizes,   \* sizes of the sections of text before the options
  Systems      \* names of event systems other than "ftrace"

VARIABLES dump, pc, pos, out
vars == <<dump, pc, pos, out>>

-----------------------------------------------------------------------------
(***************************************************************************)
(* ftrace -a, -c and -s (ftrace/ftrace.cpp): finding the pages with data   *)
(* in the ring buffer of each cpu, from the oldest to the newest, and      *)
(* printing the events of all rings in one order.                          *)
(*                                                                         *)
(* The pages of a ring are 0..nr_pages-1 in list order, page 0 being the   *)
(* one ring_buffer_per_cpu.pages points to; the reader page is not in the  *)
(* list.  Every page with data holds one event here, whose time is the age *)
(* of the page (what is in a page is the subject of the second part).      *)
(***************************************************************************)

\* Two ring buffers: the name of their trace array and their cpu.
Rings == <<[name |-> "global", cpu |-> 0], [name |-> "usb", cpu |-> 1]>>
Reader == -1

\* A ring buffer: its head page, the page last written to, whether the reader
\* page has data (buffer_page_has_data), and where the head is recorded: in the flag bits of the
\* pointer to it (head_page is then out of date), or only in head_page.
RingBuffers ==
  {r \in [nr_pages : 1..MaxPages, head : 0..(MaxPages - 1), commit : Reader..(MaxPages - 1),
          real_end : BOOLEAN, flagged : BOOLEAN, head_page : 0..(MaxPages - 1)] :
     /\ r.head < r.nr_pages /\ r.commit < r.nr_pages
     /\ r.head_page = IF r.flagged THEN 0 ELSE r.head}

InitRing ==
  /\ dump \in [1..Len(Rings) -> RingBuffers]
  /\ pc = "parser_ftrace_trace_arrays"
  /\ pos = [ring |-> 1, page |-> 0, real_head_page |-> dump[1].head_page]
  /\ out = [data_pages |-> <<>>, trace_logs |-> <<>>, printed |-> <<>>, cmds |-> 0, arg |-> [all |-> TRUE]]

Ring == dump[pos.ring]

\* One turn of the loop of parser_ring_buffer_per_cpu that lists the pages:
\* the pointer to the next page is flagged when that page is the head.
ReadBufferPage ==
  LET next == (pos.page + 1) % Ring.nr_pages IN
  /\ pc = "parser_ftrace_trace_arrays"
  /\ IF pos.page < Ring.nr_pages
     THEN /\ pos' = [pos EXCEPT !.page = @ + 1,
                       !.real_head_page = IF Ring.flagged /\ next = Ring.head THEN next ELSE @]
          /\ UNCHANGED pc
     ELSE pc' = "data_pages" /\ UNCHANGED pos
  /\ UNCHANGED <<dump, out>>

\* Mutant: the list of pages ends at the end of the array.
DataPagesNoWrap(r, head) ==
  LET back == IF r.commit >= head THEN r.commit - head ELSE r.nr_pages - 1 - head IN
  (IF r.real_end THEN <<Reader>> ELSE <<>>)
  \o (IF r.commit = Reader THEN <<>> ELSE [i \in 1..(back + 1) |-> head + i - 1])

\* The pages from the head to the commit page, or all of them when the commit
\* page is not met, behind the reader page.
DataPages(r, head) ==
  LET dist == (r.commit - head) % r.nr_pages IN
  (IF r.real_end THEN <<Reader>> ELSE <<>>)
  \o (IF r.commit = Reader THEN <<>> ELSE [i \in 1..(dist + 1) |-> (head + i - 1) % r.nr_pages])

\* The rest of parser_ring_buffer_per_cpu, and the next ring.
RingDone ==
  /\ pc = "data_pages"
  /\ out' = [out EXCEPT !.data_pages = Append(@, DataPages(Ring, pos.real_head_page))]
  /\ IF pos.ring < Len(Rings)
     THEN /\ pc' = "parser_ftrace_trace_arrays"
          /\ pos' = [ring |-> pos.ring + 1, page |-> 0, real_head_page |-> dump[pos.ring + 1].head_page]
     ELSE pc' = "idle" /\ UNCHANGED pos
  /\ UNCHANGED dump

\* The event in a page, with the time the kernel gave it.
Age(r, p) == IF p = Reader THEN 0 ELSE 1 + ((p - r.head) % r.nr_pages)
EventIn(i, p) == [ring |-> i, page |-> p, time |-> 2 * Age(dump[i], p) + i]

\* print_trace_log(): everything, print_trace_log(cpu), print_trace_log(name).
Commands == {[all |-> TRUE]} \cup {[cpu |-> Rings[i].cpu] : i \in 1..Len(Rings)}
                             \cup {[name |-> Rings[i].name] : i \in 1..Len(Rings)}
Matches(arg, e) ==
  \/ "all" \in DOMAIN arg
  \/ "cpu" \in DOMAIN arg /\ arg.cpu = Rings[e.ring].cpu
  \/ "name" \in DOMAIN arg /\ arg.name = Rings[e.ring].name

CmdMain(arg) ==
  /\ pc = "idle" /\ out.cmds < MaxTraceCmds
  /\ out' = [out EXCEPT !.cmds = @ + 1, !.arg = arg]
  /\ pc' = IF out.trace_logs = <<>> THEN "parse_buffer_page" ELSE "print"
  /\ pos' = [ring |-> 1, page |-> 1, real_head_page |-> 0]
  /\ UNCHANGED dump

\* parse_buffer_page for the next page of data_pages.
ParseBufferPage ==
  LET pages == out.data_pages[pos.ring] IN
  /\ pc = "parse_buffer_page"
  /\ IF pos.page <= Len(pages)
     THEN /\ out' = [out EXCEPT !.trace_logs = Append(@, EventIn(pos.ring, pages[pos.page]))]
          /\ pos' = [pos EXCEPT !.page = @ + 1]
          /\ UNCHANGED pc
     ELSE /\ IF pos.ring < Len(Rings)
             THEN pos' = [pos EXCEPT !.ring = @ + 1, !.page = 1] /\ UNCHANGED pc
             ELSE pc' = "sort" /\ UNCHANGED pos
          /\ UNCHANGED out
  /\ UNCHANGED dump

\* std::sort by timestamp, the newest first.
SortLogs ==
  LET logs == out.trace_logs
      newer(i) == {j \in 1..Len(logs) : logs[j].time > logs[i].time}
  IN
  /\ pc = "sort"
  /\ pc' = "print"
  /\ out' = [out EXCEPT !.trace_logs =
               [k \in 1..Len(logs) |-> logs[CHOOSE i \in 1..Len(logs) : Cardinality(newer(i)) = k - 1]]]
  /\ UNCHANGED <<dump, pos>>

PrintTraceLog ==
  /\ pc = "print"
  /\ pc' = "idle"
  /\ out' = [out EXCEPT !.printed = SelectSeq(out.trace_logs, LAMBDA e : Matches(out.arg, e))]
  /\ UNCHANGED <<dump, pos>>

NextRing ==
  \/ ReadBufferPage \/ RingDone
  \/ \E arg \in Commands : CmdMain(arg)
  \/ ParseBufferPage \/ SortLogs \/ PrintTraceLog

SpecRing == InitRing /\ [][NextRing]_vars

-----------------------------------------------------------------------------

\* The pages of ring i that hold committed data: those the writer has been to
\* since the page became the head.
Committed(i) ==
  LET r == dump[i] IN
  {p \in 0..(r.nr_pages - 1) : r.commit # Reader /\ Age(r, p) <= Age(r, r.commit)}
  \cup (IF r.real_end THEN {Reader} ELSE {})

\* Each command prints the events of every page with data in the rings it asks
\* for, each once, from the newest to the oldest, wherever head and commit page
\* are in the list and whether or not the head is flagged.
TraceExact ==
  pc = "idle" /\ out.cmds > 0 =>
    /\ \A i \in 1..(Len(out.printed) - 1) : out.printed[i].time > out.printed[i + 1].time
    /\ {out.printed[i] : i \in 1..Len(out.printed)} =
         {e \in UNION {{EventIn(i, p) : p \in Committed(i)} : i \in 1..Len(Rings)} :
            Matches(out.arg, e)}

-----------------------------------------------------------------------------
(***************************************************************************)
(* parse_buffer_page (ftrace/ftrace.cpp): cutting a page of a trace ring   *)
(* buffer into events and computing their times from the time of the page  *)
(* and the deltas.                                                         *)
(*                                                                         *)
(* A page is a sequence of records [kind, words, delta, high]: words is    *)
(* the length of the record in units of 4 bytes, high the upper part of a  *)
(* time extension.  Addresses are in the same units.                       *)
(***************************************************************************)

Deltas == {0, 1, 2^DeltaBits - 1}

\* offsetof(buffer_data_page, data) in words
DataOffset == 4

\* The records the kernel writes: data of one or two words behind the header;
\* data of a length that needs a word of its own (type_len 0); a discarded
\* record (also the unused rest of a full page) and the one-word padding at the
\* end of a page; time extensions and absolute time stamps.  known: the event
\* type is in event_maps and the pid is at most pid_max.
Records ==
  [kind : {"data"}, words : {2, 3}, delta : Deltas, high : {0}, known : BOOLEAN]
  \cup [kind : {"large"}, words : {4}, delta : {1}, high : {0}, known : {TRUE}]
  \cup [kind : {"discarded"}, words : {2, 4}, delta : {1}, high : {0}, known : {FALSE}]
  \cup [kind : {"padding"}, words : {1}, delta : {0}, high : {0}, known : {FALSE}]
  \cup [kind : {"extend"}, words : {2}, delta : {1}, high : Highs, known : {FALSE}]
  \cup [kind : {"stamp"}, words : {2}, delta : {1}, high : {1}, known : {FALSE}]

\* Padding is the last record of its page.
Pages ==
  {p \in UNION {[1..n -> Records] : n \in 0..MaxRecords} :
     \A i \in 1..(Len(p) - 1) : p[i].kind # "padding"}

\* Start(p, i): where record i of page p starts; Start(p, Len(p) + 1) is commit.
Start(p, i) ==
  LET sum[k \in 0..(i - 1)] == IF k = 0 THEN 0 ELSE sum[k - 1] + p[k].words IN sum[i - 1]
Commit(p) == Start(p, Len(p) + 1)

InitPage ==
  /\ dump \in Pages
  /\ pc = "event"
  /\ pos = [total_read |-> 0, event_timestamp |-> 0]
  /\ out = <<>>

\* The records that start at the address reached.
Here == {i \in 1..Len(dump) : Start(dump, i) = pos.total_read}

\* Mutant: the header of a data record is not counted.
TraceLenNoHeader(r) == IF r.kind = "data" THEN {r.words - 1} ELSE {r.words}

\* The step over a record, trace_len.  For type_len 0 and discarded records it
\* is computed from rb_event.array[0], a word behind the structure that was
\* read and never initialised: it has any value.
TraceLen(r) ==
  CASE r.kind \in {"large", "discarded"} -> 1..(Commit(dump) + 1)
    [] r.kind = "padding" -> {1 + Commit(dump) - DataOffset - pos.total_read}
    [] OTHER -> {r.words}

\* event_timestamp after a record: the upper part of an extension is shifted as
\* an unsigned int, and an absolute time stamp resets the sum.
Timestamp(r) ==
  CASE r.kind = "extend" -> pos.event_timestamp + r.delta + ((r.high * 2^DeltaBits) % 2^UintBits)
    [] r.kind = "stamp" -> 0
    [] OTHER -> pos.event_timestamp + r.delta

\* event_addr > event_end: data starts behind the header of the page, and
\* event_end leaves that header out, so the test holds in the last words.
AtEventEnd(r) == r.kind \in {"discarded", "padding"} /\ pos.total_read + DataOffset > Commit(dump)

\* One turn of the loop of parse_buffer_page at the start of a record, with
\* parse_trace_entry for data.
ParseEvent ==
  /\ pc = "event"
  /\ pos.total_read < Commit(dump)
  /\ \E i \in Here :
       /\ ~AtEventEnd(dump[i])
       /\ out' = IF dump[i].kind \in {"data", "large"} /\ dump[i].known
                 THEN Append(out, [record |-> i, time |-> Timestamp(dump[i])]) ELSE out
       /\ \E trace_len \in TraceLen(dump[i]) :
            pos' = [total_read |-> pos.total_read + trace_len, event_timestamp |-> Timestamp(dump[i])]
  /\ UNCHANGED <<dump, pc>>

\* The loop ends behind the page or at its padding; inside a record it goes on
\* with whatever it finds there ("lost").
LeavePage ==
  /\ pc = "event"
  /\ \/ pos.total_read >= Commit(dump) /\ pc' = "done"
     \/ (\E i \in Here : AtEventEnd(dump[i])) /\ pos.total_read < Commit(dump) /\ pc' = "done"
     \/ Here = {} /\ pos.total_read < Commit(dump) /\ pc' = "lost"
  /\ UNCHANGED <<dump, pos, out>>

NextPage == ParseEvent \/ LeavePage

SpecPage == InitPage /\ [][NextPage]_vars

-----------------------------------------------------------------------------

\* The time of record i: the sum of the deltas and extensions up to it.
TimeOf(i) ==
  LET sum[k \in 0..i] ==
        IF k = 0 THEN 0
        ELSE sum[k - 1] + dump[k].delta + (IF dump[k].kind = "extend" THEN dump[k].high * 2^DeltaBits ELSE 0)
  IN  sum[i]

DataRecords(kinds) == {i \in 1..Len(dump) : dump[i].kind \in kinds /\ dump[i].known}

\* Records whose length is not in their header, and absolute time stamps.
Plain(i) ==
  /\ dump[i].kind \notin {"large", "stamp"}
  /\ dump[i].kind = "discarded" => i = Len(dump) /\ dump[i].words < DataOffset
  /\ dump[i].high < 2^(UintBits - DeltaBits)

\* In a page without large and time stamp records, discarded only
\* in its last words, each data record is found once, in order and with its
\* time, as long as the time extensions fit an unsigned int.
PageExact ==
  pc # "event" /\ (\A i \in 1..Len(dump) : Plain(i)) =>
    /\ pc = "done"
    /\ \A k \in 1..(Len(out) - 1) : out[k].record < out[k + 1].record
    /\ {out[k] : k \in 1..Len(out)} = {[record |-> i, time |-> TimeOf(i)] : i \in DataRecords({"data"})}

\* ftrace.cpp says of records with type_len 0 that the 32 bit array field holds
\* their length: the records behind such a record are found.
LargeRecordSkipped ==
  pc # "event" /\ (\A i \in 1..Len(dump) : dump[i].kind # "discarded") =>
    {out[k].record : k \in 1..Len(out)} = DataRecords({"data", "large"})

-----------------------------------------------------------------------------
(***************************************************************************)
(* ftrace -d (ftrace/ftrace.cpp): the file written for trace-cmd.  The     *)
(* file is the set of the chunks written, each with its place and size;    *)
(* the options written before the buffers hold the offsets of the buffers  *)
(* and are written a second time when those are known.                     *)
(***************************************************************************)

Cpus == 0..(NrCpus - 1)

\* One trace array: the data pages of its cpus, -1 for a cpu without a ring
\* buffer, which parser_trace_buffer skips.
Arrays(name) == [name : {name}, pages : [Cpus -> (-1)..MaxData]]
TraceLists ==
  (Arrays("global") \X Arrays("binder")) \cup (Arrays("usb") \X Arrays("global"))
  \cup {<<g, a, b>> : g \in Arrays("global"), a \in {[name |-> "usb", pages |-> [c \in Cpus |-> c]]},
                      b \in {[name |-> "binder", pages |-> [c \in Cpus |-> 1]]}}

\* Printk formats: none (the symbols are missing), empty (no format at all),
\* unreadable (formats, none of them readable) or text.
Heads ==
  [size : HeadSizes, printk : {"none", "empty", "unreadable", "text"}, events : {<<"ftrace", "ftrace">>}]
  \cup [size : HeadSizes, printk : {"text"}, events : [1..2 -> Systems \cup {"ftrace"}]]
Dumps == [list : TraceLists, head : Heads]

InitFile ==
  /\ dump \in Dumps
  /\ pc = "head"
  /\ pos = [at |-> 0, res |-> 0, offset |-> [i \in 1..Len(dump.list) |-> 0]]
  /\ out = {}

-----------------------------------------------------------------------------

\* fwrite one after the other from a place on: the chunks of a sequence of
\* [what, size], and where the file stands then.
SizeOf(items) == FoldLeft(LAMBDA n, x : n + x.size, 0, items)
Lay(at, items) ==
  {[at |-> at + SizeOf(SubSeq(items, 1, i - 1)), size |-> items[i].size, what |-> items[i].what] :
     i \in 1..Len(items)}
Item(what, size) == [what |-> what, size |-> size]

\* write_to_buf: the buffer grows to the text and its terminating zero; the
\* sections write the length of the text and the text without the zero.
TextSection(what, prefix, size) == <<Item(<<what, size>>, prefix), Item(<<"text", what>>, size)>>

\* write_printk_data: 4 bytes for the length, if there is a text or no format.
PrintkSection ==
  CASE dump.head.printk = "empty" -> <<Item(<<"printk", 0>>, 4)>>
    [] dump.head.printk = "text" -> <<Item(<<"printk", dump.head.size>>, 4), Item(<<"text", "printk">>, dump.head.size)>>
    [] OTHER -> <<>>

EventsOf(system) == {e \in DOMAIN dump.head.events : dump.head.events[e] = system}

\* write_events_data: the events of "ftrace", then the number of the other
\* systems, numbered in the order of event_maps, and the events of each.
EventsSection ==
  LET others == SetToSeq({dump.head.events[e] : e \in DOMAIN dump.head.events} \ {"ftrace"})
      EventsItem(system) == Item(<<"events", system, EventsOf(system)>>, 4 + Cardinality(EventsOf(system)))
  IN  <<EventsItem("ftrace"), Item(<<"systems", Len(others)>>, 4)>>
      \o [i \in 1..Len(others) |-> EventsItem(others[i])]

\* write_init_data .. write_cmdlines
WriteHead ==
  /\ pc = "head"
  /\ LET items == <<Item(<<"init">>, 18)>> \o TextSection("header", 8, dump.head.size) \o EventsSection
                  \o TextSection("kallsyms", 4, dump.head.size) \o PrintkSection \o TextSection("cmdlines", 8, dump.head.size)
     IN  /\ out' = Lay(0, items)
         /\ pos' = [pos EXCEPT !.at = SizeOf(items), !.res = SizeOf(items)]
  /\ pc' = "res"
  /\ UNCHANGED dump

Instances == SelectSeq([i \in 1..Len(dump.list) |-> i], LAMBDA i : dump.list[i].name # "global")
Globals == SelectSeq([i \in 1..Len(dump.list) |-> i], LAMBDA i : dump.list[i].name = "global")
NameSize(name) == IF name = "usb" THEN 4 ELSE 7

ResItems ==
  <<Item(<<"nr_cpus">>, 4), Item(<<"options">>, 10)>>
  \o [k \in 1..Len(Instances) |->
        LET i == Instances[k]
        IN  Item(<<"option", dump.list[i].name, pos.offset[i]>>, 2 + 4 + 8 + NameSize(dump.list[i].name))]
  \o <<Item(<<"done">>, 2), Item(<<"flyrecord", "global">>, 10)>>

\* write_res_data, with the offsets not known yet
WriteResData ==
  /\ pc = "res"
  /\ out' = out \cup Lay(pos.at, ResItems)
  /\ pos' = [pos EXCEPT !.at = @ + SizeOf(ResItems)]
  /\ pc' = "buffers"
  /\ UNCHANGED dump

RoundUp(n) == ((n + PageSize - 1) \div PageSize) * PageSize

\* Where the data of an array starts whose table of cpus starts at start.
DataStart(start) == RoundUp(start + (NrCpus * 16))

\* write_trace_array_buffers of array i at start: offset and size of each cpu,
\* and the pages from data_start_offset on.
ArrayChunks(i, start) ==
  LET pages == dump.list[i].pages
      name == dump.list[i].name
      Before(c) == FoldSet(LAMBDA x, n : n + pages[x], 0, 0..(c - 1))
      table == [k \in 1..NrCpus |->
                  Item(<<"cpu", name, k - 1, DataStart(start) + (PageSize * Before(k - 1)), PageSize * pages[k - 1]>>, 16)]
  IN  Lay(start, table)
      \cup UNION {{[at |-> DataStart(start) + (PageSize * (Before(c) + p - 1)), size |-> PageSize,
                    what |-> <<"page", name, c, p>>] : p \in 1..pages[c]} : c \in Cpus}
ArrayEnd(i, start) ==
  DataStart(start) + (PageSize * FoldSet(LAMBDA x, n : n + dump.list[i].pages[x], 0, Cpus))

\* The arrays in the order of write_buffer_data: global, then the others.
WriteOrder == Globals \o Instances
Written == Cardinality({i \in 1..Len(dump.list) : pos.offset[i] # 0})

\* One turn of a loop of write_buffer_data.  cpu_ring_buffers is indexed with
\* the cpu, beyond its end when a cpu was skipped.
WriteBuffer ==
  /\ pc = "buffers"
  /\ Written < Len(WriteOrder)
  /\ LET i == WriteOrder[Written + 1]
         tag == IF dump.list[i].name = "global" THEN <<>> ELSE <<Item(<<"flyrecord", dump.list[i].name>>, 10)>>
         start == pos.at + SizeOf(tag)
     IN  IF \E c \in Cpus : dump.list[i].pages[c] = -1
         THEN pc' = "undefined" /\ UNCHANGED <<pos, out>>
         ELSE /\ out' = out \cup Lay(pos.at, tag) \cup ArrayChunks(i, start)
              /\ pos' = [pos EXCEPT !.at = ArrayEnd(i, start), !.offset[i] = pos.at]
              /\ UNCHANGED pc
  /\ UNCHANGED dump

\* Mutant: the options are left as they were written first.
FixUpForgotten ==
  /\ pc = "buffers"
  /\ Written = Len(WriteOrder)
  /\ pc' = "done"
  /\ UNCHANGED <<dump, pos, out>>

\* fseek to the options and write_res_data again
FixUp ==
  /\ pc = "buffers"
  /\ Written = Len(WriteOrder)
  /\ LET new == Lay(pos.res, ResItems)
     IN  out' = {c \in out : \A n \in new : c.at # n.at} \cup new
  /\ pc' = "done"
  /\ UNCHANGED <<dump, pos>>

NextFile == WriteHead \/ WriteResData \/ WriteBuffer \/ FixUp

SpecFile == InitFile /\ [][NextFile]_vars

-----------------------------------------------------------------------------

Disjoint ==
  \A c, d \in out : c # d => c.at + c.size <= d.at \/ d.at + d.size <= c.at

Of(kind) == {c \in out : c.what[1] = kind}

\* When every cpu of every trace array has a ring buffer, the file is one
\* trace-cmd can read: no chunk overwrites another; the option of each instance
\* holds the place of its "flyrecord"; the entry of each cpu in the table of its
\* array holds the place of exactly that cpu's pages, page aligned and in order;
\* and every event is written once, under its own system.
TraceFileExact ==
  (\A i \in 1..Len(dump.list), c \in Cpus : dump.list[i].pages[c] # -1) =>
    /\ pc # "undefined"
    /\ pc = "done" =>
         /\ Disjoint
         /\ \A i \in 1..Len(dump.list) : dump.list[i].name # "global" =>
              \E o \in Of("option"), f \in Of("flyrecord") :
                o.what = <<"option", dump.list[i].name, f.at>> /\ f.what[2] = dump.list[i].name
         /\ \A i \in 1..Len(dump.list), c \in Cpus :
              \E t \in Of("cpu") :
                LET name == dump.list[i].name
                IN  /\ t.what[2] = name /\ t.what[3] = c
                    /\ t.what[4] % PageSize = 0
                    /\ t.what[5] = PageSize * dump.list[i].pages[c]
                    /\ {p \in Of("page") : p.at >= t.what[4] /\ p.at < t.what[4] + t.what[5]}
                       = {[at |-> t.what[4] + (PageSize * (p - 1)), size |-> PageSize,
                           what |-> <<"page", name, c, p>>] : p \in 1..dump.list[i].pages[c]}
         /\ \A e \in DOMAIN dump.head.events :
              {c \in Of("events") : e \in c.what[3]} = {c \in Of("events") : c.what[2] = dump.head.events[e]}
         /\ \A c \in Of("systems") : c.what[2] + 1 = Cardinality(Of("events"))

=============================================================================
