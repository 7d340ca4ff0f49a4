------------------------------ MODULE RingLogs ------------------------------
(***************************************************************************)
(* Logs in rings: the register trace buffer (Rtb), the log contexts of     *)
(* ipc_logging (Ipc) and the messages of user space in persistent memory   *)
(* (Pmsg).  The three are state machines of their own over the same        *)
(* variables.                                                              *)
(***************************************************************************)
EXTENDS Integers, Sequences

CONSTANTS   \* Rtb
  RtbSizes,    \* the pairs <<nentries, step_size>>
  RtbCounts,   \* how many entries a cpu may have written since boot
  Width        \* the bits of idx

CONSTANTS   \* Ipc
  Pages,        \* the pages of the ring are 0..Pages-1
  DataSize,     \* field_size(ipc_log_page, data)
  MsgSizes,     \* the sizes of messages; none fills a page
  MaxMsgs,      \* bound on the messages written
  MaxIpcCmds    \* bound on the commands of a session

CONSTANTS   \* Pmsg
  ZoneHead,     \* the bytes of struct persistent_ram_buffer before its data
  ZoneData,     \* the bytes of its data
  HeadLen,      \* head_len, larger than ZoneHead
  PmsgSizes,    \* the lengths of messages, larger than HeadLen
  MaxPmsgs      \* bound on the messages written

VARIABLES dump, pc, pos, out
vars == <<dump, pc, pos, out>>

-----------------------------------------------------------------------------
(***************************************************************************)
(* The rtb command (rtb/rtb.cpp): the register trace buffer is one array   *)
(* of nentries entries in which cpu c owns the entries c, c + step_size,   *)
(* c + 2 step_size, ...  The command starts at the index of a cpu and      *)
(* follows its entries while their idx grows.                              *)
(*                                                                         *)
(* An entry is its idx; a torn one has a sentinel or type that is not      *)
(* valid.  idx has 32 bits (Width here) and is compared as an int.         *)
(***************************************************************************)

Unreadable == -1

Cpus(d) == 0..(d.step_size - 1)
Unused(d) == d.nentries % d.step_size
PerCpu(d) == (d.nentries - Unused(d)) \div d.step_size

\* msm_rtb.ko: the slot of the j-th entry of a cpu, counted from 0, its idx,
\* and the entries that have not been overwritten.
SlotOf(d, cpu, j) == cpu + d.step_size * (j % PerCpu(d))
IdxOf(d, cpu, j) == (d.nentries * (j \div PerCpu(d)) + SlotOf(d, cpu, j)) % 2^Width
Kept(d, cpu) == {j \in 0..(d.written[cpu] - 1) : j + PerCpu(d) >= d.written[cpu]}

\* The idx in a slot, 0 when nothing was written there.
Entry(d, s) ==
  LET cpu == s % d.step_size
      here == {j \in Kept(d, cpu) : SlotOf(d, cpu, j) = s}
  IN CASE s \in d.unreadable -> Unreadable
       [] OTHER -> IF here = {} THEN 0 ELSE IdxOf(d, cpu, CHOOSE j \in here : TRUE)

AsInt(x) == IF x >= 2^(Width - 1) THEN x - 2^Width ELSE x

\* & (nentries - 1): nentries is a power of 2.
Mask(d, i) == i % d.nentries

\* Mutant: the unused entries are not jumped over.
NextRtbEntryPlain(d, index) == Mask(d, index + d.step_size)

\* next_rtb_entry
NextRtbEntry(d, index) ==
  LET far == Mask(d, index + d.step_size + Unused(d)) IN
  IF far < Mask(d, index) THEN far ELSE Mask(d, index + d.step_size)

\* The index of a cpu when the dump was taken: where it would write next.
StartIndex(d, cpu) == Mask(d, IdxOf(d, cpu, d.written[cpu]))

Dumps ==
  UNION {UNION {
    [nentries : {s[1]}, step_size : {s[2]}, written : [0..(s[2] - 1) -> RtbCounts],
     torn : {{}, {t}}, unreadable : {{}}, initialized : {TRUE}]
    \cup
    [nentries : {s[1]}, step_size : {s[2]}, written : [0..(s[2] - 1) -> RtbCounts],
     torn : {{}}, unreadable : {{t}}, initialized : BOOLEAN]
      : t \in 0..(s[1] - 1)} : s \in RtbSizes}

InitRtb ==
  /\ dump \in Dumps
  /\ pc = "cmd_main"
  /\ pos = [first |-> 0, last |-> -1, cpu |-> 0, index |-> 0]
  /\ out = [c \in Cpus(dump) |-> <<>>]

\* Bound: a walk round a torn newest entry never ends and is cut off here.
MaxShown == 2 * dump.nentries

\* print_rtb_log (-a) walks every cpu, print_percpu_rtb_log (-c) one.
CmdMain ==
  /\ pc = "cmd_main"
  /\ IF dump.initialized
     THEN /\ pc' = "entry"
          /\ \E range \in {<<0, dump.step_size - 1>>} \cup {<<c, c>> : c \in Cpus(dump)} :
               pos' = [first |-> range[1], last |-> range[2], cpu |-> range[1],
                       index |-> StartIndex(dump, range[1])]
     ELSE pc' = "done" /\ UNCHANGED pos
  /\ UNCHANGED <<dump, out>>

\* What print_rtb_layout returns: the idx, or 0 when it prints nothing.
PrintRtbLayout(d, s) ==
  IF s \in d.torn \/ Entry(d, s) = Unreadable THEN 0 ELSE Entry(d, s)

NextCpu ==
  IF pos.cpu < pos.last
  THEN /\ pos' = [pos EXCEPT !.cpu = pos.cpu + 1, !.index = StartIndex(dump, pos.cpu + 1)]
       /\ UNCHANGED pc
  ELSE pc' = "done" /\ UNCHANGED pos

\* Mutant: an entry that is not printed is not stepped over either.
PrintEntryTornSticks ==
  LET last_idx == PrintRtbLayout(dump, pos.index)
      next == NextRtbEntry(dump, pos.index)
  IN
  /\ pc = "entry"
  /\ Len(out[pos.cpu]) < MaxShown
  /\ out' = IF last_idx = 0 THEN out ELSE [out EXCEPT ![pos.cpu] = Append(@, last_idx)]
  /\ IF Entry(dump, next) # Unreadable /\ (AsInt(last_idx) < AsInt(Entry(dump, next)) \/ next = pos.index)
     THEN pos' = [pos EXCEPT !.index = IF last_idx = 0 THEN @ ELSE next] /\ UNCHANGED pc
     ELSE NextCpu
  /\ UNCHANGED dump

\* One turn of the loop of print_percpu_rtb_log.
PrintEntry ==
  LET last_idx == PrintRtbLayout(dump, pos.index)
      next == NextRtbEntry(dump, pos.index)
  IN
  /\ pc = "entry"
  /\ Len(out[pos.cpu]) < MaxShown
  /\ out' = IF last_idx = 0 THEN out ELSE [out EXCEPT ![pos.cpu] = Append(@, last_idx)]
  /\ IF Entry(dump, next) # Unreadable /\ (AsInt(last_idx) < AsInt(Entry(dump, next)) \/ next = pos.index)
     THEN pos' = [pos EXCEPT !.index = next] /\ UNCHANGED pc
     ELSE NextCpu
  /\ UNCHANGED dump

NextRtb == CmdMain \/ PrintEntry

SpecRtb == InitRtb /\ [][NextRtb]_vars /\ WF_vars(NextRtb)

-----------------------------------------------------------------------------

\* The slot of the newest entry of a cpu.
Newest(cpu) == SlotOf(dump, cpu, dump.written[cpu] - 1)

\* As ints the idx of the entries of a cpu grow, and are positive if some
\* entries are torn.
InOrder(cpu) ==
  LET idx(j) == AsInt(IdxOf(dump, cpu, j)) IN
  /\ \A j, k \in Kept(dump, cpu) : j < k => idx(j) < idx(k)
  /\ dump.torn = {} \/ \A j \in Kept(dump, cpu) : idx(j) > 0

\* Once the buffer has gone round, rtb shows the entries of a cpu from the
\* oldest to the newest, each one once, and skips the damaged ones; an entry
\* that cannot be read ends the list early.  The loop relies on the newest
\* entry: it must be intact, and on the idx being ordered as ints.
RtbLogExact ==
  pc = "done" =>
    \A c \in pos.first..pos.last :
      LET n == dump.written[c]
          m == PerCpu(dump)
          idx == [i \in 1..m |-> PrintRtbLayout(dump, SlotOf(dump, c, n - m + i - 1))]
          valid == SelectSeq(idx, LAMBDA e : e # 0)
      IN  n >= m /\ InOrder(c)
          /\ Newest(c) \notin dump.torn \cup dump.unreadable =>
            \/ out[c] = valid
            \/ dump.unreadable # {} /\ \E k \in 0..Len(valid) : out[c] = SubSeq(valid, 1, k)

NewestIntact ==
  \A c \in Cpus(dump) : dump.written[c] > 0 /\ Newest(c) \notin dump.torn \cup dump.unreadable

\* rtb comes to an end for every cpu whose newest entry is intact.
RtbEnds == NewestIntact ~> pc = "done"

-----------------------------------------------------------------------------
(***************************************************************************)
(* The ipc command (ipc/ipc.cpp) on one log context: a ring of pages in    *)
(* which the kernel writes messages that may cross pages and drops the     *)
(* oldest ones for room.  The command copies the bytes from the read       *)
(* position to the write position and cuts them into messages.             *)
(*                                                                         *)
(* A byte is <<number of its message, position in the message>>.           *)
(***************************************************************************)

Page == 0..(Pages - 1)
NextOf(p) == (p + 1) % Pages
Unwritten == <<0, 0>>

\* The context as ipc_logging.ko creates it.  size has the messages written,
\* first is the oldest one not dropped.
InitIpc ==
  /\ dump = [write_offset |-> [p \in Page |-> 0], nd_read_offset |-> [p \in Page |-> 0],
             data |-> [p \in Page |-> [o \in 0..(DataSize - 1) |-> Unwritten]],
             write_page |-> 0, nd_read_page |-> 0, write_avail |-> Pages * DataSize,
             size |-> <<>>, first |-> 1, unreadable |-> {}, magic |-> TRUE]
  /\ pc = "running"
  /\ pos = 0
  /\ out = [logs |-> <<>>, printed |-> <<>>, cmds |-> 0]

\* ipc_log_write: a message of n bytes is there to be written.
Send(n) ==
  /\ pc = "running"
  /\ Len(dump.size) < MaxMsgs
  /\ pc' = "ipc_log_write" /\ pos' = n
  /\ UNCHANGED <<dump, out>>

\* msg_drop: the read position moves over the oldest message.
MsgDrop ==
  LET r == dump.nd_read_page
      n == dump.size[dump.first]
      o == dump.nd_read_offset[r] + n
  IN
  /\ pc = "ipc_log_write"
  /\ dump.write_avail <= pos
  /\ dump' = [dump EXCEPT
       !.first = @ + 1, !.write_avail = @ + n,
       !.nd_read_page = IF o >= DataSize THEN NextOf(r) ELSE r,
       !.nd_read_offset = IF o >= DataSize
                          THEN [@ EXCEPT ![r] = 0, ![NextOf(r)] = o - DataSize]
                          ELSE [@ EXCEPT ![r] = o]]
  /\ UNCHANGED <<pc, pos, out>>

\* The rest of ipc_log_write: what does not fit goes to the start of the next page.
WriteMsg ==
  LET w == dump.write_page
      m == Len(dump.size) + 1
      o == dump.write_offset[w]
      fit == IF pos < DataSize - o THEN pos ELSE DataSize - o
      v == NextOf(w)
      old == [dump.data EXCEPT ![w] =
                [i \in DOMAIN @ |-> IF o <= i /\ i < o + fit THEN <<m, i - o>> ELSE @[i]]]
  IN
  /\ pc = "ipc_log_write"
  /\ dump.write_avail > pos
  /\ dump' = IF fit = pos
             THEN [dump EXCEPT !.data = old, !.write_offset[w] = o + pos,
                     !.write_avail = @ - pos, !.size = Append(@, pos)]
             ELSE [dump EXCEPT !.write_page = v, !.write_avail = @ - pos, !.size = Append(@, pos),
                     !.write_offset = [@ EXCEPT ![w] = DataSize, ![v] = pos - fit],
                     !.data = [old EXCEPT ![v] =
                       [i \in DOMAIN @ |-> IF i < pos - fit THEN <<m, fit + i>> ELSE @[i]]]]
  /\ pc' = "running" /\ pos' = 0
  /\ UNCHANGED out

\* The dump is taken; a page may be missing from it, or the magic be wrong.
Crash ==
  /\ pc = "running"
  /\ pc' = "idle"
  /\ \E u \in {{}} \cup {{p} : p \in Page}, g \in BOOLEAN :
       dump' = [dump EXCEPT !.unreadable = u, !.magic = g]
  /\ UNCHANGED <<pos, out>>

Wrapped == dump.nd_read_offset[dump.nd_read_page] > dump.write_offset[dump.nd_read_page]

\* print_ipc_log (-l), save_ipc_log (-s): a context whose page has no magic is
\* skipped; the log is parsed when there is none yet.
PrintIpcLog ==
  /\ pc = "idle" /\ out.cmds < MaxIpcCmds
  /\ IF ~dump.magic \/ out.logs # <<>>
     THEN /\ out' = [out EXCEPT !.cmds = @ + 1, !.printed = IF dump.magic THEN out.logs ELSE <<>>]
          /\ UNCHANGED <<pc, pos>>
     ELSE /\ pc' = "copy"
          /\ pos' = [page |-> dump.nd_read_page, buf |-> <<>>]
          /\ out' = [out EXCEPT !.cmds = @ + 1]
  /\ UNCHANGED dump

Bytes(p, from, to) == [i \in 1..(to - from) |-> dump.data[p][from + i - 1]]

\* Mutant: only the fill of a page says whether it is the last one.
CopyPageUnwrapped ==
  LET p == pos.page
      from == dump.nd_read_offset[p]
      to == IF from <= dump.write_offset[p] THEN dump.write_offset[p] ELSE DataSize
      last == to = from \/ dump.write_offset[p] < DataSize \/ NextOf(p) = dump.nd_read_page
  IN
  /\ pc = "copy"
  /\ IF p \in dump.unreadable
     THEN pc' = "print" /\ pos' = 0
     ELSE /\ pc' = IF last THEN "tail" ELSE "copy"
          /\ pos' = [page |-> NextOf(p), buf |-> pos.buf \o Bytes(p, from, to)]
  /\ UNCHANGED <<dump, out>>

\* One turn of the loop over the pages in parser_ipc_log_page; a page that is
\* not in the dump ends the function.
CopyPage ==
  LET p == pos.page
      from == dump.nd_read_offset[p]
      to == IF from <= dump.write_offset[p] THEN dump.write_offset[p] ELSE DataSize
      last == \/ to = from
              \/ ~Wrapped /\ dump.write_offset[p] < DataSize
              \/ NextOf(p) = dump.nd_read_page
  IN
  /\ pc = "copy"
  /\ IF p \in dump.unreadable
     THEN pc' = "print" /\ pos' = 0
     ELSE /\ pc' = IF last THEN "tail" ELSE "copy"
          /\ pos' = [page |-> NextOf(p), buf |-> pos.buf \o Bytes(p, from, to)]
  /\ UNCHANGED <<dump, out>>

\* When the writer is behind the reader in its page: the start of that page.
CopyTail ==
  /\ pc = "tail"
  /\ pc' = "parse"
  /\ pos' = IF Wrapped
            THEN pos.buf \o Bytes(dump.nd_read_page, 0, dump.write_offset[dump.nd_read_page])
            ELSE pos.buf
  /\ UNCHANGED <<dump, out>>

\* One turn of the loop over the messages: the type-size-value headers say how
\* far the message at the front of the buffer goes.
ParseMsg ==
  /\ pc = "parse"
  /\ IF pos = <<>>
     THEN pc' = "print" /\ pos' = 0 /\ UNCHANGED out
     ELSE LET m == Head(pos)[1]
              n == IF m = 0 THEN 1 ELSE dump.size[m]
              whole == n < Len(pos)
          IN  /\ out' = [out EXCEPT !.logs = Append(@, IF whole THEN SubSeq(pos, 1, n) ELSE pos)]
              /\ pos' = IF whole THEN SubSeq(pos, n + 1, Len(pos)) ELSE <<>>
              /\ UNCHANGED pc
  /\ UNCHANGED dump

PrintLogs ==
  /\ pc = "print"
  /\ pc' = "idle"
  /\ out' = [out EXCEPT !.printed = out.logs]
  /\ UNCHANGED <<dump, pos>>

NextIpc ==
  \/ \E n \in MsgSizes : Send(n)
  \/ MsgDrop \/ WriteMsg \/ Crash
  \/ PrintIpcLog \/ CopyPage \/ CopyTail \/ ParseMsg \/ PrintLogs

SpecIpc == InitIpc /\ [][NextIpc]_vars

-----------------------------------------------------------------------------

Message(m) == [i \in 1..dump.size[m] |-> <<m, i - 1>>]

\* Every ipc -l and -s, the first and the later ones, prints the messages the
\* kernel has not dropped, whole, in order and each one once, wherever in the
\* ring the log starts and ends.
IpcLogExact ==
  pc = "idle" /\ out.cmds > 0 /\ dump.magic /\ dump.unreadable = {} =>
    out.printed = [i \in 1..(Len(dump.size) - dump.first + 1) |-> Message(dump.first + i - 1)]

-----------------------------------------------------------------------------
(***************************************************************************)
(* pstore -p (pstore/pstore.cpp): user-space log messages in a ring in     *)
(* persistent memory.  The command unrolls the ring and scans it for       *)
(* message headers.                                                        *)
(*                                                                         *)
(* A byte is <<number of its message, position in the message>>; position  *)
(* 0 is the magic 'l' and the first HeadLen bytes are the two headers.  No *)
(* byte of a message text is taken for a magic.  The bytes of the header   *)
(* of the zone itself are <<0, 1>>.                                        *)
(***************************************************************************)

HeaderByte == <<0, 1>>

InitPmsg ==
  /\ dump = [data |-> [i \in 0..(ZoneData - 1) |-> HeaderByte], start |-> 0, size |-> 0, len |-> <<>>]
  /\ pc = "running"
  /\ pos = 0
  /\ out = <<>>

\* persistent_ram_write of one message of n bytes.
Write(n) ==
  LET m == Len(dump.len) + 1
      end == dump.start + n
  IN
  /\ pc = "running" /\ m <= MaxPmsgs
  /\ dump' = [data |-> [i \in DOMAIN dump.data |->
                IF dump.start <= i /\ i < end THEN <<m, i - dump.start>>
                ELSE IF i + ZoneData < end THEN <<m, i + ZoneData - dump.start>>
                ELSE dump.data[i]],
              start |-> IF end >= ZoneData THEN end - ZoneData ELSE end,
              size |-> IF dump.size + n > ZoneData THEN ZoneData ELSE dump.size + n,
              len |-> Append(dump.len, n)]
  /\ UNCHANGED <<pc, pos, out>>

\* n bytes of physical memory from offset o of the zone, whose header is there too.
ReadMemory(o, n) ==
  [i \in 1..n |-> IF o + i - 1 < ZoneHead THEN HeaderByte ELSE dump.data[o + i - 1 - ZoneHead]]

\* print_pmsg: the ring is unrolled, its oldest byte first.
PrintPmsg ==
  /\ pc = "running"
  /\ pc' = "extract_pmsg_logs"
  /\ pos' = IF dump.start < dump.size
            THEN ReadMemory(dump.start, dump.size - dump.start) \o ReadMemory(0, dump.start)
            ELSE ReadMemory(0, dump.size)
  /\ UNCHANGED <<dump, out>>

\* What pmsgHeader.len may be at the front of buf: any number if its bytes are
\* not all of one message.
Lengths(buf) ==
  LET m == buf[1][1] IN
  IF \A i \in 2..HeadLen : buf[i] = <<m, i - 1>> THEN {dump.len[m]} ELSE 0..(ZoneData + 1)

IsMagic(byte) == byte[2] = 0
Advance(n) == pos' = IF n >= Len(pos) THEN <<>> ELSE SubSeq(pos, n + 1, Len(pos))

\* Mutant: the scan goes on one byte too far behind a message.
ExtractOneTooFar ==
  /\ pc = "extract_pmsg_logs"
  /\ IF Len(pos) <= HeadLen
     THEN pc' = "done" /\ UNCHANGED <<pos, out>>
     ELSE /\ UNCHANGED pc
          /\ \E len \in Lengths(pos) :
               IF IsMagic(pos[1]) /\ len > HeadLen
               THEN IF Len(pos) > len /\ ~IsMagic(pos[len + 1])
                    THEN Advance(HeadLen) /\ UNCHANGED out
                    ELSE out' = Append(out, pos[1][1]) /\ Advance(len + 1)
               ELSE Advance(1) /\ UNCHANGED out
  /\ UNCHANGED dump

\* One turn of the loop of extract_pmsg_logs.
ExtractPmsgLogs ==
  /\ pc = "extract_pmsg_logs"
  /\ IF Len(pos) <= HeadLen
     THEN pc' = "done" /\ UNCHANGED <<pos, out>>
     ELSE /\ UNCHANGED pc
          /\ \E len \in Lengths(pos) :
               IF IsMagic(pos[1]) /\ len > HeadLen
               THEN IF Len(pos) > len /\ ~IsMagic(pos[len + 1])
                    THEN Advance(HeadLen) /\ UNCHANGED out
                    ELSE out' = Append(out, pos[1][1]) /\ Advance(len)
               ELSE Advance(1) /\ UNCHANGED out
  /\ UNCHANGED dump

NextPmsg == (\E n \in PmsgSizes : Write(n)) \/ PrintPmsg \/ ExtractPmsgLogs

SpecPmsg == InitPmsg /\ [][NextPmsg]_vars

-----------------------------------------------------------------------------

\* Messages are printed in the order they were written and none twice, also
\* around the place where the ring was cut and where headers are damaged.
PmsgInOrder == \A i, j \in 1..Len(out) : i < j => out[i] < out[j]

\* Byte i of message m is in the ring, and not at its end: read_memory starts
\* at the header of the zone and so misses the last ZoneHead bytes.
Present(m, i) == \E o \in 0..(ZoneData - ZoneHead - 1) : dump.data[o] = <<m, i>>

\* Every message that was not overwritten, before the newest one, is printed
\* unless the end of the ring cuts it or the magic behind it, or cuts the
\* header of some other message.
PmsgComplete ==
  pc = "done" =>
    LET newest == Len(dump.len)
        cut == \E m \in 1..newest : Present(m, 0) /\ \E i \in 1..(HeadLen - 1) : ~Present(m, i)
        whole(m) == (\A i \in 0..(dump.len[m] - 1) : Present(m, i)) /\ Present(m + 1, 0)
    IN  ~cut => \A m \in 1..(newest - 1) : whole(m) => \E i \in 1..Len(out) : out[i] = m

=============================================================================
