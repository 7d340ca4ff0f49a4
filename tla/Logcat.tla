------------------------------- MODULE Logcat -------------------------------
(***************************************************************************)
(* logcat: one message (Message), and the command over a session           *)
(* (Logcat).  The two are state machines of their own over the same        *)
(* variables.                                                              *)
(***************************************************************************)
EXTENDS Integers, Sequences, FiniteSets, SequencesExt

CONSTANTS   \* Message
  Items,      \* the elements of events: a type, and the number or the characters
  MaxItems,   \* elements of a list
  BadBytes,   \* values a damaged byte may have
  Chars,      \* characters of the text of a system log
  MaxText     \* its length

CONSTANTS   \* Logcat
  Systems,     \* what init and the properties say: [init, sdk, vndk]
  ElementSets, \* element lists of R and LE: [addr, dropped, id, msg]
  LogSets,     \* the lists of chunks of S: [0..KERNEL -> Seq(chunk)], an
               \*   entry being [pid, len, fits, msg]
  LogIds,      \* what -b asks for
  MaxCatCmds   \* bound on the commands of a session

VARIABLES dump, pc, pos, out
vars == <<dump, pc, pos, out>>

-----------------------------------------------------------------------------
(***************************************************************************)
(* One message of an Android log buffer, byte by byte (logcat/logcat.cpp): *)
(* an event log (parser_event_log, get_event) or a system log              *)
(* (parser_system_log), then what print_logcat_log makes of its text.      *)
(* A message is what a writer laid out, cut short or with a byte           *)
(* overwritten.                                                            *)
(***************************************************************************)

-----------------------------------------------------------------------------
(* The layout of an event: a tag of 4 bytes, then one value.               *)

TYPE_INT == 0
TYPE_LONG == 1
TYPE_STRING == 2
TYPE_LIST == 3
TYPE_FLOAT == 4
HeaderSize == 4
FixedSize == [t \in {TYPE_INT, TYPE_LONG, TYPE_STRING, TYPE_LIST, TYPE_FLOAT} |-> <<5, 9, 5, 2, 5>>[t + 1]]

Zeros(n) == [i \in 1..n |-> 0]
Le32(v) == <<v, 0, 0, 0>>                         \* small values only
EncodeItem(x) ==
  CASE x.t \in {TYPE_INT, TYPE_FLOAT} -> <<x.t>> \o Le32(Head(x.v))
    [] x.t = TYPE_LONG -> <<x.t>> \o Le32(Head(x.v)) \o Zeros(4)
    [] x.t = TYPE_STRING -> <<x.t>> \o Le32(Len(x.v)) \o x.v
Tag == 7
Encode(items) == Le32(Tag) \o <<TYPE_LIST, Len(items)>> \o FlattenSeq([i \in 1..Len(items) |-> EncodeItem(items[i])])

Comma == -1
\* list_msg with one more value: no comma while it is still empty.
AddItem(list_msg, val) == (IF list_msg = <<>> THEN <<>> ELSE Append(list_msg, Comma)) \o val
Joined(items) == FoldLeft(LAMBDA m, x : AddItem(m, x.v), <<>>, items)

EventMessages ==
  LET whole == {[kind |-> "event", items |-> s, text |-> <<>>, cut |-> Len(Encode(s)), bad |-> 0, data |-> Encode(s)] :
                  s \in BoundedSeq(Items, MaxItems)}
  IN  UNION {{[m EXCEPT !.cut = k, !.data = SubSeq(m.data, 1, k)] : k \in 0..Len(m.data)}
             \cup {[m EXCEPT !.bad = k, !.data[k] = b] : k \in 1..Len(m.data), b \in BadBytes} : m \in whole}

\* A priority, the tag, a NUL, the text.
SystemMessages ==
  {[kind |-> "system", items |-> <<>>, text |-> s, cut |-> 0, bad |-> 0, data |-> d] :
     s \in BoundedSeq(Chars, MaxText), d \in {<<4, 84, 0>>, <<99, 84, 0>>, <<4, 84>>}}
InitMessage ==
  /\ dump \in EventMessages \cup SystemMessages
  /\ pc = dump.kind
  /\ pos = [p |-> 0, i |-> 0, cnt |-> 0, base |-> 0]
  /\ out = [tag |-> <<>>, list_msg |-> <<>>, msg |-> <<>>, priority |-> 0, shown |-> <<>>]

Data == IF dump.kind = "event" THEN dump.data ELSE dump.data \o dump.text
msg_len == Len(Data)
Byte(p) == Data[p + 1]
Int32(p) == Byte(p) + 256 * (Byte(p + 1) + 256 * (Byte(p + 2) + 256 * Byte(p + 3)))

NoEvent == [type |-> -1, val |-> <<>>, len |-> -1]

\* Mutant: the characters of a string do not have to fit.
GetEventLoose(p) ==
  IF p + 1 >= msg_len \/ Byte(p) \notin DOMAIN FixedSize \/ p + FixedSize[Byte(p)] > msg_len
  THEN NoEvent
  ELSE IF Byte(p) = TYPE_LIST THEN [type |-> TYPE_LIST, val |-> <<Byte(p + 1)>>, len |-> 2]
  ELSE [type |-> Byte(p), val |-> <<Int32(p + 1)>>,
        len |-> FixedSize[Byte(p)] + (IF Byte(p) = TYPE_STRING THEN Int32(p + 1) ELSE 0)]

\* The value at p: its type, how it is shown, its length; -1 where it is of no
\* known type or does not fit.
get_event(p) ==
  IF p + 1 >= msg_len \/ Byte(p) \notin DOMAIN FixedSize \/ p + FixedSize[Byte(p)] > msg_len
  THEN NoEvent
  ELSE LET type == Byte(p)
       IN  CASE type = TYPE_LIST -> [type |-> type, val |-> <<Byte(p + 1)>>, len |-> 2]
             [] type \in {TYPE_INT, TYPE_LONG, TYPE_FLOAT} -> [type |-> type, val |-> <<Int32(p + 1)>>, len |-> FixedSize[type]]
             [] type = TYPE_STRING ->
                  IF p + 5 + Int32(p + 1) > msg_len
                  THEN NoEvent
                  ELSE [type |-> type, val |-> SubSeq(Data, p + 6, p + 5 + Int32(p + 1)), len |-> 5 + Int32(p + 1)]

-----------------------------------------------------------------------------

\* One turn of the loop of parser_event_log, up to its list: the tag is taken
\* over even when no value follows it.
ParseEvent ==
  /\ pc = "event"
  /\ IF pos.p >= msg_len \/ pos.p + HeaderSize > msg_len
     THEN pc' = "print" /\ UNCHANGED <<pos, out>>
     ELSE LET tag == SubSeq(Data, pos.p + 1, pos.p + HeaderSize)
              p == pos.p + HeaderSize
              e == get_event(p)
          IN  CASE e.type = -1 -> pc' = "print" /\ out' = [out EXCEPT !.tag = tag] /\ UNCHANGED pos
                [] e.type = TYPE_LIST ->
                     /\ pc' = "list"
                     /\ pos' = [p |-> p + e.len, i |-> 0, cnt |-> Head(e.val), base |-> p]
                     /\ out' = [out EXCEPT !.tag = tag, !.list_msg = <<>>]
                [] OTHER ->
                     /\ pc' = "event"
                     /\ pos' = [pos EXCEPT !.p = p + e.len]
                     /\ out' = [out EXCEPT !.tag = tag, !.msg = e.val]
  /\ UNCHANGED dump

\* One turn of the loop over a list: the length of a value that cannot be read
\* is -1, so the next turn looks one byte earlier.
ParseListItem ==
  /\ pc = "list"
  /\ IF pos.i < pos.cnt /\ pos.p < msg_len
     THEN LET e == get_event(pos.p)
          IN  /\ out' = [out EXCEPT !.list_msg = AddItem(@, e.val)]
              /\ pos' = [pos EXCEPT !.p = @ + e.len, !.i = @ + 1]
              /\ UNCHANGED pc
     ELSE /\ out' = [out EXCEPT !.msg = out.list_msg]
          /\ pc' = "event"
          /\ UNCHANGED pos
  /\ UNCHANGED dump

LOG_DEFAULT == 1
LOG_SILENT == 8
\* parser_system_log: the priority, the tag up to its NUL, the text behind it; a
\* message without a NUL has neither tag nor text.
ParseSystem ==
  /\ pc = "system"
  /\ LET nuls == {k \in 2..msg_len : Data[k] = 0}
         nul == CHOOSE k \in nuls : \A j \in nuls : k <= j
         prio == IF Data[1] \in LOG_DEFAULT..LOG_SILENT THEN Data[1] ELSE LOG_DEFAULT
     IN  out' = [out EXCEPT !.priority = prio,
                            !.tag = IF nuls = {} THEN <<>> ELSE SubSeq(Data, 2, nul - 1),
                            !.msg = IF nuls = {} THEN <<>> ELSE SubSeq(Data, nul + 1, msg_len)]
  /\ pc' = "print"
  /\ UNCHANGED <<dump, pos>>

Newline == 10
Space == 32
IsPrintable(c) == c >= 32 /\ c <= 126
\* remove_invalid_chars: unprintable characters become blanks; nothing is left of
\* a text of blanks.
remove_invalid_chars(msg) ==
  IF \A i \in DOMAIN msg : ~IsPrintable(msg[i]) \/ msg[i] = Space
  THEN <<>>
  ELSE [i \in DOMAIN msg |-> IF msg[i] = Newline \/ IsPrintable(msg[i]) THEN msg[i] ELSE Space]

\* The text print_logcat_log shows, its trailing blanks removed; <<>>: no line.
\* An event stands in brackets, so that it is never blank.
PrintMessage ==
  /\ pc = "print"
  /\ LET valid == remove_invalid_chars(out.msg)
         solid == {k \in DOMAIN valid : valid[k] \notin {Space, Newline}}
     IN  out' = [out EXCEPT !.shown =
                   IF dump.kind = "event" THEN out.msg
                   ELSE IF valid = <<>> THEN <<>> ELSE SubSeq(valid, 1, CHOOSE k \in solid : \A j \in solid : j <= k)]
  /\ pc' = "done"
  /\ UNCHANGED <<dump, pos>>

NextMessage == ParseEvent \/ ParseListItem \/ ParseSystem \/ PrintMessage

SpecMessage == InitMessage /\ [][NextMessage]_vars /\ WF_vars(NextMessage)

-----------------------------------------------------------------------------

Whole == dump.kind = "event" /\ dump.bad = 0 /\ dump.cut = Len(Encode(dump.items))

\* An event log that is whole is shown with its own tag and all its values in
\* order, joined by commas (an empty string at the front leaves none).
EventExact == pc = "done" /\ Whole => out.tag = Le32(Tag) /\ out.shown = Joined(dump.items)

\* Whatever the bytes are, the reader stays inside the message, and however many
\* bytes back the values that cannot be read take it, it never falls behind the start of
\* the list it is in: that is why the loops of parser_event_log end.
EventInside == pos.p \in 0..msg_len /\ (pc = "list" => pos.base <= pos.p)

\* The values in front of the place where a message was cut off are right.
CutKeepsValues ==
  pc = "list" /\ pos.base = HeaderSize /\ dump.bad = 0 =>
    \A n \in 0..Len(dump.items) :
      pos.i = n /\ Len(Encode(SubSeq(dump.items, 1, n))) <= dump.cut =>
        out.list_msg = Joined(SubSeq(dump.items, 1, n))

\* A system log with a tag is shown with the printable part of its text, never
\* ending in a blank; one with nothing to show has no line.
SystemExact ==
  pc = "done" /\ dump.kind = "system" =>
    LET n == Len(out.shown)
        text == IF 0 \in Range(dump.data) THEN dump.text ELSE <<>>
    IN  /\ n <= Len(text) \/ text = <<>>
        /\ text # <<>> => \A i \in 1..n : IsPrintable(text[i]) => out.shown[i] = text[i]
        /\ n > 0 => out.shown[n] \notin {Space, Newline}
        /\ \A i \in DOMAIN text : IsPrintable(text[i]) /\ text[i] # Space => i <= n

-----------------------------------------------------------------------------
(***************************************************************************)
(* The logcat command of a session (logcat/): which reader it uses (LE, R, *)
(* S), how the log buffer of logd is found, the elements (R, LE) or the    *)
(* chunks of entries (S) taken into log_list, and the lines printed.  A    *)
(* message is "text", "blank" or "none" (unreadable or without a tag).     *)
(***************************************************************************)

MAIN == 0
RADIO == 1
EVENTS == 2
SYSTEM == 3
CRASH == 4
STATS == 5
SECURITY == 6
KERNEL == 7
ALL == 8
NoLogs == [i \in MAIN..KERNEL |-> <<>>]

InitLogcat ==
  /\ dump \in [sys : Systems, logd : BOOLEAN, elements : ElementSets, logs : LogSets,
               symbols : BOOLEAN,      \* a symbol file of logd is to be had
               byClass : BOOLEAN,      \* registers or the class layout lead to the buffer
               interrupts : BOOLEAN]
  /\ pc = "prompt"
  /\ pos = [cmds |-> 0, reader |-> "none", symbol |-> FALSE, list |-> <<>>, base |-> 0, i |-> 0, k |-> 0, id |-> ALL,
            stopped |-> FALSE]
  /\ out = [op |-> "none", rows |-> <<>>]

-----------------------------------------------------------------------------

NotANumber == -1
Empty == 0
\* cmd_main -b: the reader a session chooses; "none" where the version is not
\* known, and nothing is kept.
Reader ==
  LET version == IF dump.sys.sdk # Empty THEN dump.sys.sdk ELSE dump.sys.vndk
  IN  CASE dump.sys.init = "none" -> "R"
        [] dump.sys.init = "systemd" -> "LE"
        [] OTHER -> IF version \in {Empty, NotANumber} THEN "none" ELSE IF version >= 31 THEN "S" ELSE "R"

\* search_stdlist takes the first list that is not empty.
FirstFilled == CHOOSE i \in MAIN..KERNEL : dump.logs[i] # <<>> /\ \A j \in MAIN..(i - 1) : dump.logs[j] = <<>>
NotFound == -1
\* parser_logbuf_addr of LogcatS, as the index of the list it takes for the first:
\* a symbol, the registers and the class layout lead to logs_[0], the search of the
\* heap to the first list with a chunk in it.
BufferOfS ==
  CASE pos.symbol \/ dump.byClass -> MAIN
    [] dump.logs # NoLogs -> FirstFilled
    [] OTHER -> NotFound
\* Of LogcatR and LogcatLE: a list with an element in it, or the symbol's.
BufferOfR == IF pos.symbol \/ dump.elements # <<>> THEN MAIN ELSE NotFound
Buffer == IF pos.reader = "S" THEN BufferOfS ELSE BufferOfR

\* cmd_main -s: symbols are loaded for this and later commands.
LoadSymbols ==
  /\ pc = "prompt"
  /\ pos.cmds < MaxCatCmds
  /\ pos' = [pos EXCEPT !.cmds = @ + 1, !.symbol = @ \/ dump.symbols]
  /\ out' = [op |-> "s", rows |-> <<>>]
  /\ UNCHANGED <<dump, pc>>

\* Mutant: log_list is not looked at.
ParseAgain == FALSE

\* parser_logcat_log reads the buffer once.
AlreadyParsed == pos.list # <<>>

\* cmd_main -b: the reader, then parser_logcat_log up to its loop.
CmdMain ==
  /\ pc = "prompt"
  /\ pos.cmds < MaxCatCmds
  /\ \E id \in LogIds :
       LET r == IF pos.reader = "none" THEN Reader ELSE pos.reader
       IN  /\ pos' = [pos EXCEPT !.cmds = @ + 1, !.id = id, !.reader = r, !.i = 0, !.k = 1]
           /\ pc' = IF r = "none" THEN "prompt" ELSE IF ~dump.logd \/ AlreadyParsed THEN "print" ELSE "locate"
  /\ out' = [op |-> "b", rows |-> <<>>]
  /\ UNCHANGED dump

\* Where the buffer is; nothing is read when it is not found.
Locate ==
  /\ pc = "locate"
  /\ IF Buffer = NotFound
     THEN pc' = "print" /\ UNCHANGED pos
     ELSE pc' = pos.reader /\ pos' = [pos EXCEPT !.base = Buffer, !.i = Buffer]
  /\ UNCHANGED <<dump, out>>

IsSystem(id) == id \in {MAIN, RADIO, SYSTEM, CRASH, KERNEL}
Row(id, msg) == [id |-> id, as |-> IF IsSystem(id) THEN "system" ELSE "event", msg |-> msg]

\* parser_LogBufferElement of R and LE: what one element adds to log_list.
parser_LogBufferElement(e) ==
  IF e.addr # "ok" \/ e.dropped \/ e.id > KERNEL THEN <<>> ELSE <<Row(e.id, e.msg)>>

\* One turn of parser_logbuf of R and LE.
ParseElement ==
  /\ pc \in {"R", "LE"}
  /\ IF pos.k <= Len(dump.elements)
     THEN pos' = [pos EXCEPT !.list = @ \o parser_LogBufferElement(dump.elements[pos.k]), !.k = @ + 1] /\ UNCHANGED pc
     ELSE pc' = "print" /\ UNCHANGED pos
  /\ UNCHANGED <<dump, out>>

Abnormal(e) == e.pid = "abnormal" \/ ~e.fits
\* parser_SerializedLogEntry: the entries of a chunk up to the first that looks
\* damaged; what follows it in the chunk is given up.  One without a message is
\* passed over.
parser_SerializedLogEntry(id, entries) ==
  LET bad == {k \in DOMAIN entries : entries[k].len > 0 /\ Abnormal(entries[k])}
      stop == IF bad = {} THEN Len(entries) ELSE (CHOOSE k \in bad : \A j \in bad : k <= j) - 1
  IN  LET kept == SelectSeq(SubSeq(entries, 1, stop), LAMBDA e : e.len > 0)
      IN  [k \in DOMAIN kept |-> Row(id, kept[k].msg)]

\* The lists parser_logbuf of S reads: behind logs_ there is no list to be read.
ListAt(i) == IF i <= KERNEL THEN dump.logs[i] ELSE <<>>
\* parser_SerializedLogChunk: a chunk in use is read as it is, another one is
\* decompressed; one that cannot be read or decompressed adds nothing.
ParseChunk ==
  /\ pc = "S"
  /\ IF pos.i > pos.base + KERNEL
     THEN pc' = "print" /\ UNCHANGED pos
     ELSE /\ UNCHANGED pc
          /\ IF pos.k > Len(ListAt(pos.i))
             THEN pos' = [pos EXCEPT !.i = @ + 1, !.k = 1]
             ELSE LET c == ListAt(pos.i)[pos.k]
                      id == pos.i - pos.base
                  IN  pos' = [pos EXCEPT !.k = @ + 1,
                                         !.list = @ \o IF c.read THEN parser_SerializedLogEntry(id, c.entries) ELSE <<>>]
  /\ UNCHANGED <<dump, out>>

\* print_logcat_log: the entries of the id asked for that have a text.
PrintLogcat ==
  /\ pc = "print"
  /\ pc' = "prompt"
  /\ out' = [out EXCEPT !.rows = SelectSeq(pos.list, LAMBDA r : (pos.id = ALL \/ r.id = pos.id) /\ r.msg = "text")]
  /\ UNCHANGED <<dump, pos>>

\* A ^C while the buffer is read (external: crash goes back to its prompt).
Restart ==
  /\ dump.interrupts
  /\ pc \in {"R", "LE", "S"}
  /\ pc' = "prompt"
  /\ pos' = [pos EXCEPT !.stopped = pos.list # <<>>]
  /\ UNCHANGED <<dump, out>>

NextLogcat == LoadSymbols \/ CmdMain \/ Locate \/ ParseElement \/ ParseChunk \/ PrintLogcat \/ Restart

SpecLogcat == InitLogcat /\ [][NextLogcat]_vars /\ WF_vars(NextLogcat)

-----------------------------------------------------------------------------

\* Everything the buffer holds in the order it is read.
Entries(id) == FlattenSeq([k \in DOMAIN dump.logs[id] |->
                 IF dump.logs[id][k].read THEN parser_SerializedLogEntry(id, dump.logs[id][k].entries) ELSE <<>>])
Everything ==
  IF pos.reader = "S"
  THEN FlattenSeq([i \in 1..(KERNEL + 1) |-> Entries(i - 1)])
  ELSE FlattenSeq([k \in DOMAIN dump.elements |-> parser_LogBufferElement(dump.elements[k])])

\* log_list never holds an entry twice, whatever commands ran and were interrupted:
\* it is a prefix of the buffer's entries, and all of them once a reading came to
\* its end.  (The search of the heap may have taken a later list for the first.)
LogListSound ==
  /\ pos.base = MAIN => IsPrefix(pos.list, Everything)
  /\ pc = "print" /\ pos.base = MAIN /\ dump.logd /\ ~pos.stopped => pos.list = Everything \/ Buffer = NotFound
  /\ Len(pos.list) <= Len(Everything)

\* Of a chunk with a damaged entry the entries in front of it are kept, and the
\* other chunks are whole: a line that is missing from a complete listing stood
\* behind a damaged entry of its own chunk, or its chunk could not be read.
DamageStaysInChunk ==
  pc = "print" /\ pos.reader = "S" /\ pos.base = MAIN /\ ~pos.stopped /\ pos.list # <<>> =>
    \A id \in MAIN..KERNEL : \A k \in DOMAIN dump.logs[id] :
      LET c == dump.logs[id][k]
          ok == \A n \in DOMAIN c.entries : c.entries[n].len > 0 => ~Abnormal(c.entries[n])
      IN  c.read /\ ok =>
            Cardinality({n \in DOMAIN pos.list : pos.list[n].id = id}) >=
              Cardinality({n \in DOMAIN c.entries : c.entries[n].len > 0})

=============================================================================
