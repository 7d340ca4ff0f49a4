------------------------------- MODULE MCLogs -------------------------------
(***************************************************************************)
(* The commands that reassemble logs, for TLC: of ring buffers (rtb, ipc,  *)
(* pstore, ftrace with the pages of a ring, the events of a page and the   *)
(* file of ftrace -d), of the log daemons of user space (logcat, with the  *)
(* messages of its entries; journal) and of the boot loader (qlog).  A     *)
(* behaviour is the life of one buffer and the commands on it, or a        *)
(* session of one command.                                                 *)
(***************************************************************************)
EXTENDS Integers, Sequences, FiniteSets

VARIABLES which, dump, pc, pos, out

\* Buffers of 8 entries for 1 to 3 cpus (3 leaves 2 entries unused), never
\* wrapped, wrapped once and more; idx crosses the sign bit of 6 bits.
\* Two pages of 4 bytes: messages that lie in one page or in both.
\* A zone of 11 bytes that wraps after two or three messages.
R == INSTANCE RingLogs WITH
  RtbSizes <- {<<8, 2>>, <<8, 3>>, <<8, 1>>}, RtbCounts <- {0, 1, 4, 7, 17}, Width <- 6,
  Pages <- 2, DataSize <- 4, MsgSizes <- {1, 3}, MaxMsgs <- 8, MaxIpcCmds <- 2,
  ZoneHead <- 1, ZoneData <- 11, HeadLen <- 2, PmsgSizes <- {3, 4, 5}, MaxPmsgs <- 6

\* Rings of up to 2 pages and the reader page, two commands.
\* Up to 3 records in a page; the upper part 4 overflows.
\* A file of two cpus with up to two pages, two or three trace arrays.
T == INSTANCE Ftrace WITH
  MaxPages <- 2, MaxTraceCmds <- 2,
  MaxRecords <- 3, DeltaBits <- 2, UintBits <- 4, Highs <- {0, 1, 3, 4},
  PageSize <- 64, NrCpus <- 2, MaxData <- 2, HeadSizes <- {33}, Systems <- {"irq", "sched"}

Item(t, v) == [t |-> t, v |-> v]

LogEntry(pid, len, fits, msg) == [pid |-> pid, len |-> len, fits |-> fits, msg |-> msg]
Good == LogEntry("ok", 2, TRUE, "text")
Chunk(read, entries) == [read |-> read, entries |-> entries]
Damaged == Chunk(TRUE, <<Good, LogEntry("abnormal", 2, TRUE, "text"), Good>>)
Mixed == Chunk(TRUE, <<LogEntry("abnormal", 0, TRUE, "none"), Good, LogEntry("ok", 2, TRUE, "blank")>>)
NoLogs == [i \in 0..7 |-> <<>>]
Element(addr, dropped, id) == [addr |-> addr, dropped |-> dropped, id |-> id, msg |-> "text"]

\* Binary events of up to two values of each type, cut anywhere, with wrong type
\* bytes; texts of up to three characters, blanks and ends of lines among them.
\* The three formats of the log daemon; chunks with a damaged entry in the middle,
\* an empty one, a chunk that cannot be read; three commands.
L == INSTANCE Logcat WITH
  Items <- {Item(0, <<5>>), Item(1, <<3>>), Item(2, <<65>>), Item(2, <<>>)}, MaxItems <- 2,
  BadBytes <- {0, 1, 2, 3, 4, 6}, Chars <- {0, 10, 32, 66}, MaxText <- 3,
  Systems <- {[init |-> "none", sdk |-> 0, vndk |-> 0], [init |-> "systemd", sdk |-> 0, vndk |-> 0],
              [init |-> "init", sdk |-> 0, vndk |-> -1], [init |-> "init", sdk |-> 0, vndk |-> 31],
              [init |-> "init", sdk |-> 30, vndk |-> 31]},
  ElementSets <- {<<>>, <<Element("ok", FALSE, 0), Element("ok", TRUE, 2)>>,
                  <<Element("ok", FALSE, 2), Element("bad", FALSE, 0), Element("ok", FALSE, 9)>>},
  LogSets <- {NoLogs, [NoLogs EXCEPT ![0] = <<Damaged, Mixed>>, ![2] = <<Mixed>>],
              [NoLogs EXCEPT ![1] = <<Chunk(FALSE, <<Good>>), Mixed>>, ![7] = <<Damaged>>]},
  LogIds <- {0, 8}, MaxCatCmds <- 3

PonEvent(ok, event, d0, d1) == [ok |-> ok, event |-> event, d0 |-> d0, d1 |-> d1]

\* Logs of three power events, the boot log before and after it has wrapped.
Q == INSTANCE QLog WITH
  PonLogs <- {<<PonEvent(TRUE, v, a, b), PonEvent(v # "sid", w, {0, 7}, {1}), PonEvent(TRUE, "fault12", {}, b)>> :
                v \in {"fault12", "fault3", "fundamental", "sid", "vreg"}, w \in {"reset", "sid"},
                a \in {{}, {0, 2}}, b \in {{}, {7}}}
             \cup {<<PonEvent(TRUE, "trigger", {0}, {}), PonEvent(TRUE, "type", {0}, {}), PonEvent(TRUE, "type", {1}, {})>>},
  Labels <- {5, 8}, Triggers <- {<<{}, {0}>>}, ResetTypes <- {{0}},
  Devices <- {<<[pon |-> TRUE, data |-> FALSE], [pon |-> TRUE, data |-> TRUE], [pon |-> FALSE, data |-> TRUE]>>,
              <<[pon |-> TRUE, data |-> FALSE]>>},
  BootBufs <- {[addr |-> 2, size |-> s, pos |-> 3, left |-> 2, text |-> <<"letter", "junk", "space", "newline">>] : s \in {0, 4}},
  UefiNodes <- {[own |-> o, merged |-> <<0, 4096, 0, 99>>] : o \in {<<>>, <<0, 1, 0, 2>>}}, MaxQlogCmds <- 2

Path(base, journal) == [base |-> base, journal |-> journal]
Mapped(path, data) == [path |-> path, data |-> data]
Cached(at, read) == [at |-> at, read |-> read]
File(paths, mapping, pages) == [paths |-> paths, mapping |-> mapping, pages |-> pages]

\* Three mappings, two of one journal; four inodes, with a page that is missing in the
\* middle, one that cannot be read, and no name.
J == INSTANCE Journal WITH
  Base <- 1, MaxJournalCmds <- 2,
  VmaSets <- {<<Mapped(Path("a", TRUE), <<1, 2>>), Mapped(Path("b", j), <<3>>), Mapped(Path("a", TRUE), <<4>>)>> : j \in BOOLEAN},
  InodeSets <- {<<File(<<Path("", FALSE), Path("a", TRUE)>>, TRUE, <<Cached(1, TRUE), Cached(2, r)>>),
                  File(<<Path("b", TRUE)>>, m, <<Cached(2, TRUE)>>),
                  File(<<Path(l, l # "lib")>>, TRUE, <<Cached(1, TRUE), Cached(3, TRUE)>>), File(<<>>, TRUE, <<>>)>> :
                    r \in BOOLEAN, m \in BOOLEAN, l \in {"a", "lib"}}

MCInit ==
  \/ which = "rtb" /\ R!InitRtb
  \/ which = "ipc" /\ R!InitIpc
  \/ which = "pmsg" /\ R!InitPmsg
  \/ which = "ftrace ring" /\ T!InitRing
  \/ which = "ftrace page" /\ T!InitPage
  \/ which = "ftrace -d" /\ T!InitFile
  \/ which = "message" /\ L!InitMessage
  \/ which = "logcat" /\ L!InitLogcat
  \/ which = "qlog" /\ Q!Init
  \/ which = "journal" /\ J!Init

MCNext ==
  /\ \/ which = "rtb" /\ R!NextRtb
     \/ which = "ipc" /\ R!NextIpc
     \/ which = "pmsg" /\ R!NextPmsg
     \/ which = "ftrace ring" /\ T!NextRing
     \/ which = "ftrace page" /\ T!NextPage
     \/ which = "ftrace -d" /\ T!NextFile
     \/ which = "message" /\ L!NextMessage
     \/ which = "logcat" /\ L!NextLogcat
     \/ which = "qlog" /\ Q!Next
     \/ which = "journal" /\ J!Next
  /\ UNCHANGED which

vars == <<which, dump, pc, pos, out>>

MCSpec == MCInit /\ [][MCNext]_vars /\ WF_vars(MCNext)

-----------------------------------------------------------------------------

\* rtb prints the entries of each cpu from the oldest one left to the newest, ipc the
\* messages that have not been dropped, and pstore -p those of the zone in the order
\* they were written; qlog decodes each power event with its own bits and the boot log
\* from where it was left; journal writes each mapping of a journal once and of a file in
\* the page cache the pages up to the first that is missing.
LogsExact ==
  /\ which = "rtb" => R!RtbLogExact
  /\ which = "ipc" => R!IpcLogExact
  /\ which = "pmsg" => R!PmsgInOrder /\ R!PmsgComplete
  /\ which = "qlog" => Q!PonLogExact /\ Q!UndefinedOnlyShort /\ Q!BootLogExact
  /\ which = "journal" => J!JournalsListed /\ J!MappingsOnce /\ J!CachedPrefixExact

\* ftrace prints the committed pages of the buffers asked for by time, finds the events
\* of a page and their times, and ftrace -d writes a file trace-cmd can follow.
FtraceExact ==
  /\ which = "ftrace ring" => T!TraceExact
  /\ which = "ftrace page" => T!PageExact
  /\ which = "ftrace -d" => T!TraceFileExact

\* ftrace finds the records behind one whose length is in its array field.
LargeRecordSkipped == which = "ftrace page" => T!LargeRecordSkipped

\* logcat finds the values of an event and reads none outside it, keeps each message
\* once over a session, and loses to a damaged entry only the rest of its chunk.
LogcatExact ==
  /\ which = "message" => L!EventExact /\ L!EventInside /\ L!CutKeepsValues /\ L!SystemExact
  /\ which = "logcat" => L!LogListSound /\ L!DamageStaysInChunk

\* rtb ends when the newest entry of each cpu is intact; the scan of a message, the
\* sessions of logcat, qlog and journal always end.
LogsEnd ==
  <>[](CASE which = "rtb" -> R!NewestIntact => pc = "done"
         [] which = "message" -> pc = "done"
         [] which = "logcat" -> pc = "prompt"
         [] which \in {"qlog", "journal"} -> pc \in {"prompt", "undefined"}
         [] OTHER -> TRUE)

=============================================================================
