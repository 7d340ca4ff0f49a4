-------------------------------- MODULE QLog --------------------------------
(***************************************************************************)
(* The qlog command (qlog/qlog.cpp): the power-on log of the PMIC (-p),    *)
(* with its tables of labels read again by every command; the boot log     *)
(* (-b); the boot loader's log in a region of the device tree (-x).        *)
(* An entry is [event, d0, d1], its data bytes the sets of their bits.     *)
(***************************************************************************)
EXTENDS Integers, Sequences, FiniteSets, SequencesExt

CONSTANTS PonLogs,      \* the logs: Seq of [ok, event, d0, d1], or empty
          Labels,       \* how many labels each table of reasons has
          Triggers,     \* the codes <<d1, d0>> that have a label
          ResetTypes,   \* the reset types that have a label
          Devices,      \* the platform devices: Seq of [pon, data]
          BootBufs,     \* [addr, size, pos, left, text], text a Seq of characters
          UefiNodes,    \* [own, merged]: Seq of the cells of reg, or <<>> without the node
          MaxQlogCmds   \* bound on the commands of a session

VARIABLES dump, pc, pos, out
vars == <<dump, pc, pos, out>>

Reasons == {"fault1", "fault2", "fault3", "pbl", "s3"}

Init ==
  /\ dump \in [log : PonLogs, labels : Labels, symbols : BOOLEAN, devices : Devices, boot : BootBufs, uefi : UefiNodes]
  /\ pc = "prompt"
  /\ pos = [cmds |-> 0, i |-> 1, important |-> TRUE, table |-> [t \in Reasons |-> <<>>]]
  /\ out = [op |-> "none", rows |-> <<>>, text |-> <<>>, base |-> 0, size |-> 0]

\* print_pmic_info: the last device of that name whose driver data is an address.
PonDevices == SelectSeq(dump.devices, LAMBDA d : d.pon /\ d.data)

\* read_pmic_pon_trigger_maps: each table is filled behind what an earlier command left.
\* The flag is_important of parser_pmic_pon_log_dev starts as anything.
PrintPmicInfo ==
  /\ pc = "prompt"
  /\ pos.cmds < MaxQlogCmds
  /\ \E flag \in BOOLEAN :
       pos' = [pos EXCEPT !.cmds = @ + 1, !.i = 1, !.important = flag,
                          !.table = IF PonDevices = <<>> \/ ~dump.symbols THEN @
                                    ELSE [t \in Reasons |-> @[t] \o [k \in 1..dump.labels |-> <<t, k - 1>>]]]
  /\ out' = [out EXCEPT !.op = "p", !.rows = <<>>]
  /\ pc' = IF PonDevices = <<>> \/ ~dump.symbols THEN "prompt" ELSE "entry"
  /\ UNCHANGED dump

\* Mutant: the highest bit is left out.
SevenBits == 0..6

Bits == 0..7

\* pmic_pon_log_print_reason: "none", or the labels of the bits that are set.
Register(t, data) ==
  [reg |-> t, labels |-> LET set == SetToSortSeq(data \cap Bits, <)
                         IN [k \in DOMAIN set |-> IF set[k] < Len(pos.table[t]) THEN pos.table[t][set[k] + 1] ELSE <<"?", 0>>]]

\* The registers an entry shows: a zero one only where the entry is not important.
Both(t0, d0, t1, d1, imp) == (IF d0 # {} \/ ~imp THEN <<Register(t0, d0)>> ELSE <<>>)
                             \o (IF d1 # {} \/ ~imp THEN <<Register(t1, d1)>> ELSE <<>>)

Text(what) == <<[reg |-> what, labels |-> <<>>]>>

\* One entry of the log; an unreadable one is passed over.  The flag, once cleared by an
\* entry without data, stays cleared.
ParseEntry ==
  /\ pc = "entry"
  /\ UNCHANGED dump
  /\ IF pos.i > Len(dump.log) THEN pc' = "prompt" /\ UNCHANGED <<pos, out>>
     ELSE LET e == dump.log[pos.i]
              clears == CASE e.event \in {"fault12", "fundamental", "sid", "vreg"} -> e.d0 = {} /\ e.d1 = {}
                          [] e.event = "fault3" -> e.d0 = {}
                          [] OTHER -> FALSE
              imp == pos.important /\ ~clears
              rows == CASE e.event = "fault12" -> Both("fault1", e.d0, "fault2", e.d1, imp)
                        [] e.event = "sid" -> Text("sid") \o Both("fault1", e.d0, "fault2", e.d1, imp)
                        [] e.event = "fundamental" -> Text("fundamental") \o Both("pbl", e.d1, "s3", e.d0, imp)
                        [] e.event = "fault3" -> <<Register("fault3", e.d0)>>
                        [] e.event \in {"trigger", "reset"} -> Text(IF <<e.d1, e.d0>> \in Triggers THEN "label" ELSE "numbers")
                        [] e.event = "type" -> Text(IF e.d0 \in ResetTypes THEN "label" ELSE "unknown")
                        [] e.event = "vreg" -> Text(IF e.d0 = {} /\ e.d1 = {} THEN "no fault" ELSE "fault")
                        [] OTHER -> Text(e.event)
              wild == \E r \in DOMAIN rows : <<"?", 0>> \in Range(rows[r].labels)
          IN /\ pos' = [pos EXCEPT !.i = @ + 1, !.important = IF e.ok THEN imp ELSE @]
             /\ out' = IF e.ok THEN [out EXCEPT !.rows = Append(@, [i |-> pos.i, shown |-> rows])] ELSE out
             /\ pc' = IF e.ok /\ wild THEN "undefined" ELSE "entry"

-----------------------------------------------------------------------------

\* remove_invalid_chars: newlines and printable characters; nothing of a text of blanks.
remove_invalid_chars(s) ==
  LET kept == SelectSeq(s, LAMBDA c : c \in {"newline", "space", "letter"})
  IN IF "letter" \in Range(s) THEN kept ELSE <<>>

\* The size of the boot log: its own word, or what is used and left, or a default.
BootSize(b) == IF b.size # 0 THEN b.size ELSE IF b.pos # 0 /\ b.left # 0 THEN b.pos - b.addr + b.left ELSE 524288

PrintBootLog ==
  /\ pc = "prompt"
  /\ pos.cmds < MaxQlogCmds
  /\ pos' = [pos EXCEPT !.cmds = @ + 1]
  /\ out' = [out EXCEPT !.op = "b", !.text = IF dump.symbols /\ dump.boot.addr # 0 /\ BootSize(dump.boot) <= Len(dump.boot.text)
                                             THEN remove_invalid_chars(SubSeq(dump.boot.text, 1, BootSize(dump.boot))) ELSE <<>>]
  /\ UNCHANGED <<dump, pc>>

\* print_sbl_log: the region of its own, or a fixed part of the merged one.
PrintSblLog ==
  /\ pc = "prompt"
  /\ pos.cmds < MaxQlogCmds
  /\ pos' = [pos EXCEPT !.cmds = @ + 1]
  /\ LET merged == dump.uefi.own = <<>>
         reg == IF merged THEN dump.uefi.merged ELSE dump.uefi.own
     IN out' = IF Len(reg) < 4 THEN [out EXCEPT !.op = "x", !.base = 0, !.size = 0]
               ELSE [out EXCEPT !.op = "x", !.base = reg[2] + (IF merged THEN 409600 ELSE 0),
                                            !.size = IF merged THEN 65536 ELSE reg[4]]
  /\ UNCHANGED <<dump, pc>>

Next == PrintPmicInfo \/ ParseEntry \/ PrintBootLog \/ PrintSblLog
Spec == Init /\ [][Next]_vars /\ WF_vars(Next)

-----------------------------------------------------------------------------

Listed(row, t) == SelectSeq(row.shown, LAMBDA r : r.reg = t)
RegisterOf(e, t) ==
  CASE t \in {"fault1"} /\ e.event \in {"fault12", "sid"} -> e.d0
    [] t \in {"fault2"} /\ e.event \in {"fault12", "sid"} -> e.d1
    [] t = "pbl" /\ e.event = "fundamental" -> e.d1
    [] t = "s3" /\ e.event = "fundamental" -> e.d0
    [] t = "fault3" /\ e.event = "fault3" -> e.d0
    [] OTHER -> {}

\* With whole tables every bit of every register is named with its own label, in each
\* of the commands, whatever the uninitialised flag was and however often the tables
\* were read; every readable entry has its row, in order.
PonLogExact ==
  pc = "prompt" /\ out.op = "p" /\ PonDevices # <<>> /\ dump.symbols /\ dump.labels >= 8 =>
    /\ [k \in DOMAIN out.rows |-> out.rows[k].i] = SelectSeq([i \in DOMAIN dump.log |-> i], LAMBDA i : dump.log[i].ok)
    /\ \A k \in DOMAIN out.rows, t \in Reasons :
         LET data == RegisterOf(dump.log[out.rows[k].i], t)
             shown == Listed(out.rows[k], t)
         IN data # {} => Len(shown) = 1 /\ Range(shown[1].labels) = {<<t, b>> : b \in data}

\* A label is looked up outside its table only when the table is too short for the bit.
UndefinedOnlyShort == pc = "undefined" => dump.labels < 8

\* The boot log has exactly the readable characters of the buffer, and only its bytes.
BootLogExact ==
  out.op = "b" /\ out.text # <<>> =>
    /\ "letter" \in Range(out.text)
    /\ Len(out.text) = Cardinality({i \in 1..BootSize(dump.boot) : dump.boot.text[i] \in {"newline", "space", "letter"}})
=============================================================================
