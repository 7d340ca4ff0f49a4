------------------------------ MODULE LzoBlock ------------------------------
(***************************************************************************)
(* lzo1x_decompress_safe (lib/lzo/lzo1x_decompress_safe.c), built without  *)
(* CONFIG_HAVE_EFFICIENT_UNALIGNED_ACCESS: every copy goes byte by byte,   *)
(* so the output is the sequence written so far.  A block is a sequence of *)
(* instructions [op, dist, len, lits]: a run of literals, the five kinds   *)
(* of match and the run of zeroes, each followed by up to three literals.  *)
(* The input is its encoding, intact, cut off or with bytes replaced.      *)
(***************************************************************************)
EXTENDS Integers, Sequences

CONSTANTS Programs,        \* the blocks
          Damage,          \* what a damaged byte may hold
          Sizes,           \* the sizes of the output buffer
          M2_MAX_OFFSET,   \* 0x0800 in the code
          Far,             \* 0x4000 in the code: where the distances of the last kind start
          MAX_255_COUNT    \* zero bytes of a length that are accepted; 2^64 / 255 - 2

VARIABLES dump, pc, pos, out
vars == <<dump, pc, pos, out>>

MIN_ZERO_RUN_LENGTH == 4
LE16(n) == <<n % 256, n \div 256>>

-----------------------------------------------------------------------------
(* The format: how an instruction is written, and what a block stands for.   *)

\* The bytes of a length that does not fit its field.
LongLength(n) == [i \in 1..((n - 1) \div 255) |-> 0] \o <<n - 255 * ((n - 1) \div 255)>>
Lengthened(base, max, n) == IF n <= max THEN <<base + n>> ELSE <<base>> \o LongLength(n - max)

EncodeOp(i) ==
  LET more == Len(i.lits)
  IN CASE i.op = "first" -> <<17 + more>> \o i.lits
       [] i.op = "lits" -> Lengthened(0, 15, more - 3) \o i.lits
       [] i.op = "two"  -> <<4 * ((i.dist - 1) % 4) + more, (i.dist - 1) \div 4>> \o i.lits
       [] i.op = "three" -> <<4 * ((i.dist - 1 - M2_MAX_OFFSET) % 4) + more, (i.dist - 1 - M2_MAX_OFFSET) \div 4>> \o i.lits
       [] i.op = "short" -> <<32 * (i.len - 1) + 4 * ((i.dist - 1) % 8) + more, (i.dist - 1) \div 8>> \o i.lits
       [] i.op = "mid" -> Lengthened(32, 31, i.len - 2) \o LE16(4 * (i.dist - 1) + more) \o i.lits
       [] i.op = "far" -> LET d == i.dist - Far
                          IN Lengthened(16 + 8 * (d \div Far), 7, i.len - 2) \o LE16(4 * (d % Far) + more) \o i.lits
       [] i.op = "zeroes" -> LET n == i.len - MIN_ZERO_RUN_LENGTH
                             IN <<24 + (n % 8)>> \o LE16(65532 + more) \o <<n \div 8>> \o i.lits
Start(ver) == IF ver THEN <<17, 1>> ELSE <<>>
Encode(b, ver) ==
  LET Upto[n \in 0..Len(b)] == IF n = 0 THEN Start(ver) ELSE Upto[n - 1] \o EncodeOp(b[n])
  IN Upto[Len(b)] \o <<17, 0, 0>>

\* A block is written with bytes; the distances the kinds of match start at.
Octet == 0..255
LzoAssumption ==
  /\ Damage \subseteq Octet /\ Sizes \subseteq Nat
  /\ \A b \in Programs, ver \in BOOLEAN : Encode(b, ver) \in Seq(Octet)
  /\ M2_MAX_OFFSET \in Nat /\ Far \in Nat \ {0}

Repeat(text, dist, n) == text \o [i \in 1..n |-> text[Len(text) - dist + 1 + ((i - 1) % dist)]]
Expand(b) ==
  LET Upto[n \in 0..Len(b)] ==
        IF n = 0 THEN <<>>
        ELSE (CASE b[n].op \in {"first", "lits"} -> Upto[n - 1]
                [] b[n].op = "zeroes" -> Upto[n - 1] \o [k \in 1..b[n].len |-> 0]
                [] OTHER -> Repeat(Upto[n - 1], b[n].dist, b[n].len)) \o b[n].lits
  IN Upto[Len(b)]

-----------------------------------------------------------------------------

\* A block with n + 1 bytes replaced.
Replaced(code, i, n, v) == [k \in 1..Len(code) |-> IF k \in i..i + n THEN v ELSE code[k]]

Init ==
  /\ \E b \in Programs, c \in Sizes, ver \in BOOLEAN :
       \/ dump = [block |-> b, src |-> Encode(b, ver), cap |-> c, ver |-> ver, intact |-> TRUE]
       \/ \E i \in 1..Len(Encode(b, ver)), n \in {0, 1}, v \in Damage :
            dump = [block |-> b, src |-> Replaced(Encode(b, ver), i, n, v), cap |-> c, ver |-> ver, intact |-> FALSE]
       \/ \E n \in 0..Len(Encode(b, ver)) - 1 :
            /\ Damage # {}
            /\ dump = [block |-> b, src |-> SubSeq(Encode(b, ver), 1, n), cap |-> c, ver |-> ver, intact |-> FALSE]
  /\ pc = "start"
  /\ pos = [ip |-> 0, state |-> 0, t |-> 0, next |-> 0, m |-> 0, ver |-> FALSE]
  /\ out = [text |-> <<>>, ret |-> "none", inside |-> TRUE]

ip_end == Len(dump.src)
op == Len(out.text)
In(at) == IF at < ip_end THEN dump.src[at + 1] ELSE 0
In16(at) == In(at) + 256 * In(at + 1)

\* The differences are cast to size_t: behind the end there is always enough.
HAVE_IP(at, n) == at > ip_end \/ ip_end - at >= n
HAVE_OP(n) == op > dump.cap \/ dump.cap - op >= n

\* n bytes are read, inside the input; bytes are written behind the text; the decoder stops.
InsideIn(at, n) == at >= 0 /\ at + n <= ip_end
Reads(at, n) == out' = [out EXCEPT !.inside = @ /\ InsideIn(at, n)]
Writes(text, at, n) == out' = [out EXCEPT !.text = text, !.inside = @ /\ InsideIn(at, n)]
Stop(what, at, n) == /\ pc' = "done"
                     /\ out' = [out EXCEPT !.ret = what, !.inside = @ /\ InsideIn(at, n)]
Overrun(what) == Stop(what, 0, 0) /\ UNCHANGED pos

\* The literals from ip on, at least as many as a loop that looks behind its body moves.
AtLeast(least, n) == IF n < least THEN least ELSE n
Literals(n) == SubSeq(dump.src, pos.ip + 1, pos.ip + n)

\* The zero bytes from at on, up to the end of the input.
ZeroesAt(at) == CHOOSE n \in 0..ip_end : /\ \A k \in 0..n - 1 : at + k < ip_end /\ In(at + k) = 0
                                         /\ at + n >= ip_end \/ In(at + n) # 0

-----------------------------------------------------------------------------

\* The version in front of the block, and a first byte above 17: literals at once.
Versioned == ip_end >= 5 /\ In(0) = 17
First == IF Versioned THEN 2 ELSE 0
Begin ==
  /\ pc = "start"
  /\ UNCHANGED dump
  /\ \/ ip_end < 3 /\ Overrun("input_overrun")
     \/ /\ ip_end >= 3 /\ In(First) <= 17
        /\ pos' = [pos EXCEPT !.ver = Versioned /\ In(1) # 0, !.ip = First]
        /\ Reads(First, 1)
        /\ pc' = "op"
     \/ /\ ip_end >= 3 /\ In(First) > 17
        /\ pos' = [pos EXCEPT !.ver = Versioned /\ In(1) # 0, !.ip = First + 1, !.t = In(First) - 17, !.next = In(First) - 17]
        /\ Reads(First, 1)
        /\ pc' = IF In(First) - 17 < 4 THEN "next" ELSE "run"

\* The byte of an instruction is read, and the one behind it.
Op(states, bytes) == pc = "op" /\ pos.state \in states /\ In(pos.ip) \in bytes /\ UNCHANGED dump
At == pos.ip + 1
T == In(pos.ip)

\* A length: what its field holds, or for 0 what goes on over zero bytes.  Where it ends,
\* and why it fails.
LengthIp(field) == IF field = 0 THEN At + ZeroesAt(At) + 1 ELSE At
Length(field, max) == IF field = 0 THEN max + 255 * ZeroesAt(At) + In(At + ZeroesAt(At)) ELSE field
LengthFails(field) ==
  CASE field = 0 /\ At + ZeroesAt(At) >= ip_end -> "input_overrun"
    [] field = 0 /\ At + ZeroesAt(At) < ip_end /\ ZeroesAt(At) > MAX_255_COUNT -> "error"
    [] OTHER -> ""

\* A match whose length goes on asks for the two bytes of its distance.
MatchFails(field) ==
  IF LengthFails(field) = "" /\ field = 0 /\ ~HAVE_IP(LengthIp(field), 2) THEN "input_overrun" ELSE LengthFails(field)

LiteralRun ==
  /\ Op({0}, 0..15)
  /\ \/ LengthFails(T) # "" /\ Stop(LengthFails(T), pos.ip, 2) /\ UNCHANGED pos
     \/ /\ LengthFails(T) = ""
        /\ pos' = [pos EXCEPT !.ip = LengthIp(T), !.t = Length(T, 15) + 3]
        /\ Reads(pos.ip, LengthIp(T) - pos.ip)
        /\ pc' = "run"

\* Mutant: the bytes of the next instruction are not asked for.
ShortOfInput(n) == ~HAVE_IP(pos.ip, n)

\* NEED_IP(t + 3): the literals and the three bytes that end every block.
Short(n) == ~HAVE_IP(pos.ip, n + 3)

CopyRun ==
  /\ pc = "run"
  /\ UNCHANGED dump
  /\ \/ ~HAVE_OP(pos.t) /\ Overrun("output_overrun")
     \/ HAVE_OP(pos.t) /\ Short(pos.t) /\ Overrun("input_overrun")
     \/ /\ HAVE_OP(pos.t) /\ ~Short(pos.t)
        /\ Writes(out.text \o Literals(AtLeast(1, pos.t)), pos.ip, AtLeast(1, pos.t))
        /\ pos' = [pos EXCEPT !.ip = @ + AtLeast(1, pos.t), !.state = 4]
        /\ pc' = "op"

\* Two bytes of a near match, after an instruction with literals.
NearDist == 1 + T \div 4 + 4 * In(At)
NearTwo ==
  /\ Op(1..3, 0..15)
  /\ pos' = [pos EXCEPT !.ip = At + 1, !.next = T % 4]
  /\ \/ NearDist > op /\ Stop("lookbehind_overrun", pos.ip, 2)
     \/ NearDist <= op /\ ~HAVE_OP(2) /\ Stop("output_overrun", pos.ip, 2)
     \/ /\ NearDist <= op /\ HAVE_OP(2)
        /\ Writes(Repeat(out.text, NearDist, 2), pos.ip, 2)
        /\ pc' = "next"

\* Three bytes from beyond the near matches, after a run of literals.
BeyondThree ==
  /\ Op({4}, 0..15)
  /\ pos' = [pos EXCEPT !.ip = At + 1, !.next = T % 4, !.t = 3, !.m = op - (M2_MAX_OFFSET + NearDist)]
  /\ Reads(pos.ip, 2)
  /\ pc' = "match"

ShortDist == 1 + ((T \div 4) % 8) + 8 * In(At)
ShortMatch ==
  /\ Op(0..4, 64..255)
  /\ pos' = [pos EXCEPT !.ip = At + 1, !.next = T % 4, !.t = T \div 32 + 1, !.m = op - ShortDist]
  /\ Reads(pos.ip, 2)
  /\ pc' = "match"

\* What the two bytes behind a length say: a distance, and the literals that follow.
Word(field) == In16(LengthIp(field))

MidMatch ==
  /\ Op(0..4, 32..63)
  /\ \/ MatchFails(T % 32) # "" /\ Stop(MatchFails(T % 32), pos.ip, 2) /\ UNCHANGED pos
     \/ /\ MatchFails(T % 32) = ""
        /\ pos' = [pos EXCEPT !.ip = LengthIp(T % 32) + 2, !.next = Word(T % 32) % 4,
                              !.t = Length(T % 32, 31) + 2, !.m = op - (1 + Word(T % 32) \div 4)]
        /\ Reads(LengthIp(T % 32), 2)
        /\ pc' = "match"

\* The run of zeroes of the second version of the format.
IsZeroRun == HAVE_IP(At, 2) /\ T >= 24 /\ In16(At) \div 4 = 16383 /\ pos.ver
ZeroLength == (T % 8) + 8 * In(At + 2) + MIN_ZERO_RUN_LENGTH
ZeroRun ==
  /\ Op(0..4, 16..31) /\ IsZeroRun
  /\ \/ ~HAVE_IP(At, 3) /\ Overrun("input_overrun")
     \/ HAVE_IP(At, 3) /\ ~HAVE_OP(ZeroLength) /\ Overrun("output_overrun")
     \/ /\ HAVE_IP(At, 3) /\ HAVE_OP(ZeroLength)
        /\ Writes(out.text \o [i \in 1..ZeroLength |-> 0], pos.ip, 4)
        /\ pos' = [pos EXCEPT !.ip = At + 3, !.next = In16(At) % 4]
        /\ pc' = "next"

\* A far match, or with distance 0 the end of the block.
Back == (IF T >= 24 THEN Far ELSE 0) + Word(T % 8) \div 4
AtEnd(t, ip) == IF t # 3 THEN "error" ELSE IF ip = ip_end THEN "ok" ELSE IF ip < ip_end THEN "not_consumed" ELSE "input_overrun"
FarMatch ==
  /\ Op(0..4, 16..31) /\ ~IsZeroRun
  /\ \/ ~HAVE_IP(At, 2) /\ Overrun("input_overrun")
     \/ HAVE_IP(At, 2) /\ MatchFails(T % 8) # "" /\ Stop(MatchFails(T % 8), pos.ip, 3) /\ UNCHANGED pos
     \/ /\ HAVE_IP(At, 2) /\ MatchFails(T % 8) = ""
        /\ pos' = [pos EXCEPT !.ip = LengthIp(T % 8) + 2, !.next = Word(T % 8) % 4,
                              !.t = Length(T % 8, 7) + 2, !.m = op - (Back + Far)]
        /\ \/ Back = 0 /\ Stop(AtEnd(Length(T % 8, 7) + 2, LengthIp(T % 8) + 2), LengthIp(T % 8), 2)
           \/ Back # 0 /\ Reads(LengthIp(T % 8), 2) /\ pc' = "match"

CopyMatch ==
  /\ pc = "match"
  /\ UNCHANGED <<dump, pos>>
  /\ \/ pos.m < 0 /\ Stop("lookbehind_overrun", 0, 0)
     \/ pos.m >= 0 /\ ~HAVE_OP(pos.t) /\ Stop("output_overrun", 0, 0)
     \/ /\ pos.m >= 0 /\ HAVE_OP(pos.t)
        /\ Writes(Repeat(out.text, op - pos.m, AtLeast(3, pos.t)), 0, 0)
        /\ pc' = "next"

\* match_next: up to three literals behind a match.
MatchNext ==
  /\ pc = "next"
  /\ UNCHANGED dump
  /\ \/ Short(pos.next) /\ Overrun("input_overrun")
     \/ ~Short(pos.next) /\ ~HAVE_OP(pos.next) /\ Overrun("output_overrun")
     \/ /\ ~Short(pos.next) /\ HAVE_OP(pos.next)
        /\ Writes(out.text \o Literals(pos.next), pos.ip, pos.next)
        /\ pos' = [pos EXCEPT !.ip = @ + pos.next, !.state = pos.next]
        /\ pc' = "op"

Next == \/ Begin \/ LiteralRun \/ CopyRun \/ NearTwo \/ BeyondThree \/ ShortMatch \/ MidMatch
        \/ ZeroRun \/ FarMatch \/ CopyMatch \/ MatchNext
Spec == Init /\ [][Next]_vars /\ WF_vars(Next)

-----------------------------------------------------------------------------

\* An intact block decodes to exactly the bytes it stands for when the buffer is large
\* enough; one that does not fit is refused and not cut short silently.  (Without the
\* version a run of zeroes is read as a far match.)
LzoExact ==
  pc = "done" /\ dump.intact /\ (dump.ver \/ \A i \in DOMAIN dump.block : dump.block[i].op # "zeroes") =>
    IF dump.cap >= Len(Expand(dump.block)) THEN out.ret = "ok" /\ out.text = Expand(dump.block)
    ELSE out.ret = "output_overrun"

\* Damaged or not, nothing is read past the input or written past the buffer, no check
\* is made behind the end, where its difference would be no small number, and at the
\* start of an instruction three bytes are left.
DecodedInside ==
  /\ out.inside
  /\ op <= dump.cap /\ pos.ip <= ip_end
  /\ pc = "op" => pos.ip + 3 <= ip_end
=============================================================================
