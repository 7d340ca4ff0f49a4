------------------------------ MODULE Lz4Block ------------------------------
(***************************************************************************)
(* LZ4_decompress_generic (lib/lz4/lz4_decompress.c) as zram calls it, with *)
(* endOnInputSize, decode_full_block and noDict: one action per stage of   *)
(* the loop over sequences, every copy with the extra bytes it moves.      *)
(* A block is a sequence of [lits, off, mlen]; the last one has literals   *)
(* only.  The input is the encoding of a block, intact, cut off or with    *)
(* bytes replaced.                                                         *)
(***************************************************************************)
EXTENDS Integers, Sequences

CONSTANTS Blocks,        \* the blocks, each a Seq of [lits, off, mlen]
          BadBytes,      \* what a damaged byte may hold
          Capacities     \* the sizes of the output buffer

VARIABLES dump, pc, pos, out
vars == <<dump, pc, pos, out>>

MINMATCH == 4
WILDCOPYLENGTH == 8
LASTLITERALS == 5
MFLIMIT == WILDCOPYLENGTH + MINMATCH
MATCH_SAFEGUARD_DISTANCE == (2 * WILDCOPYLENGTH) - MINMATCH
ML_MASK == 15
RUN_MASK == 15

-----------------------------------------------------------------------------
(* The format: how a block is written, and what it stands for.              *)

\* The bytes that follow a nibble of 15.
Extra(n) == IF n < 15 THEN <<>> ELSE [i \in 1..((n - 15) \div 255) |-> 255] \o <<(n - 15) % 255>>
Nibble(n) == IF n < 15 THEN n ELSE 15
EncodeOne(s) ==
  <<16 * Nibble(Len(s.lits)) + (IF s.off = 0 THEN 0 ELSE Nibble(s.mlen - MINMATCH))>>
  \o Extra(Len(s.lits)) \o s.lits
  \o (IF s.off = 0 THEN <<>> ELSE <<s.off % 256, s.off \div 256>> \o Extra(s.mlen - MINMATCH))
Encode(b) ==
  LET Upto[i \in 0..Len(b)] == IF i = 0 THEN <<>> ELSE Upto[i - 1] \o EncodeOne(b[i]) IN Upto[Len(b)]

\* A block is written with bytes.
Octet == 0..255
Lz4Assumption ==
  /\ BadBytes \subseteq Octet /\ Capacities \subseteq Nat
  /\ \A b \in Blocks : Encode(b) \in Seq(Octet)

Repeat(text, off, n) == text \o [i \in 1..n |-> text[Len(text) - off + 1 + ((i - 1) % off)]]
Expand(b) ==
  LET Upto[i \in 0..Len(b)] ==
        IF i = 0 THEN <<>>
        ELSE IF b[i].off = 0 THEN Upto[i - 1] \o b[i].lits
        ELSE Repeat(Upto[i - 1] \o b[i].lits, b[i].off, b[i].mlen)
  IN Upto[Len(b)]

\* What the format asks of the end of a block: the last five bytes are literals and
\* the last match starts twelve bytes before the end.
Ends(b) ==
  Len(b) > 1 => /\ Len(b[Len(b)].lits) >= LASTLITERALS
                /\ b[Len(b) - 1].mlen + Len(b[Len(b)].lits) >= MFLIMIT

-----------------------------------------------------------------------------

Unset == -1

\* An encoding with n + 1 bytes replaced.
Replaced(code, i, n, v) == [k \in 1..Len(code) |-> IF k \in i..i + n THEN v ELSE code[k]]

\* read_zram_page hands the object and a page of zeroes over.
Init ==
  /\ \E b \in Blocks, c \in Capacities, name \in {"lz4", "zstd"} :
       \/ dump = [block |-> b, src |-> Encode(b), cap |-> c, intact |-> TRUE, comp |-> name]
       \/ \E i \in 1..Len(Encode(b)), n \in {0, 1}, v \in BadBytes :
            dump = [block |-> b, src |-> Replaced(Encode(b), i, n, v), cap |-> c, intact |-> FALSE, comp |-> name]
       \/ \E n \in 0..Len(Encode(b)) - 1 :
            /\ BadBytes # {}
            /\ dump = [block |-> b, src |-> SubSeq(Encode(b), 1, n), cap |-> c, intact |-> FALSE, comp |-> name]
  /\ pc = "decompress"
  /\ pos = [ip |-> 0, op |-> 0, token |-> 0, length |-> 0, offset |-> 0]
  /\ out = [page |-> [i \in 1..dump.cap |-> 0], ret |-> Unset, inside |-> TRUE]

iend == Len(dump.src)
oend == dump.cap
In(at) == IF at < iend THEN dump.src[at + 1] ELSE 0
InsideIn(at, n) == at >= 0 /\ at + n <= iend
InsideOut(at, n) == at >= 0 /\ at + n <= oend

\* n bytes from at on, the ones outside read as 0; bytes put at at, the ones outside
\* the page dropped.
Cut(text, at, n) == [i \in 1..n |-> IF at + i \in 1..Len(text) THEN text[at + i] ELSE 0]
Put(page, at, bytes) == SubSeq(SubSeq(page, 1, at) \o bytes \o SubSeq(page, at + Len(bytes) + 1, Len(page)), 1, Len(page))

\* n bytes moved in pieces of w, each piece read before it is written: a byte that an
\* earlier piece wrote is read as written.
Move(page, to, from, n, w) ==
  LET Byte[k \in 0..n - 1] ==
        IF from + k \in to..to + w * (k \div w) - 1 THEN Byte[from + k - to]
        ELSE Head(Cut(page, from + k, 1))
  IN Put(page, to, [i \in 1..n |-> Byte[i - 1]])
LZ4_copy8(page, to, from) == Move(page, to, from, 8, 8)

\* LZ4_wildCopy moves pieces of eight: at least one, until the end is passed.
Wild(from, end) == IF end <= from + 8 THEN 8 ELSE 8 * ((end - from + 7) \div 8)
LZ4_wildCopy(page, to, from, end) == Move(page, to, from, Wild(to, end), 8)
Bytewise(page, to, from, end) == Move(page, to, from, IF end > to THEN end - to ELSE 0, 1)

LZ4_readLE16(at) == In(at) + 256 * In(at + 1)

\* What a stage reads and writes is inside the input and the page, and the page after it.
Looks(inside) == out' = [out EXCEPT !.inside = @ /\ inside]
Writes(page, inside) == out' = [out EXCEPT !.page = page, !.inside = @ /\ inside]
Fail(ip) == /\ pc' = "done"
            /\ out' = [out EXCEPT !.ret = -ip - 1]

-----------------------------------------------------------------------------

\* Zraminfo::decompress: the name picks the algorithm, the result is dropped; then
\* the special cases of an empty buffer or input.
Decompress ==
  /\ pc = "decompress"
  /\ UNCHANGED <<dump, pos>>
  /\ IF dump.comp # "lz4" THEN pc' = "done" /\ UNCHANGED out
     ELSE IF oend = 0 \/ iend = 0
     THEN /\ pc' = "done"
          /\ out' = [out EXCEPT !.ret = IF oend = 0 /\ iend = 1 /\ In(0) = 0 THEN 0 ELSE -1]
     ELSE pc' = "token" /\ UNCHANGED out

\* The literal length in the token.  The shortcut is for short literals, when there is room
\* for sixteen and eighteen bytes; AfterLits is where it stands behind the offset.
Lits == In(pos.ip) \div 16
Shortcut == Lits # RUN_MASK /\ pos.ip + 1 < iend - 16 /\ pos.op <= oend - 32
AfterLits ==
  [ip |-> pos.ip + 1 + Lits + 2, op |-> pos.op + Lits, token |-> In(pos.ip),
   length |-> In(pos.ip) % 16, offset |-> LZ4_readLE16(pos.ip + 1 + Lits)]
LitsCopied == Put(out.page, pos.op, Cut(dump.src, pos.ip + 1, 16))
LitsInside == InsideIn(pos.ip, 1) /\ InsideIn(pos.ip + 1, 16) /\ InsideIn(pos.ip + 1 + Lits, 2) /\ InsideOut(pos.op, 16)

\* A short match that does not overlap is copied at once.
ShortMatch == AfterLits.length # ML_MASK /\ AfterLits.offset >= 8 /\ AfterLits.op - AfterLits.offset >= 0
MatchCopied(op, match) == Move(Move(LitsCopied, op, match, 16, 8), op + 16, match + 16, 2, 2)

Token ==
  /\ pc = "token"
  /\ UNCHANGED dump
  /\ \/ /\ Shortcut /\ ShortMatch
        /\ pos' = [AfterLits EXCEPT !.op = @ + AfterLits.length + MINMATCH]
        /\ Writes(MatchCopied(AfterLits.op, AfterLits.op - AfterLits.offset),
                  LitsInside /\ InsideOut(AfterLits.op, 18))
        /\ UNCHANGED pc
     \/ /\ Shortcut /\ ~ShortMatch
        /\ pos' = AfterLits
        /\ Writes(LitsCopied, LitsInside)
        /\ pc' = "match"
     \/ /\ ~Shortcut
        /\ pos' = [pos EXCEPT !.ip = @ + 1, !.token = In(pos.ip), !.length = Lits]
        /\ Looks(InsideIn(pos.ip, 1))
        /\ pc' = IF Lits = RUN_MASK THEN "run" ELSE "literals"

\* The bytes of a long literal length; the first is only read far enough from the end.
\* (The checks for a length that overflows a pointer need a block of 2^56 bytes.)
LiteralLength ==
  /\ pc = "run"
  /\ UNCHANGED dump
  /\ \/ /\ pos.length = RUN_MASK /\ pos.ip >= iend - RUN_MASK
        /\ Fail(pos.ip) /\ UNCHANGED pos
     \/ /\ pos.length # RUN_MASK \/ pos.ip < iend - RUN_MASK
        /\ pos' = [pos EXCEPT !.ip = @ + 1, !.length = @ + In(pos.ip)]
        /\ Looks(InsideIn(pos.ip, 1))
        /\ pc' = IF In(pos.ip) = 255 /\ pos.ip + 1 < iend - RUN_MASK THEN "run" ELSE "literals"

\* Mutant: the end of the output is not looked at before the wild copy.
AtEndOfInput(cpy, ip) == ip > iend - (2 + 1 + LASTLITERALS)

\* Where the literals are the last ones of the block, or must be.
AtEnd(cpy, ip) == cpy > oend - MFLIMIT \/ ip > iend - (2 + 1 + LASTLITERALS)

\* The literals; the last ones must use up the input exactly.  Otherwise the offset
\* of the match follows.
CopyLiterals ==
  /\ pc = "literals"
  /\ UNCHANGED dump
  /\ LET cpy == pos.op + pos.length
         ip == pos.ip + pos.length
         wild == Wild(pos.op, cpy)
     IN \/ /\ AtEnd(cpy, ip) /\ (ip # iend \/ cpy > oend)
           /\ Fail(pos.ip) /\ UNCHANGED pos
        \/ /\ AtEnd(cpy, ip) /\ ip = iend /\ cpy <= oend
           /\ out' = [out EXCEPT !.page = Put(@, pos.op, Cut(dump.src, pos.ip, pos.length)), !.ret = cpy]
           /\ pos' = [pos EXCEPT !.ip = ip, !.op = cpy]
           /\ pc' = "done"
        \/ /\ ~AtEnd(cpy, ip)
           /\ Writes(Put(out.page, pos.op, Cut(dump.src, pos.ip, wild)),
                     InsideIn(pos.ip, wild) /\ InsideOut(pos.op, wild) /\ InsideIn(ip, 2))
           /\ pos' = [pos EXCEPT !.ip = ip + 2, !.op = cpy, !.length = pos.token % 16, !.offset = LZ4_readLE16(ip)]
           /\ pc' = "match"

\* A match before the buffer is refused; LZ4_write32 puts the offset (two bytes of it)
\* where the match goes.
CheckMatch ==
  /\ pc = "match"
  /\ UNCHANGED <<dump, pos>>
  /\ \/ pos.op - pos.offset < 0 /\ Fail(pos.ip)
     \/ /\ pos.op - pos.offset >= 0
        /\ Writes(Put(out.page, pos.op, <<pos.offset % 256, pos.offset \div 256>>), InsideOut(pos.op, 2))
        /\ pc' = IF pos.length = ML_MASK THEN "mlen" ELSE "copy"

MatchLength ==
  /\ pc = "mlen"
  /\ UNCHANGED dump
  /\ \/ /\ pos.ip + 1 > iend - LASTLITERALS
        /\ Fail(pos.ip + 1)
        /\ pos' = [pos EXCEPT !.ip = @ + 1]
     \/ /\ pos.ip + 1 <= iend - LASTLITERALS
        /\ pos' = [pos EXCEPT !.ip = @ + 1, !.length = @ + In(pos.ip)]
        /\ Looks(InsideIn(pos.ip, 1))
        /\ pc' = IF In(pos.ip) = 255 THEN "mlen" ELSE "copy"

\* How far the source of an overlapping copy moves after four bytes and after eight.
inc32table == <<0, 1, 2, 1, 0, 4, 4, 4>>
dec64table == <<0, 0, 0, -1, -4, 1, 2, 3>>

\* The first eight bytes of the match; pos.offset becomes the distance to where the
\* rest of it is copied from.
FirstCopied(op, match) ==
  IF pos.offset >= 8 THEN LZ4_copy8(out.page, op, match)
  ELSE Move(Bytewise(out.page, op, match, op + 4), op + 4, match + inc32table[pos.offset + 1], 4, 4)
\* Mutant: the second table is forgotten.
RestOffsetOnce ==
  IF pos.offset >= 8 THEN pos.offset ELSE 8 + pos.offset - inc32table[pos.offset + 1]

RestOffset ==
  IF pos.offset >= 8 THEN pos.offset
  ELSE 8 + pos.offset - inc32table[pos.offset + 1] + dec64table[pos.offset + 1]

CopyFirst ==
  /\ pc = "copy"
  /\ UNCHANGED dump
  /\ Writes(FirstCopied(pos.op, pos.op - pos.offset), InsideOut(pos.op, 8))
  /\ pos' = [pos EXCEPT !.op = @ + 8, !.length = @ + MINMATCH, !.offset = RestOffset]
  /\ pc' = "rest"

\* The end of the buffer is close: the rest of the match in pieces of eight up to the
\* limit, then by bytes.
SlowCopied(op, cpy, limit) ==
  LET next == IF op < limit THEN limit ELSE op
      wild == IF op < limit THEN LZ4_wildCopy(out.page, op, op - pos.offset, limit) ELSE out.page
  IN Bytewise(wild, next, next - pos.offset, cpy)

\* The rest of the match: with room behind it in pieces of eight that overrun its end,
\* close to the end of the buffer by bytes; the last five bytes are not a match's.
CopyRest ==
  /\ pc = "rest"
  /\ UNCHANGED dump
  /\ LET op == pos.op
         cpy == op - 8 + pos.length
         limit == oend - (WILDCOPYLENGTH - 1)
         n == IF pos.length > 16 THEN 8 + Wild(op + 8, cpy) ELSE 8
     IN /\ pos' = [pos EXCEPT !.op = cpy]
        /\ \/ cpy > oend - LASTLITERALS /\ Fail(pos.ip)
           \/ /\ cpy > oend - MATCH_SAFEGUARD_DISTANCE /\ cpy <= oend - LASTLITERALS
              /\ Writes(SlowCopied(op, cpy, limit), op < limit => InsideOut(op, Wild(op, limit)))
              /\ pc' = "token"
           \/ /\ cpy <= oend - MATCH_SAFEGUARD_DISTANCE
              /\ Writes(Move(out.page, op, op - pos.offset, n, 8), InsideOut(op, n))
              /\ pc' = "token"

Next == Decompress \/ Token \/ LiteralLength \/ CopyLiterals \/ CheckMatch \/ MatchLength \/ CopyFirst \/ CopyRest
Spec == Init /\ [][Next]_vars /\ WF_vars(Next)

-----------------------------------------------------------------------------

\* An intact block that respects the end rules decodes to exactly the bytes it stands
\* for when the page is large enough, whatever the extra bytes the copies moved.
Lz4Exact ==
  pc = "done" /\ dump.comp = "lz4" /\ dump.intact /\ Ends(dump.block) /\ oend >= Len(Expand(dump.block)) /\ oend > 0 =>
    /\ out.ret = Len(Expand(dump.block))
    /\ SubSeq(out.page, 1, out.ret) = Expand(dump.block)

\* Damaged or not, no stage reads past the input or writes past the page, and the
\* length returned fits the page.
DecodedInside ==
  /\ out.inside
  /\ out.ret <= oend
  /\ pc \in {"mlen", "copy", "rest"} => pos.op - pos.offset >= 0
=============================================================================
