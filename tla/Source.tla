------------------------------- MODULE Source -------------------------------
(***************************************************************************)
(* A source and its lines: src/src/source.c over the decoder of utf8.c.    *)
(*                                                                         *)
(* A source is its bytes, its newline policy and its line table, NoTable   *)
(* until the first question about a position.  Byte positions are 0-based  *)
(* as in the code; bytes[p + 1] is the byte at position p.                 *)
(***************************************************************************)
EXTENDS Integers, Sequences, FiniteSets

CONSTANTS
  MaxU32,     \* UINT32_MAX
  MinLines,   \* the least room of a line table, 8
  LineBytes   \* the bytes of a line it expects, 64

ASSUME SourceConstants ==
  /\ MaxU32 \in Nat /\ MaxU32 > 1
  /\ MinLines \in Nat /\ MinLines > 1
  /\ LineBytes \in Nat \ {0}

Byte     == 0..255
Newlines == {"LF", "CRLF", "CR", "UNICODE"}

NoTable == [starts |-> <<>>, end |-> 0, room |-> 0]
Policy(flags) == IF flags = {} THEN {"LF", "CRLF", "CR"} ELSE flags
NewSource(bytes, flags) == [bytes |-> bytes, flags |-> Policy(flags), table |-> NoTable]
-----------------------------------------------------------------------------
(* kavak_utf8_decode at position p: the code point and how long it is,     *)
(* length 0 for anything that is not well formed.                          *)
LeadLen(lead) ==
  CASE lead < 128         -> 1
    [] lead \in 194..223  -> 2
    [] lead \in 224..239  -> 3
    [] lead \in 240..244  -> 4
    [] OTHER              -> 0

Payload  == <<128, 32, 16, 8>>             \* what the lead's tag leaves
LeastFor == <<0, 128, 2048, 65536>>
Decode(bytes, p) ==
  LET len == LeadLen(bytes[p + 1])
      cp[k \in 0..3] == IF k = 0 THEN bytes[p + 1] % Payload[len]
                        ELSE (cp[k - 1] * 64) + (bytes[p + 1 + k] % 64)
      formed == /\ len # 0 /\ p + len <= Len(bytes)
                /\ \A k \in 1..len - 1 : bytes[p + 1 + k] \in 128..191
                /\ cp[len - 1] >= LeastFor[len] /\ cp[len - 1] <= 1114111
                /\ cp[len - 1] \notin 55296..57343
  IN  IF formed THEN [len |-> len, cp |-> cp[len - 1]] ELSE [len |-> 0, cp |-> 0]

(* kavak_source_newline_len: the length of the newline at p, 0 without one. *)
NewlineLen(s, p) ==
  LET byte    == s.bytes[p + 1]
      crlf    == "CRLF" \in s.flags /\ p + 1 < Len(s.bytes) /\ s.bytes[p + 2] = 10
      decoded == Decode(s.bytes, p)
  IN  CASE byte = 13 -> IF crlf THEN 2 ELSE IF "CR" \in s.flags THEN 1 ELSE 0
        [] byte = 10 -> IF "LF" \in s.flags THEN 1 ELSE 0
        [] OTHER     -> IF "UNICODE" \in s.flags /\ decoded.cp \in {133, 8232, 8233}
                        THEN decoded.len ELSE 0
-----------------------------------------------------------------------------
(* The pass of ensure_line_offsets: where it is, the line starts so far    *)
(* and the room of the table, which keeps a place for the end.             *)
\* Wrong: no place is kept for the end.
M_Room(lines, room) == IF lines >= room THEN 2 * room ELSE room
Room(lines, room) == IF lines + 1 >= room THEN 2 * room ELSE room

PassStart(s) ==
  [at |-> 0, starts |-> <<0>>, room |-> (Len(s.bytes) \div LineBytes) + MinLines]

PassOn(s, before) ==
  LET n == NewlineLen(s, before.at)
  IN  IF before.at >= Len(s.bytes) THEN before
      ELSE IF n = 0 THEN [before EXCEPT !.at = @ + 1]
      ELSE [at     |-> before.at + n,
            starts |-> Append(before.starts, before.at + n),
            room   |-> Room(Len(before.starts), before.room)]

Pass(s) ==
  LET pass[k \in 0..Len(s.bytes)] == IF k = 0 THEN PassStart(s) ELSE PassOn(s, pass[k - 1])
  IN  pass[Len(s.bytes)]

\* What ensure_line_offsets leaves: no table without memory or with more
\* lines than it can number.
TooManyLines(pass) == Len(pass.starts) > MaxU32 - 1
Tables(s) ==
  IF s.table # NoTable THEN {s.table}
  ELSE LET pass == Pass(s)
       IN  {NoTable} \cup
             (IF TooManyLines(pass) THEN {}
              ELSE {[starts |-> pass.starts, end |-> Len(s.bytes), room |-> pass.room]})

\* The search of kavak_source_pos: one turn of its loop over [lo, hi).
Halved(starts, query, range) ==
  LET mid == range.lo + ((range.hi - range.lo) \div 2)
  IN  IF range.lo + 1 >= range.hi THEN range
      ELSE IF starts[mid + 1] <= query THEN [range EXCEPT !.lo = mid]
      ELSE [range EXCEPT !.hi = mid]

\* kavak_source_pos once the table is there or is not: <<line, column>>.
Pos(s, p) ==
  LET starts == s.table.starts
      query  == IF p > Len(s.bytes) THEN Len(s.bytes) ELSE p
      range[k \in 0..Len(starts)] ==
        IF k = 0 THEN [lo |-> 0, hi |-> Len(starts)] ELSE Halved(starts, query, range[k - 1])
      line == range[Len(starts)].lo
  IN  IF s.table = NoTable THEN <<1, 1>> ELSE <<line + 1, query - starts[line + 1] + 1>>
-----------------------------------------------------------------------------
(* What a position is, from the texts of the newlines alone.               *)
NewlineTexts(flags) ==
  (IF "LF" \in flags THEN {<<10>>} ELSE {}) \cup (IF "CR" \in flags THEN {<<13>>} ELSE {})
    \cup (IF "CRLF" \in flags THEN {<<13, 10>>} ELSE {})
    \cup (IF "UNICODE" \in flags THEN {<<194, 133>>, <<226, 128, 168>>, <<226, 128, 169>>} ELSE {})

\* The ends of the newlines: those of CRLF are not two of them.
Ends(s) ==
  LET At(text, e) == /\ e >= Len(text) /\ e <= Len(s.bytes)
                     /\ SubSeq(s.bytes, e - Len(text) + 1, e) = text
      whole == NewlineTexts(s.flags)
  IN  {e \in 1..Len(s.bytes) :
         /\ \E text \in whole : At(text, e)
         /\ ~(<<13, 10>> \in whole /\ At(<<13>>, e) /\ At(<<13, 10>>, e + 1))}

TruePos(s, p) ==
  LET query == IF p > Len(s.bytes) THEN Len(s.bytes) ELSE p
      passed == {e \in Ends(s) : e <= query}
      start == IF passed = {} THEN 0 ELSE CHOOSE e \in passed : \A d \in passed : d <= e
  IN  <<Cardinality(passed) + 1, query - start + 1>>
=============================================================================
