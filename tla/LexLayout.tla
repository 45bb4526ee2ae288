------------------------------ MODULE LexLayout ------------------------------
(***************************************************************************)
(* The main loop of kavak_lex (src/src/lexer.c): the driver that walks the *)
(* source, turns line starts into INDENT and DEDENT tokens (the offside    *)
(* rule), line ends into NEWLINE tokens and virtual semicolons, hands      *)
(* everything else to the scanners, and closes the stream with EOF.        *)
(*                                                                         *)
(* A source is a sequence of lexical symbols, one per position (the code   *)
(* counts bytes): blanks, newlines, and one symbol for each shape of code  *)
(* the driver tells apart.  Offsets start at 1.  What a scanner emits for  *)
(* a symbol is a sequence of token kinds, all placed at that symbol; a     *)
(* template literal may emit any sequence of TemplateEmits.                *)
(*                                                                         *)
(* A token is pushed onto a growing vector: the push fails when the        *)
(* allocator does (in the calls whose cfg.mayFail is set) or when the      *)
(* vector holds TokenLimit tokens (UINT32_MAX in the code), and then       *)
(* kavak_lex returns -1.  A diagnostic whose push fails is dropped.        *)
(***************************************************************************)
EXTENDS Integers, Sequences, FiniteSets

CONSTANTS
  Calls,           \* the calls of kavak_lex: pairs of a source, which is a
                   \* sequence of Symbols, and the configuration to lex it under
  TemplateEmits,   \* the kind sequences one template literal may emit
  Terminating,     \* the kinds for which auto_semi->is_terminating answers 1
  TabStop,         \* 8: a tab moves to the next multiple of it
  MaxIndentDepth,  \* KAVAK_MAX_INDENT_DEPTH, 128
  TokenLimit       \* UINT32_MAX, the most tokens a vector can hold

Units      == {"sp", "tab"}
Blanks     == Units \cup {"ff"}      \* is_inline_ws also takes \f and \v
Symbols    == Blanks \cup {"nl", "name", "op", "bad", "lc", "bc", "tpl"}
ScanKinds  == {"NAME", "OP", "STRING", "COMMENT", "NEWLINE", "INVALID"}
TokenKinds == ScanKinds \cup {"INDENT", "DEDENT", "SEMI", "EOF"}
DiagKinds  == {"token limit", "unit", "too deep", "misaligned", "invalid"}

ConfigSpace ==
  [offside      : BOOLEAN,                    \* config->offside is set
   equalCloses  : BOOLEAN,                    \* dedent_on_lower_or_equal
   unit         : {"spaces", "tabs", "both"},
   autoSemi     : BOOLEAN,
   emitNewlines : BOOLEAN,
   keepComments : BOOLEAN,
   mayFail      : BOOLEAN]                    \* whether an allocation may fail

ASSUME ConstantsOK ==
  /\ Calls \subseteq Seq(Symbols) \X ConfigSpace
  /\ TemplateEmits \subseteq Seq(ScanKinds)
  /\ Terminating \subseteq TokenKinds
  /\ TabStop \in Nat \ {0}
  /\ MaxIndentDepth \in Nat \ {0}
  /\ TokenLimit \in Nat
  /\ TokenLimit > MaxIndentDepth + 4

VARIABLES
  src, cfg,        \* the source and the configuration, fixed by the call
  phase,           \* where the driver is in its loop
  pos,             \* lex.pos, the next position to read
  col, badUnit,    \* handle_offside_line_start's locals
  indentStack,     \* lex.indent_stack[0 .. indent_top]; Len is indent_top + 1
  atLineStart, lineHasSignificant,
  lastSignificant, \* lex.last_significant_index + 1
  tokens, diags    \* the two output vectors

vars == <<src, cfg, phase, pos, col, badUnit, indentStack, atLineStart,
          lineHasSignificant, lastSignificant, tokens, diags>>

Phases == {"top", "indent", "body", "eof", "done", "failed"}

TypeOK ==
  /\ src \in Seq(Symbols)
  /\ cfg \in ConfigSpace
  /\ phase \in Phases
  /\ pos \in 1..Len(src) + 1
  /\ col \in Nat
  /\ badUnit \in BOOLEAN
  /\ indentStack \in Seq(Nat)
  /\ Len(indentStack) \in 1..MaxIndentDepth
  /\ atLineStart \in BOOLEAN
  /\ lineHasSignificant \in BOOLEAN
  /\ lastSignificant \in Nat \ {0}
  /\ tokens \in Seq([kind : TokenKinds, at : Nat])
  /\ diags \subseteq DiagKinds \X Nat
-----------------------------------------------------------------------------
(* Reading the source.                                                     *)

AtEnd(p) == p > Len(src)

\* The run of symbols of S that starts at `from` ends just before `to`.
RunEnds(S, from, to) ==
  /\ \A i \in from..to - 1 : src[i] \in S
  /\ ~AtEnd(to) => src[to] \notin S

NewlineAware == cfg.offside \/ cfg.autoSemi \/ cfg.emitNewlines

Skipped == IF NewlineAware THEN Blanks ELSE Blanks \cup {"nl"}

\* indentation_col_after_byte: the column after one more unit.
ColumnAfter(unit, c) ==
  IF unit = "sp" \/ cfg.unit = "tabs" THEN c + 1
                                      ELSE ((c \div TabStop) + 1) * TabStop

Disallowed(unit) == \/ unit = "sp"  /\ cfg.unit = "tabs"
                    \/ unit = "tab" /\ cfg.unit = "spaces"
-----------------------------------------------------------------------------
(* Pushing tokens and diagnostics.                                         *)

TokensAt(kinds, p) == [i \in 1..Len(kinds) |-> [kind |-> kinds[i], at |-> p]]

\* Wrong: one DEDENT for any number of closed levels.
M_Dedents(n) == IF n = 0 THEN <<>> ELSE <<"DEDENT">>
Dedents(n) == [i \in 1..n |-> "DEDENT"]

\* Each push of a diagnostic may be lost when an allocation fails.
Report(msgs) ==
  \E kept \in (IF cfg.mayFail THEN SUBSET msgs ELSE {msgs}) :
    diags' = diags \cup kept

\* emit_invalid follows every INVALID token it managed to push by a message.
InvalidReports(kinds, p) ==
  IF \E i \in 1..Len(kinds) : kinds[i] = "INVALID" THEN {<<"invalid", p>>} ELSE {}

PushAll(kinds, p, before, after, next) ==
  /\ Len(tokens) + Len(kinds) <= TokenLimit
  /\ tokens' = tokens \o TokensAt(kinds, p)
  /\ Report(before \cup InvalidReports(kinds, p) \cup after)
  /\ phase' = next

\* The push after the n-th of these tokens fails: the call is over.
PushFails(kinds, p, before) ==
  \E n \in 0..Len(kinds) - 1 :
    /\ Len(tokens) + n <= TokenLimit
    /\ cfg.mayFail \/ Len(tokens) + n = TokenLimit
    /\ tokens' = tokens \o TokensAt(SubSeq(kinds, 1, n), p)
    /\ Report(before \cup InvalidReports(SubSeq(kinds, 1, n), p))
    /\ phase' = "failed"

\* Push tokens of these kinds at p, then go on at `next`; `before` and `after`
\* are the diagnostics the code pushes before and after the tokens.
Emit(kinds, p, before, after, next) ==
  \/ PushAll(kinds, p, before, after, next)
  \/ PushFails(kinds, p, before)
-----------------------------------------------------------------------------
(* The head of the loop: the ceiling on tokens, then the layout of a line. *)

\* Wrong: room for the open levels only.
M_Headroom == MaxIndentDepth
Headroom == MaxIndentDepth + 4

BelowCeiling == Len(tokens) < TokenLimit - Headroom

TruncateAtCeiling ==
  /\ phase = "top"
  /\ ~BelowCeiling
  /\ Report({<<"token limit", pos>>})
  /\ phase' = "eof"
  /\ UNCHANGED <<src, cfg, pos, col, badUnit, indentStack, atLineStart,
                 lineHasSignificant, lastSignificant, tokens>>

BeginIteration ==
  /\ phase = "top"
  /\ BelowCeiling
  /\ phase' = IF cfg.offside /\ atLineStart THEN "indent" ELSE "body"
  /\ col' = 0
  /\ badUnit' = FALSE
  /\ UNCHANGED <<src, cfg, pos, indentStack, atLineStart, lineHasSignificant,
                 lastSignificant, tokens, diags>>

OnUnit == ~AtEnd(pos) /\ src[pos] \in Units

MeasureIndent ==
  /\ phase = "indent"
  /\ OnUnit
  /\ col' = ColumnAfter(src[pos], col)
  /\ badUnit' = (badUnit \/ Disallowed(src[pos]))
  /\ pos' = pos + 1
  /\ UNCHANGED <<src, cfg, phase, indentStack, atLineStart,
                 lineHasSignificant, lastSignificant, tokens, diags>>

\* The rest of handle_offside_line_start, once the indentation is measured.
Level      == Len(indentStack)
Measured   == phase = "indent" /\ ~OnUnit
CodeAhead  == ~AtEnd(pos) /\ src[pos] \notin {"nl", "lc"}
UnitReport == IF badUnit THEN {<<"unit", pos>>} ELSE {}

layoutUnchanged == <<src, cfg, pos, col, badUnit, atLineStart,
                     lineHasSignificant, lastSignificant>>

SkipLayout ==
  /\ Measured
  /\ ~CodeAhead
  /\ Report(UnitReport)
  /\ phase' = "body"
  /\ UNCHANGED <<layoutUnchanged, indentStack, tokens>>

\* Wrong: the test lets the write go one past the array.
M_TooDeep == Level > MaxIndentDepth
TooDeep == Level >= MaxIndentDepth

\* Wrong: an equal column opens a level too.
M_Deeper == col >= indentStack[Level]
Deeper == col > indentStack[Level]

IndentTooDeep ==
  /\ Measured
  /\ CodeAhead
  /\ Deeper
  /\ TooDeep
  /\ Report(UnitReport \cup {<<"too deep", pos>>})
  /\ phase' = "body"
  /\ UNCHANGED <<layoutUnchanged, indentStack, tokens>>

OpenBlock ==
  /\ Measured
  /\ CodeAhead
  /\ Deeper
  /\ ~TooDeep
  /\ indentStack' = Append(indentStack, col)
  /\ Emit(<<"INDENT">>, pos, UnitReport, {}, "body")
  /\ UNCHANGED layoutUnchanged

\* Wrong: the loop also pops a level at the same column.
M_PopsTo(k) ==
  /\ k = 1 \/ indentStack[k] < col
  /\ \A j \in k + 1..Level : col <= indentStack[j]
\* The loop of strict dedents stops at the deepest level not beyond the column.
PopsTo(k) ==
  /\ k = 1 \/ indentStack[k] <= col
  /\ \A j \in k + 1..Level : col < indentStack[j]

ClosesEqual(k) == cfg.equalCloses /\ k > 1 /\ col = indentStack[k]

\* Wrong: compares with the level that was current before the pops.
M_Misaligned(k) == ~ClosesEqual(k) /\ col # indentStack[Level]
Misaligned(k) == ~ClosesEqual(k) /\ col # indentStack[k]

CloseBlocks ==
  /\ Measured
  /\ CodeAhead
  /\ ~Deeper
  /\ \E k \in 1..Level :
       /\ PopsTo(k)
       /\ LET keep == IF ClosesEqual(k) THEN k - 1 ELSE k
          IN  /\ indentStack' = SubSeq(indentStack, 1, keep)
              /\ Emit(Dedents(Level - keep), pos, UnitReport,
                      IF Misaligned(k) THEN {<<"misaligned", pos>>} ELSE {}, "body")
  /\ UNCHANGED layoutUnchanged
-----------------------------------------------------------------------------
(* The body of the loop: the end of the source, a newline, or a token.     *)

\* Wrong: forgets that the last significant token may be on an earlier line.
M_SemicolonDue ==
  IF /\ cfg.autoSemi
     /\ Len(tokens) > 0
     /\ tokens[lastSignificant].kind \in Terminating
  THEN <<"SEMI">> ELSE <<>>
\* maybe_emit_auto_semicolon
SemicolonDue ==
  IF /\ cfg.autoSemi
     /\ lineHasSignificant
     /\ tokens[lastSignificant].kind \in Terminating
  THEN <<"SEMI">> ELSE <<>>

\* Wrong: emit_newlines is gated on the line's code as well.
M_NewlineDue ==
  IF (cfg.emitNewlines \/ cfg.offside) /\ lineHasSignificant
  THEN <<"NEWLINE">> ELSE <<>>
NewlineDue ==
  IF cfg.emitNewlines \/ (cfg.offside /\ lineHasSignificant)
  THEN <<"NEWLINE">> ELSE <<>>

ReachEnd ==
  /\ phase = "body"
  /\ RunEnds(Skipped, pos, Len(src) + 1)
  /\ pos' = Len(src) + 1
  /\ phase' = "eof"
  /\ UNCHANGED <<src, cfg, col, badUnit, indentStack, atLineStart,
                 lineHasSignificant, lastSignificant, tokens, diags>>

FinishPhysicalLine ==
  /\ phase = "body"
  /\ NewlineAware
  /\ \E p \in pos..Len(src) :
       /\ RunEnds(Skipped, pos, p)
       /\ src[p] = "nl"
       /\ Emit(SemicolonDue \o NewlineDue, p, {}, {}, "top")
       /\ pos' = p + 1
  /\ atLineStart' = TRUE
  /\ lineHasSignificant' = FALSE
  /\ UNCHANGED <<src, cfg, col, badUnit, indentStack, lastSignificant>>

\* The token of a symbol that makes one; the driver turns a symbol no scanner
\* claims into INVALID.
TokenOf(symbol) ==
  IF symbol = "name" THEN "NAME" ELSE IF symbol = "op" THEN "OP" ELSE "INVALID"

\* The kinds that scan_token, or the unknown-character branch, may emit.
ScanEmits(symbol) ==
  IF symbol = "tpl"
  THEN {kinds \in TemplateEmits :
          \A i \in 1..Len(kinds) : kinds[i] = "NEWLINE" => cfg.emitNewlines}
  ELSE IF symbol \in {"lc", "bc"}
  THEN {IF cfg.keepComments THEN <<"COMMENT">> ELSE <<>>}
  ELSE {<<TokenOf(symbol)>>}

\* Wrong: recovery from an unknown character drops the rest of the line.
M_ScanEnds(p, end) ==
  IF src[p] \in {"lc", "bad"} THEN RunEnds(Symbols \ {"nl"}, p, end) ELSE end = p + 1
\* Wrong: a skipped comment is claimed without advancing.
M_ScanStalls(p, end) == end = IF src[p] \in {"bc", "lc"} THEN p ELSE p + 1
\* A line comment runs to the end of its line; any other symbol is one step.
ScanEnds(p, end) ==
  IF src[p] = "lc" THEN RunEnds(Symbols \ {"nl"}, p, end) ELSE end = p + 1

\* token_kind_is_significant
Significant(kind) ==
  kind \notin {"INVALID", "EOF", "NEWLINE", "INDENT", "DEDENT", "COMMENT"}

\* note_emitted_tokens, over the tokens this scan pushed.
NoteEmitted(kinds) ==
  LET noted == {i \in 1..Len(kinds) : Significant(kinds[i])}
  IN  IF noted = {}
      THEN UNCHANGED <<lineHasSignificant, lastSignificant>>
      ELSE /\ lineHasSignificant' = TRUE
           /\ \E last \in noted : /\ \A i \in noted : i <= last
                                  /\ lastSignificant' = Len(tokens) + last

Scan ==
  /\ phase = "body"
  /\ \E p \in pos..Len(src) :
       /\ RunEnds(Skipped, pos, p)
       /\ ~(NewlineAware /\ src[p] = "nl")
       /\ \E end \in p..Len(src) + 1 :
            /\ ScanEnds(p, end)
            /\ pos' = end
       /\ \E kinds \in ScanEmits(src[p]) :
            /\ Emit(kinds, p, {}, {}, "top")
            /\ NoteEmitted(kinds)
  /\ atLineStart' = FALSE
  /\ UNCHANGED <<src, cfg, col, badUnit, indentStack>>
-----------------------------------------------------------------------------
(* After the loop: finish_eof_layout and the EOF anchor.                   *)

\* Wrong: the levels still open at the end of the source stay open.
M_EofLayout ==
  SemicolonDue \o (IF cfg.offside /\ lineHasSignificant THEN <<"NEWLINE">> ELSE <<>>)
EofLayout ==
  SemicolonDue \o (IF cfg.offside /\ lineHasSignificant THEN <<"NEWLINE">> ELSE <<>>)
               \o (IF cfg.offside THEN Dedents(Level - 1) ELSE <<>>)

FinishStream ==
  /\ phase = "eof"
  /\ Emit((IF NewlineAware THEN EofLayout ELSE <<>>) \o <<"EOF">>, pos, {}, {}, "done")
  /\ indentStack' = IF cfg.offside THEN <<indentStack[1]>> ELSE indentStack
  /\ lineHasSignificant' = IF NewlineAware THEN FALSE ELSE lineHasSignificant
  /\ UNCHANGED <<src, cfg, pos, col, badUnit, atLineStart, lastSignificant>>

Returned == phase \in {"done", "failed"} /\ UNCHANGED vars

Init ==
  /\ \E call \in Calls : src = call[1] /\ cfg = call[2]
  /\ phase = "top"
  /\ pos = 1
  /\ col = 0
  /\ badUnit = FALSE
  /\ indentStack = <<0>>
  /\ atLineStart = TRUE
  /\ lineHasSignificant = FALSE
  /\ lastSignificant = 1
  /\ tokens = <<>>
  /\ diags = {}

Next ==
  \/ TruncateAtCeiling \/ BeginIteration
  \/ MeasureIndent \/ SkipLayout \/ IndentTooDeep \/ OpenBlock \/ CloseBlocks
  \/ ReachEnd \/ FinishPhysicalLine \/ Scan
  \/ FinishStream \/ Returned

Spec == Init /\ [][Next]_vars
\* kavak_lex is one sequential call: it runs until it returns.
FairSpec == Spec /\ WF_vars(Next)
-----------------------------------------------------------------------------
(* Safety properties about the indentation stack and the stream.           *)

\* The open indentation columns strictly increase from the outermost level,
\* which is column 0 (the stack handle_offside_line_start compares against).
ColumnsIncrease ==
  /\ indentStack[1] = 0
  /\ \A i, j \in 1..Level : i < j => indentStack[i] < indentStack[j]

Count(kind) == Cardinality({i \in 1..Len(tokens) : tokens[i].kind = kind})

\* At every moment the INDENT tokens pushed exceed the DEDENT tokens by the
\* number of open levels, so no prefix closes a block it did not open.
Balanced == phase # "failed" => Count("INDENT") = Count("DEDENT") + Level - 1

\* A call that returns 0 has pushed EOF exactly once, as the last token, and
\* with the offside rule it has closed every block it opened.
StreamComplete ==
  phase = "done" =>
    /\ {i \in 1..Len(tokens) : tokens[i].kind = "EOF"} = {Len(tokens)}
    /\ Count("INDENT") = Count("DEDENT")

\* "the closing layout (drained DEDENTs + NEWLINE) and the final EOF token
\* always fit" (src/src/lexer.c:1138): without allocation failures the vector
\* is never full, however long the source is.
CeilingLeavesRoom == ~cfg.mayFail => phase # "failed"

\* kavak_lex returns, whatever the source.
Terminates == <>(phase \in {"done", "failed"})
=============================================================================
