---------------------------- MODULE LexLayoutRef ----------------------------
(***************************************************************************)
(* What the driver of LexLayout must produce, computed from the whole      *)
(* source at once instead of position by position: the lines, the columns  *)
(* at which their code starts, the tokens each line owes.                  *)
(***************************************************************************)
EXTENDS LexLayout

Positions  == 1..Len(src)
LineStarts == {l \in 1..Len(src) + 1 : l = 1 \/ src[l - 1] = "nl"}

\* The newline that ends the line starting at l, or the end of the source.
LineEnd(l) == CHOOSE e \in l..Len(src) + 1 : RunEnds(Symbols \ {"nl"}, l, e)
\* The first position of the line that is not a space or a tab.
LineHead(l) == CHOOSE h \in l..Len(src) + 1 : RunEnds(Units, l, h)

\* The column reached by the units from l up to p.
Width(l, p) ==
  LET width[q \in l..Len(src) + 1] ==
        IF q = l THEN 0 ELSE ColumnAfter(src[q - 1], width[q - 1])
  IN  width[p]

Column(l) == Width(l, LineHead(l))

Commented(i) ==
  \E j \in 1..i - 1 : src[j] = "lc" /\ \A k \in j..i : src[k] # "nl"

\* The lines that take part in layout: not empty, not starting with a comment.
LayoutLines ==
  {l \in LineStarts : LineHead(l) <= Len(src) /\ src[LineHead(l)] \notin {"nl", "lc"}}

\* The call stopped before the end of the source, for want of tokens.
Truncated == ~AtEnd(pos)

OpenCols == {indentStack[i] : i \in 1..Level}

Kinds(kind) == {i \in DOMAIN tokens : tokens[i].kind = kind}
PlacesOf(kind) == {tokens[i].at : i \in Kinds(kind)}

\* The significant tokens of the line starting at l, virtual ones left out.
CodeOn(l) ==
  {i \in DOMAIN tokens : /\ Significant(tokens[i].kind)
                         /\ tokens[i].kind # "SEMI"
                         /\ tokens[i].at \in l..LineEnd(l) - 1}
-----------------------------------------------------------------------------
\* A line that does not go back, or goes back to a column still open.
Aligned(l) ==
  LET before == {m \in LayoutLines : m < l}
  IN  \/ Column(l) = 0
      \/ \A m \in before : (\A n \in before : n <= m) => Column(m) <= Column(l)
      \/ \E k \in before : /\ Column(k) = Column(l)
                           /\ \A m \in before : m > k => Column(m) >= Column(l)

(* Python-style blocks: on a source whose lines are all aligned, and below *)
(* the nesting limit, the open columns are 0 and the columns of the        *)
(* earlier layout lines that no line since has gone below.  This relates   *)
(* the stack, after pushes and multiple pops over many lines, to the       *)
(* source alone (src/src/lexer.c:998 handle_offside_line_start).           *)
OpenColumns ==
  phase = "body" /\ cfg.offside /\ ~cfg.equalCloses /\ ~cfg.mayFail
    /\ (\A l \in LayoutLines : Aligned(l)) /\ (\A d \in diags : d[1] # "too deep") =>
  LET seen == {l \in LayoutLines : LineHead(l) <= pos}
      kept == {l \in seen : \A m \in seen : m > l => Column(m) >= Column(l)}
  IN  OpenCols = {0} \cup {Column(l) : l \in kept}

(* A misaligned dedent is reported exactly when the line's column is none  *)
(* of those still open after its pops (src/src/lexer.c:1054 re-reads the   *)
(* current level after popping); Haskell-style, only such a line can be.   *)
MisalignedReported ==
  phase = "body" /\ cfg.offside /\ ~cfg.mayFail =>
    \A l \in LayoutLines :
      LineHead(l) = pos /\ atLineStart /\ <<"too deep", pos>> \notin diags =>
        LET open == Column(l) \in OpenCols
        IN  /\ <<"misaligned", pos>> \in diags => ~open
            /\ ~open /\ ~cfg.equalCloses => <<"misaligned", pos>> \in diags

(* Every line with significant code, and no other, is ended by exactly one *)
(* NEWLINE of the offside rule, at its newline or at the end of the source *)
(* (src/src/lexer.c:1075 "Offside NEWLINEs are gated on the line having a  *)
(* significant token"); with emit_newlines every newline outside literals  *)
(* makes one (include/kavak.h:759).                                        *)
NewlinesEndLines ==
  phase = "done" /\ ~Truncated /\ (cfg.offside \/ cfg.emitNewlines) =>
    LET newlines == {i \in Kinds("NEWLINE") :
                       tokens[i].at > Len(src) \/ src[tokens[i].at] = "nl"}
        physical == {i \in Positions : src[i] = "nl"}
        coded    == {LineEnd(l) : l \in {m \in LineStarts : CodeOn(m) # {}}}
    IN  /\ {tokens[i].at : i \in newlines}
             = (IF cfg.emitNewlines THEN physical ELSE {})
                 \cup (IF ~cfg.offside THEN {}
                       ELSE IF cfg.emitNewlines THEN coded \ Positions ELSE coded)
        /\ \A i, j \in newlines : tokens[i].at = tokens[j].at => i = j

(* A virtual semicolon stands at the end of a line exactly when the last   *)
(* significant token of that same line is terminating, and before the      *)
(* line's NEWLINE (include/kavak.h:681 "After tokenizing line N, if the    *)
(* last significant token matches is_terminating").                        *)
SemicolonsEndStatements ==
  phase = "done" /\ cfg.autoSemi /\ ~Truncated =>
    /\ PlacesOf("SEMI") =
         {LineEnd(l) : l \in {m \in LineStarts :
            \E i \in CodeOn(m) : /\ \A j \in CodeOn(m) : j <= i
                                 /\ tokens[i].kind \in Terminating}}
    /\ \A i, j \in Kinds("SEMI") : tokens[i].at = tokens[j].at => i = j
    /\ \A i \in Kinds("SEMI"), j \in Kinds("NEWLINE") :
         tokens[i].at = tokens[j].at => i < j

(* Nothing is lost or read twice: when an iteration starts, the scanned    *)
(* tokens stand at exactly the code symbols before lex.pos that no line    *)
(* comment hides, one each, in source order, a symbol no scanner claims    *)
(* included (include/kavak.h:774 "a single bad byte doesn't desync the     *)
(* rest of the file").                                                     *)
SourceCovered ==
  phase = "top" =>
    LET single   == {"name", "op", "bad"}
        scanned  == {i \in DOMAIN tokens : /\ tokens[i].at \in Positions
                                           /\ src[tokens[i].at] \in single
                                           /\ tokens[i].kind \in {"NAME", "OP", "INVALID"}}
    IN  /\ {tokens[i].at : i \in scanned}
             = {p \in 1..pos - 1 : src[p] \in single /\ ~Commented(p)}
        /\ \A i, j \in scanned : i < j => tokens[i].at < tokens[j].at
=============================================================================
