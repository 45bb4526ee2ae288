------------------------- MODULE LexLayoutRefProofs -------------------------
(***************************************************************************)
(* Proofs that the driver of LexLayout produces what LexLayoutRef computes *)
(* from the whole source: it covers the source, ends lines as they should  *)
(* be ended, and keeps on its stack the columns the source has open.       *)
(***************************************************************************)
EXTENDS LexLayoutRef, LexLayoutProofs, Induction

Live == phase \notin {"done", "failed"}

-----------------------------------------------------------------------------
(* What a step does, seen from the output: it leaves the tokens alone, or  *)
(* pushes layout tokens, the end of a line, one scan, or the end of the    *)
(* stream.                                                                 *)

\* The vector grew by tokens of these kinds, all at p.
Added(kinds, p) ==
  /\ kinds \in Seq(TokenKinds)
  /\ Len(tokens') = Len(tokens) + Len(kinds)
  /\ \A i \in 1..Len(tokens) : tokens'[i] = tokens[i]
  /\ \A i \in Len(tokens) + 1..Len(tokens') :
       tokens'[i].kind = kinds[i - Len(tokens)] /\ tokens'[i].at = p

QuietStep ==
  /\ Live /\ phase' \notin {"done", "failed"}
  /\ pos' \in pos..Len(src) + 1
  /\ \A i \in pos..pos' - 1 : src[i] \in Skipped
  /\ UNCHANGED <<tokens, lineHasSignificant, lastSignificant>>

LayoutStep ==
  /\ Live /\ phase' \notin {"done", "failed"} /\ pos' = pos
  /\ \E kinds : /\ Added(kinds, pos)
                /\ \A i \in 1..Len(kinds) : kinds[i] \in {"INDENT", "DEDENT"}
  /\ UNCHANGED <<lineHasSignificant, lastSignificant>>

LineStep ==
  /\ Live /\ phase' \notin {"done", "failed"} /\ NewlineAware
  /\ \E p \in pos..Len(src) :
       /\ \A i \in pos..p - 1 : src[i] \in Blanks
       /\ src[p] = "nl" /\ pos' = p + 1
       /\ Added(SemicolonDue \o NewlineDue, p)
  /\ lineHasSignificant' = FALSE

ScanStep ==
  /\ Live /\ phase' \notin {"done", "failed"}
  /\ \E p \in pos..Len(src) :
       /\ \A i \in pos..p - 1 : src[i] \in Skipped
       /\ src[p] \notin Blanks \cup {"nl"}
       /\ pos' \in p + 1..Len(src) + 1
       /\ src[p] = "lc" => \A i \in p..pos' - 1 : src[i] # "nl"
       /\ src[p] = "lc" => AtEnd(pos') \/ src[pos'] = "nl"
       /\ src[p] # "lc" => pos' = p + 1
       /\ \E kinds \in ScanEmits(src[p]) : Added(kinds, p) /\ NoteEmitted(kinds)

EndStep ==
  /\ Live /\ phase' = "done" /\ pos' = pos
  /\ Added((IF NewlineAware THEN EofLayout ELSE <<>>) \o <<"EOF">>, pos)

LEMMA EmitAdds ==
  ASSUME TypeOK, NEW kinds \in Seq(TokenKinds), NEW p \in Nat,
         NEW before, NEW after, NEW next,
         Emit(kinds, p, before, after, next), phase' # "failed"
  PROVE  Added(kinds, p) /\ phase' = next
<1> DEFINE new == TokensAt(kinds, p)
<1>1. tokens \in Seq(Token) /\ Len(tokens) \in Nat /\ Len(kinds) \in Nat
  BY DEF TypeOK, Token
<1>2. tokens' = tokens \o new /\ phase' = next
  BY EmitPushes
<1>3. new \in Seq(Token) /\ Len(new) = Len(kinds)
      /\ \A i \in 1..Len(kinds) : new[i].kind = kinds[i] /\ new[i].at = p
  BY TokensAtType DEF TokensAt
<1> HIDE DEF new
<1>4. /\ Len(tokens \o new) = Len(tokens) + Len(new)
      /\ \A i \in 1..Len(tokens) : (tokens \o new)[i] = tokens[i]
      /\ \A i \in Len(tokens) + 1..Len(tokens) + Len(new) :
           (tokens \o new)[i] = new[i - Len(tokens)]
  BY ONLY <1>1, <1>3, Concatenation, Zenon
<1>5. \A i \in Len(tokens) + 1..Len(tokens) + Len(kinds) : i - Len(tokens) \in 1..Len(kinds)
  BY <1>1
<1>6. \A i \in Len(tokens) + 1..Len(tokens') :
        tokens'[i].kind = kinds[i - Len(tokens)] /\ tokens'[i].at = p
  <2> TAKE i \in Len(tokens) + 1..Len(tokens')
  <2>1. i \in Len(tokens) + 1..Len(tokens) + Len(kinds)
    BY <1>2, <1>3, <1>4
  <2>2. tokens'[i] = new[i - Len(tokens)]
    BY <1>2, <1>3, <1>4, <2>1
  <2> QED BY <1>3, <1>5, <2>1, <2>2
<1> QED BY <1>2, <1>3, <1>4, <1>6 DEF Added

LEMMA EndKinds ==
  ASSUME TypeOK
  PROVE  (IF NewlineAware THEN EofLayout ELSE <<>>) \o <<"EOF">> \in Seq(TokenKinds)
<1> DEFINE pre == IF NewlineAware THEN EofLayout ELSE <<>>
<1>1. pre \in Seq(TokenKinds)
  BY DueEndless, KindsSeq DEF Endless
<1>2. <<"EOF">> \in Seq(TokenKinds)
  BY KindsSeq DEF TokenKinds
<1> HIDE DEF pre
<1>3. pre \o <<"EOF">> \in Seq(TokenKinds)
  BY ONLY <1>1, <1>2, ConcatKinds, Zenon
<1> QED BY <1>3 DEF pre

LEMMA Steps ==
  ASSUME TypeOK, [Next]_vars, phase' # "failed"
  PROVE  /\ src' = src /\ cfg' = cfg
         /\ \/ UNCHANGED vars \/ QuietStep \/ LayoutStep
            \/ LineStep \/ ScanStep \/ EndStep
<1>0. src' = src /\ cfg' = cfg
  BY CallFixed
<1>t. pos \in Nat /\ pos \in 1..Len(src) + 1 /\ Len(src) \in Nat
  BY DEF TypeOK
<1>1. CASE TruncateAtCeiling \/ BeginIteration \/ SkipLayout \/ IndentTooDeep
  <2>1. /\ UNCHANGED <<pos, tokens, lineHasSignificant, lastSignificant>>
        /\ phase \notin {"done", "failed"} /\ phase' \notin {"done", "failed"}
    BY <1>1 DEF TruncateAtCeiling, BeginIteration, SkipLayout, IndentTooDeep,
                Measured, layoutUnchanged
  <2>2. pos' \in pos..Len(src) + 1 /\ \A i \in pos..pos' - 1 : FALSE
    BY <1>t, <2>1
  <2> QED BY <1>0, <2>1, <2>2 DEF QuietStep, Live
<1>2. CASE MeasureIndent
  <2>1. /\ UNCHANGED <<phase, tokens, lineHasSignificant, lastSignificant>>
        /\ phase = "indent" /\ pos' = pos + 1 /\ pos <= Len(src) /\ src[pos] \in Units
    BY <1>2, <1>t DEF MeasureIndent, OnUnit, AtEnd
  <2>2. \A i \in pos..pos' - 1 : src[i] \in Skipped
    BY <1>t, <2>1 DEF Skipped, Blanks
  <2> QED BY <1>0, <1>t, <2>1, <2>2 DEF QuietStep, Live
<1>3. CASE ReachEnd
  <2>1. /\ UNCHANGED <<tokens, lineHasSignificant, lastSignificant>>
        /\ phase = "body" /\ phase' = "eof" /\ pos' = Len(src) + 1
        /\ \A i \in pos..pos' - 1 : src[i] \in Skipped
    BY <1>3 DEF ReachEnd, RunEnds
  <2> QED BY <1>0, <1>t, <2>1 DEF QuietStep, Live
<1>4. CASE OpenBlock
  <2>1. <<"INDENT">> \in Seq(TokenKinds) /\ \A i \in 1..Len(<<"INDENT">>) : <<"INDENT">>[i] = "INDENT"
    BY KindsSeq DEF TokenKinds
  <2>2. Emit(<<"INDENT">>, pos, UnitReport, {}, "body")
    BY <1>4 DEF OpenBlock
  <2>3. Added(<<"INDENT">>, pos) /\ phase' = "body"
    BY <1>t, <2>1, <2>2, EmitAdds
  <2>4. phase = "indent" /\ UNCHANGED <<pos, lineHasSignificant, lastSignificant>>
    BY <1>4 DEF OpenBlock, Measured, layoutUnchanged
  <2>5. LayoutStep
    BY <2>1, <2>3, <2>4 DEF LayoutStep, Live
  <2> QED BY <1>0, <2>5
<1>5. CASE CloseBlocks
  <2> PICK k \in 1..Level :
         LET keep == IF ClosesEqual(k) THEN k - 1 ELSE k
         IN  Emit(Dedents(Level - keep), pos, UnitReport,
                  IF Misaligned(k) THEN {<<"misaligned", pos>>} ELSE {}, "body")
    BY <1>5 DEF CloseBlocks
  <2> DEFINE keep == IF ClosesEqual(k) THEN k - 1 ELSE k
             after == IF Misaligned(k) THEN {<<"misaligned", pos>>} ELSE {}
             kinds == Dedents(Level - keep)
  <2>1. Level - keep \in Nat
    BY DEF TypeOK, Level, ClosesEqual
  <2>2. Emit(kinds, pos, UnitReport, after, "body")
    OBVIOUS
  <2>3. kinds \in Seq(TokenKinds) /\ \A i \in 1..Len(kinds) : kinds[i] = "DEDENT"
    BY <2>1, DedentsType
  <2> HIDE DEF keep, after, kinds
  <2>4. Added(kinds, pos) /\ phase' = "body"
    BY <1>t, <2>2, <2>3, EmitAdds
  <2>5. phase = "indent" /\ UNCHANGED <<pos, lineHasSignificant, lastSignificant>>
    BY <1>5 DEF CloseBlocks, Measured, layoutUnchanged
  <2>6. LayoutStep
    BY <2>3, <2>4, <2>5 DEF LayoutStep, Live
  <2> QED BY <1>0, <2>6
<1>6. CASE FinishPhysicalLine
  <2>1. PICK p \in pos..Len(src) :
          /\ RunEnds(Skipped, pos, p) /\ src[p] = "nl" /\ pos' = p + 1
          /\ Emit(SemicolonDue \o NewlineDue, p, {}, {}, "top")
    BY <1>6 DEF FinishPhysicalLine
  <2>2. phase = "body" /\ NewlineAware /\ lineHasSignificant' = FALSE
    BY <1>6 DEF FinishPhysicalLine
  <2>3. SemicolonDue \o NewlineDue \in Seq(TokenKinds) /\ p \in Nat
    BY <1>t, DueTypes, ConcatKinds
  <2>4. Added(SemicolonDue \o NewlineDue, p) /\ phase' = "top"
    BY <2>1, <2>3, EmitAdds
  <2>5. \A i \in pos..p - 1 : src[i] \in Blanks
    BY <2>1, <2>2 DEF RunEnds, Skipped
  <2>6. LineStep
    BY <2>1, <2>2, <2>4, <2>5 DEF LineStep, Live
  <2> QED BY <1>0, <2>6
<1>7. CASE Scan
  <2>1. PICK p \in pos..Len(src) :
          /\ RunEnds(Skipped, pos, p) /\ ~(NewlineAware /\ src[p] = "nl")
          /\ ScanEnds(p, pos') /\ pos' \in p..Len(src) + 1
          /\ \E kinds \in ScanEmits(src[p]) :
               Emit(kinds, p, {}, {}, "top") /\ NoteEmitted(kinds)
    BY <1>7 DEF Scan
  <2>2. PICK kinds \in ScanEmits(src[p]) :
          Emit(kinds, p, {}, {}, "top") /\ NoteEmitted(kinds)
    BY <2>1
  <2>3. phase = "body"
    BY <1>7 DEF Scan
  <2>4. kinds \in Seq(TokenKinds) /\ p \in Nat
    BY <1>t, ScanEmitsType, KindsSeq
  <2>5. Added(kinds, p) /\ phase' = "top"
    BY <2>2, <2>4, EmitAdds
  <2>6. src[p] \notin Blanks \cup {"nl"} /\ \A i \in pos..p - 1 : src[i] \in Skipped
    BY <1>t, <2>1 DEF RunEnds, Skipped, AtEnd
  <2>7. src[p] \in Symbols
    BY <1>t DEF TypeOK
  <2>8. /\ pos' \in p + 1..Len(src) + 1
        /\ src[p] = "lc" => \A i \in p..pos' - 1 : src[i] # "nl"
        /\ src[p] = "lc" => AtEnd(pos') \/ src[pos'] = "nl"
        /\ src[p] # "lc" => pos' = p + 1
    <3>1. CASE src[p] = "lc"
      <4>1. RunEnds(Symbols \ {"nl"}, p, pos')
        BY <2>1, <3>1 DEF ScanEnds
      <4>2. pos' # p
        BY <1>t, <2>7, <3>1, <4>1 DEF RunEnds, AtEnd
      <4>3. AtEnd(pos') \/ src[pos'] \in Symbols
        BY <1>t, <2>1 DEF TypeOK, AtEnd
      <4>4. /\ \A i \in p..pos' - 1 : src[i] # "nl"
            /\ AtEnd(pos') \/ src[pos'] = "nl"
        BY <4>1, <4>3 DEF RunEnds
      <4>5. pos' \in p + 1..Len(src) + 1
        BY <1>t, <2>1, <4>2
      <4> QED BY <3>1, <4>4, <4>5
    <3>2. CASE src[p] # "lc"
      BY <1>t, <2>1, <3>2 DEF ScanEnds
    <3> QED BY <3>1, <3>2
  <2>9. ScanStep
    BY <2>2, <2>3, <2>5, <2>6, <2>8 DEF ScanStep, Live
  <2> QED BY <1>0, <2>9
<1>8. CASE FinishStream
  <2>1. /\ phase = "eof" /\ pos' = pos
        /\ Emit((IF NewlineAware THEN EofLayout ELSE <<>>) \o <<"EOF">>, pos, {}, {}, "done")
    BY <1>8 DEF FinishStream
  <2>2. Added((IF NewlineAware THEN EofLayout ELSE <<>>) \o <<"EOF">>, pos) /\ phase' = "done"
    BY <1>t, <2>1, EndKinds, EmitAdds
  <2> QED BY <1>0, <2>1, <2>2 DEF EndStep, Live
<1>9. CASE UNCHANGED vars
  BY <1>0, <1>9
<1> QED BY <1>1, <1>2, <1>3, <1>4, <1>5, <1>6, <1>7, <1>8, <1>9 DEF Next, Returned
-----------------------------------------------------------------------------
(* Where tokens stand.                                                     *)

\* Tokens stand at or before lex.pos, and all but the layout of the line that
\* is starting before it.
Placed ==
  Live => \A i \in 1..Len(tokens) :
            /\ tokens[i].at \in 1..pos
            /\ tokens[i].kind \notin {"INDENT", "DEDENT"} => tokens[i].at < pos

\* A token after a push is an old one or one of those pushed.
LEMMA OldOrNew ==
  ASSUME TypeOK, NEW kinds, NEW p, Added(kinds, p)
  PROVE  /\ Len(tokens) \in Nat /\ Len(kinds) \in Nat /\ Len(tokens') \in Nat
         /\ \A i \in 1..Len(tokens) : i \in 1..Len(tokens') /\ tokens'[i] = tokens[i]
         /\ \A i \in 1..Len(tokens') :
              \/ i \in 1..Len(tokens) /\ tokens'[i] = tokens[i]
              \/ /\ i \in Len(tokens) + 1..Len(tokens') /\ i > Len(tokens)
                 /\ i - Len(tokens) \in 1..Len(kinds)
                 /\ tokens'[i].kind = kinds[i - Len(tokens)] /\ tokens'[i].at = p
<1>1. Len(tokens) \in Nat /\ Len(kinds) \in Nat
  BY DEF Added, TypeOK
<1> QED BY <1>1 DEF Added

LEMMA PlacedStep ==
  ASSUME TypeOK, Placed, [Next]_vars
  PROVE  Placed'
<1> SUFFICES ASSUME Live', NEW i \in 1..Len(tokens')
             PROVE  /\ tokens'[i].at \in 1..pos'
                    /\ tokens'[i].kind \notin {"INDENT", "DEDENT"} => tokens'[i].at < pos'
  BY DEF Placed
<1>t. pos \in Nat /\ pos \in 1..Len(src) + 1 /\ Len(src) \in Nat /\ Len(tokens) \in Nat
  BY DEF TypeOK
<1>f. phase' \notin {"done", "failed"}
  BY DEF Live
<1>1. CASE UNCHANGED vars
  BY <1>1 DEF vars, Placed, Live
<1>2. CASE QuietStep
  <2>1. Live /\ tokens' = tokens /\ pos' \in pos..Len(src) + 1
    BY <1>2 DEF QuietStep
  <2>2. /\ tokens[i].at \in 1..pos
        /\ tokens[i].kind \notin {"INDENT", "DEDENT"} => tokens[i].at < pos
    BY <2>1 DEF Placed
  <2> QED BY <1>t, <2>1, <2>2
<1>3. ASSUME Live, NEW kinds, NEW p \in pos..Len(src) + 1, Added(kinds, p), pos' \in p..Len(src) + 1,
             pos' > p \/ \A j \in 1..Len(kinds) : kinds[j] \in {"INDENT", "DEDENT"}
      PROVE  /\ tokens'[i].at \in 1..pos'
             /\ tokens'[i].kind \notin {"INDENT", "DEDENT"} => tokens'[i].at < pos'
  <2>1. CASE i \in 1..Len(tokens) /\ tokens'[i] = tokens[i]
    <3>1. /\ tokens[i].at \in 1..pos
          /\ tokens[i].kind \notin {"INDENT", "DEDENT"} => tokens[i].at < pos
      BY <1>3, <2>1 DEF Placed
    <3> QED BY <1>t, <1>3, <2>1, <3>1
  <2>2. CASE /\ i - Len(tokens) \in 1..Len(kinds)
             /\ tokens'[i].kind = kinds[i - Len(tokens)] /\ tokens'[i].at = p
    <3>1. p \in 1..pos'
      BY <1>t, <1>3
    <3>2. CASE pos' > p
      BY <2>2, <3>1, <3>2
    <3>3. CASE \A j \in 1..Len(kinds) : kinds[j] \in {"INDENT", "DEDENT"}
      BY <2>2, <3>1, <3>3
    <3> QED BY <1>3, <3>2, <3>3
  <2> QED BY <1>3, <2>1, <2>2, OldOrNew
<1>4. CASE LayoutStep
  <2>1. PICK kinds : Added(kinds, pos) /\ \A j \in 1..Len(kinds) : kinds[j] \in {"INDENT", "DEDENT"}
    BY <1>4 DEF LayoutStep
  <2>2. Live /\ pos' = pos /\ pos \in pos..Len(src) + 1
    BY <1>4, <1>t DEF LayoutStep
  <2> QED BY <1>3, <2>1, <2>2
<1>5. CASE LineStep
  <2>1. PICK p \in pos..Len(src) : pos' = p + 1 /\ Added(SemicolonDue \o NewlineDue, p)
    BY <1>5 DEF LineStep
  <2>2. Live /\ p \in pos..Len(src) + 1 /\ pos' \in p..Len(src) + 1 /\ pos' > p
    BY <1>5, <1>t, <2>1 DEF LineStep
  <2> QED BY <1>3, <2>1, <2>2
<1>6. CASE ScanStep
  <2>1. PICK p \in pos..Len(src) :
           /\ pos' \in p + 1..Len(src) + 1
           /\ \E kinds \in ScanEmits(src[p]) : Added(kinds, p)
    BY <1>6 DEF ScanStep
  <2>2. PICK kinds : Added(kinds, p)
    BY <2>1
  <2>3. Live /\ p \in pos..Len(src) + 1 /\ pos' \in p..Len(src) + 1 /\ pos' > p
    BY <1>6, <1>t, <2>1 DEF ScanStep
  <2> QED BY <1>3, <2>2, <2>3
<1>7. ~EndStep
  BY <1>f DEF EndStep
<1> QED BY <1>1, <1>2, <1>4, <1>5, <1>6, <1>7, <1>f, Steps
-----------------------------------------------------------------------------
(* The source is covered.                                                  *)

Single == {"name", "op", "bad"}

Scanned ==
  {i \in 1..Len(tokens) : /\ tokens[i].at \in 1..Len(src)
                          /\ src[tokens[i].at] \in Single
                          /\ tokens[i].kind \in {"NAME", "OP", "INVALID"}}

\* lex.pos is never inside a line comment.
Uncommented == Live /\ ~AtEnd(pos) => ~Commented(pos)

Covered ==
  Live => /\ {tokens[i].at : i \in Scanned}
               = {p \in 1..pos - 1 : src[p] \in Single /\ ~Commented(p)}
          /\ \A i, j \in Scanned : i < j => tokens[i].at < tokens[j].at

\* Where nothing begins a comment, a position is commented as the one before.
LEMMA CommentedFrom ==
  ASSUME NEW a \in Nat, NEW b \in Nat, a <= b, \A i \in a..b - 1 : src[i] # "lc"
  PROVE  Commented(b) => a <= b /\ Commented(a)
<1> SUFFICES ASSUME Commented(b) PROVE Commented(a)
  OBVIOUS
<1>1. PICK j \in 1..b - 1 : src[j] = "lc" /\ \A k \in j..b : src[k] # "nl"
  BY DEF Commented
<1>2. j \in 1..a - 1 /\ \A k \in j..a : src[k] # "nl"
  BY <1>1
<1> QED BY <1>1, <1>2 DEF Commented

LEMMA UncommentedStep ==
  ASSUME TypeOK, Uncommented, [Next]_vars
  PROVE  Uncommented'
<1> SUFFICES ASSUME Live', ~AtEnd(pos)', Commented(pos)' PROVE FALSE
  BY DEF Uncommented
<1>t. pos \in Nat /\ pos \in 1..Len(src) + 1 /\ Len(src) \in Nat
  BY DEF TypeOK
<1>f. phase' \notin {"done", "failed"}
  BY DEF Live
<1>s. src' = src /\ pos' \in Nat /\ pos' <= Len(src) /\ Commented(pos')
  <2>1. src' = src
    BY CallFixed
  <2>2. pos' \in Nat
    BY TypeNext, <2>1 DEF TypeOK
  <2>3. pos' <= Len(src)
    BY <1>t, <2>1, <2>2 DEF AtEnd
  <2> QED BY <2>1, <2>2, <2>3 DEF Commented
<1>1. CASE UNCHANGED vars
  BY <1>1, <1>s DEF vars, Uncommented, Live, AtEnd
<1>2. ASSUME Live, pos <= pos', \A i \in pos..pos' - 1 : src[i] # "lc" PROVE FALSE
  <2>1. Commented(pos)
    BY <1>t, <1>s, <1>2, CommentedFrom
  <2> QED BY <1>t, <1>s, <1>2, <2>1 DEF Uncommented, AtEnd
<1>q. "lc" \notin Blanks \cup {"nl"} /\ Skipped \subseteq Blanks \cup {"nl"}
  BY DEF Blanks, Units, Skipped
<1>3. CASE QuietStep
  <2>1. Live /\ pos' \in pos..Len(src) + 1 /\ \A i \in pos..pos' - 1 : src[i] \in Skipped
    BY <1>3 DEF QuietStep
  <2>2. pos <= pos' /\ \A i \in pos..pos' - 1 : src[i] # "lc"
    <3>1. pos <= pos'
      BY <1>t, <2>1
    <3> QED BY <1>q, <2>1, <3>1
  <2> QED BY <1>2, <2>1, <2>2
<1>4. CASE LayoutStep
  BY <1>2, <1>4, <1>t DEF LayoutStep
<1>5. CASE LineStep
  <2>1. PICK p \in pos..Len(src) :
           (\A i \in pos..p - 1 : src[i] \in Blanks) /\ src[p] = "nl" /\ pos' = p + 1
    BY <1>5 DEF LineStep
  <2>2. Live /\ \A i \in pos..pos' - 1 : src[i] # "lc"
    BY <1>5, <1>t, <1>q, <2>1 DEF LineStep
  <2> QED BY <1>2, <1>t, <2>1, <2>2
<1>6. CASE ScanStep
  <2>1. PICK p \in pos..Len(src) :
           /\ \A i \in pos..p - 1 : src[i] \in Skipped
           /\ pos' \in p + 1..Len(src) + 1
           /\ src[p] = "lc" => AtEnd(pos') \/ src[pos'] = "nl"
           /\ src[p] # "lc" => pos' = p + 1
    BY <1>6 DEF ScanStep
  <2>2. CASE src[p] = "lc"
    <3>1. src[pos'] = "nl"
      BY <1>s, <1>t, <2>1, <2>2 DEF AtEnd
    <3> QED BY <1>s, <3>1 DEF Commented
  <2>3. CASE src[p] # "lc"
    <3>1. pos' = p + 1 /\ p >= pos
      BY <2>1, <2>3
    <3>2. \A i \in pos..pos' - 1 : i = p \/ i \in pos..p - 1
      BY <1>t, <3>1
    <3>3. \A i \in pos..pos' - 1 : src[i] # "lc"
      BY <1>q, <2>1, <2>3, <3>2
    <3>4. Live /\ pos <= pos'
      BY <1>6, <1>t, <3>1 DEF ScanStep
    <3> QED BY <1>2, <3>3, <3>4
  <2> QED BY <2>2, <2>3
<1>7. ~EndStep
  BY <1>f DEF EndStep
<1> QED BY <1>1, <1>3, <1>4, <1>5, <1>6, <1>7, <1>f, Steps

\* What lies between lex.pos and the next position is no code but the symbol
\* that was scanned.
LEMMA CoveredStep ==
  ASSUME TypeOK, Placed, Uncommented, Covered, [Next]_vars
  PROVE  Covered'
<1> SUFFICES ASSUME Live' PROVE Covered'
  BY DEF Covered
<1>t. pos \in Nat /\ pos \in 1..Len(src) + 1 /\ Len(src) \in Nat /\ Len(tokens) \in Nat
  BY DEF TypeOK
<1>f. phase' \notin {"done", "failed"}
  BY DEF Live
<1>s. src' = src
  BY CallFixed
<1> DEFINE Code(q) == src[q] \in Single /\ ~Commented(q)
           At(i) == tokens[i].at
<1>c. \A q : Commented(q)' <=> Commented(q)
  BY <1>s DEF Commented
<1>q. /\ Single \cap (Blanks \cup {"nl"}) = {} /\ Skipped \subseteq Blanks \cup {"nl"}
      /\ "lc" \notin Single
  BY DEF Blanks, Units, Skipped, Single
<1>g. Covered' <=>
        /\ {tokens'[i].at : i \in Scanned'} = {q \in 1..pos' - 1 : Code(q)}
        /\ \A i, j \in Scanned' : i < j => tokens'[i].at < tokens'[j].at
  <2>1. {q \in 1..pos' - 1 : src'[q] \in Single /\ ~Commented(q)'} = {q \in 1..pos' - 1 : Code(q)}
    BY <1>s, <1>c
  <2>2. Live'
    OBVIOUS
  <2> HIDE DEF Code
  <2> QED BY <2>1, <2>2 DEF Covered
<1>1. CASE UNCHANGED vars
  BY <1>1 DEF vars, Covered, Live, Scanned, Commented
<1>h. Live => /\ {tokens[i].at : i \in Scanned} = {q \in 1..pos - 1 : Code(q)}
              /\ \A i, j \in Scanned : i < j => tokens[i].at < tokens[j].at
  BY DEF Covered
<1> HIDE DEF Code
\* No code symbol was passed and no scanned token pushed.
<1>2. ASSUME Live, NEW end \in Nat, pos' = end, pos <= end, \A q \in pos..end - 1 : ~Code(q),
             Scanned' = Scanned, \A i \in Scanned : tokens'[i] = tokens[i]
      PROVE  Covered'
  <2>1. {q \in 1..end - 1 : Code(q)} = {q \in 1..pos - 1 : Code(q)}
    BY ONLY <1>t, <1>2
  <2>2. {tokens'[i].at : i \in Scanned'} = {tokens[i].at : i \in Scanned}
    BY <1>2
  <2>3. \A i, j \in Scanned' : i < j => tokens'[i].at < tokens'[j].at
    BY <1>2, <1>h
  <2>4. {q \in 1..pos' - 1 : Code(q)} = {q \in 1..pos - 1 : Code(q)}
    BY ONLY <1>2, <2>1
  <2> QED BY <1>2, <1>g, <1>h, <2>2, <2>3, <2>4
\* A push adds no scanned token when none of what it adds is one.
<1>3. ASSUME NEW kinds, NEW p, Added(kinds, p),
             \/ p \in 1..Len(src) => src[p] \notin Single
             \/ \A j \in 1..Len(kinds) : kinds[j] \notin {"NAME", "OP", "INVALID"}
      PROVE  Scanned' = Scanned /\ \A i \in Scanned : tokens'[i] = tokens[i]
  <2>1. \A i \in Scanned : i \in 1..Len(tokens') /\ tokens'[i] = tokens[i]
    BY <1>3, OldOrNew DEF Scanned
  <2>2. \A i \in Scanned' : i \in 1..Len(tokens) /\ tokens'[i] = tokens[i]
    <3> SUFFICES ASSUME NEW i \in Scanned' PROVE i \in 1..Len(tokens) /\ tokens'[i] = tokens[i]
      OBVIOUS
    <3>1. /\ i \in 1..Len(tokens') /\ tokens'[i].at \in 1..Len(src) /\ src[tokens'[i].at] \in Single
          /\ tokens'[i].kind \in {"NAME", "OP", "INVALID"}
      BY <1>s DEF Scanned
    <3> QED BY <1>3, <3>1, OldOrNew
  <2>3. Scanned \subseteq Scanned'
    BY <1>s, <2>1 DEF Scanned
  <2>4. Scanned' \subseteq Scanned
    BY <1>s, <2>2 DEF Scanned
  <2> QED BY <2>1, <2>3, <2>4
<1>4. CASE QuietStep
  <2>1. Live /\ tokens' = tokens /\ pos' \in pos..Len(src) + 1
        /\ \A i \in pos..pos' - 1 : src[i] \in Skipped
    BY <1>4 DEF QuietStep
  <2>2. Scanned' = Scanned
    BY <1>s, <2>1 DEF Scanned
  <2>3. \A i \in pos..pos' - 1 : ~Code(i)
    BY <1>q, <2>1 DEF Code
  <2>4. pos' \in Nat /\ pos <= pos'
    BY <1>t, <2>1
  <2> QED BY <1>2, <2>1, <2>2, <2>3, <2>4
<1>5. CASE LayoutStep
  <2>1. PICK kinds : Added(kinds, pos) /\ \A j \in 1..Len(kinds) : kinds[j] \in {"INDENT", "DEDENT"}
    BY <1>5 DEF LayoutStep
  <2>2. Live /\ pos' = pos
    BY <1>5 DEF LayoutStep
  <2>3. Scanned' = Scanned /\ \A i \in Scanned : tokens'[i] = tokens[i]
    BY <1>3, <2>1
  <2>4. \A q \in pos..pos' - 1 : ~Code(q)
    BY <1>t, <2>2
  <2> QED BY <1>2, <1>t, <2>2, <2>3, <2>4
<1>6. CASE LineStep
  <2>1. PICK p \in pos..Len(src) :
           /\ \A i \in pos..p - 1 : src[i] \in Blanks
           /\ src[p] = "nl" /\ pos' = p + 1
           /\ Added(SemicolonDue \o NewlineDue, p)
    BY <1>6 DEF LineStep
  <2>2. Scanned' = Scanned /\ \A i \in Scanned : tokens'[i] = tokens[i]
    BY <1>3, <1>q, <2>1
  <2>3. \A i \in pos..pos' - 1 : i = p \/ i \in pos..p - 1
    BY <1>t, <2>1
  <2>4. \A i \in pos..pos' - 1 : ~Code(i)
    BY <1>q, <2>1, <2>3 DEF Code
  <2>5. Live /\ pos' \in Nat /\ pos <= pos'
    BY <1>6, <1>t, <2>1 DEF LineStep
  <2> QED BY <1>2, <2>2, <2>4, <2>5
<1>7. CASE ScanStep
  <2>p. PICK p \in pos..Len(src) :
           /\ \A i \in pos..p - 1 : src[i] \in Skipped
           /\ src[p] \notin Blanks \cup {"nl"}
           /\ pos' \in p + 1..Len(src) + 1
           /\ src[p] = "lc" => \A i \in p..pos' - 1 : src[i] # "nl"
           /\ src[p] # "lc" => pos' = p + 1
           /\ \E kinds \in ScanEmits(src[p]) : Added(kinds, p)
    BY <1>7 DEF ScanStep
  <2>e. PICK end \in Nat : end = pos'
    BY <1>t, <2>p
  <2>0. /\ \A i \in pos..p - 1 : src[i] \in Skipped
        /\ src[p] \notin Blanks \cup {"nl"}
        /\ pos' = end /\ end \in p + 1..Len(src) + 1
        /\ src[p] = "lc" => \A i \in p..end - 1 : src[i] # "nl"
        /\ src[p] # "lc" => end = p + 1
        /\ \E kinds \in ScanEmits(src[p]) : Added(kinds, p)
    BY <2>p, <2>e
  <2>1. /\ \A i \in pos..p - 1 : src[i] \in Skipped
        /\ src[p] = "lc" => \A i \in p..end - 1 : src[i] # "nl"
        /\ src[p] # "lc" => end = p + 1
    BY <2>0
  <2>2. PICK kinds \in ScanEmits(src[p]) : Added(kinds, p)
    BY <2>0
  <2>3. /\ Live /\ pos' = end /\ end \in Nat /\ p \in Nat
        /\ pos <= p /\ p <= Len(src) /\ p < end
    BY <1>7, <1>t, <2>0 DEF ScanStep
  <2>4. \A i \in pos..p - 1 : ~Code(i)
    BY <1>q, <2>1 DEF Code
  <2>5. \A i \in p + 1..end - 1 : ~Code(i)
    <3> SUFFICES ASSUME NEW i \in p + 1..end - 1 PROVE Commented(i)
      BY DEF Code
    <3>1. src[p] = "lc"
      BY ONLY <2>1, <2>3
    <3>2. p \in 1..i - 1 /\ \A k \in p..i : src[k] # "nl"
      BY ONLY <1>t, <2>1, <2>3, <3>1
    <3> QED BY <3>1, <3>2 DEF Commented
  <2>6. \A i \in pos..end - 1 : i \in pos..p - 1 \/ i = p \/ i \in p + 1..end - 1
    BY ONLY <1>t, <2>3
  <2>7. CASE src[p] \notin Single
    <3>1. Scanned' = Scanned /\ \A i \in Scanned : tokens'[i] = tokens[i]
      BY <1>3, <2>2, <2>7
    <3>2. \A i \in pos..end - 1 : ~Code(i)
      BY <2>4, <2>5, <2>6, <2>7 DEF Code
    <3> QED BY <1>2, <1>t, <2>3, <3>1, <3>2
  <2>8. CASE src[p] \in Single
    <3> DEFINE n == Len(tokens) + 1
    <3>1. kinds = <<TokenOf(src[p])>>
      BY <2>8 DEF ScanEmits, Single
    <3>2. TokenOf(src[p]) \in {"NAME", "OP", "INVALID"}
      BY DEF TokenOf
    <3>3. Len(kinds) = 1 /\ kinds[1] = TokenOf(src[p])
      BY <3>1
    <3>4. /\ Len(tokens') = n
          /\ tokens'[n].kind = TokenOf(src[p]) /\ tokens'[n].at = p
          /\ \A i \in 1..Len(tokens) : tokens'[i] = tokens[i]
      <4>1. Len(tokens') = n /\ n \in Len(tokens) + 1..Len(tokens') /\ n - Len(tokens) = 1
        BY <1>t, <2>2, <3>3 DEF Added
      <4> QED BY <2>2, <3>3, <4>1 DEF Added
    <3>5. Scanned' = Scanned \cup {n} /\ n \notin Scanned /\ Scanned \subseteq 1..Len(tokens)
      <4>1. n \in Scanned' /\ n \notin 1..Len(tokens)
        BY <1>s, <1>t, <2>3, <2>8, <3>2, <3>4 DEF Scanned
      <4>2. \A i \in 1..n : i = n \/ i \in 1..Len(tokens)
        BY <1>t
      <4>3. \A i \in 1..Len(tokens) : i \in 1..n /\ (i \in Scanned' <=> i \in Scanned)
        BY <1>s, <1>t, <3>4 DEF Scanned
      <4> HIDE DEF n
      <4> QED BY <3>4, <4>1, <4>2, <4>3 DEF Scanned
    <3>6. Code(p)
      <4>1. ~Commented(pos)
        BY <1>t, <2>3 DEF Uncommented, AtEnd
      <4>2. \A i \in pos..p - 1 : src[i] # "lc"
        BY <2>1, <1>q DEF Blanks, Units
      <4> QED BY <1>t, <2>3, <2>8, <4>1, <4>2, CommentedFrom DEF Code
    <3>7. {q \in 1..end - 1 : Code(q)} = {q \in 1..pos - 1 : Code(q)} \cup {p}
      <4>1. \A q \in 1..end - 1 : q \in 1..pos - 1 \/ q \in pos..end - 1
        BY ONLY <1>t, <2>3
      <4>2. p \in 1..end - 1 /\ \A q \in 1..pos - 1 : q \in 1..end - 1
        BY ONLY <1>t, <2>1, <2>3
      <4> QED BY <2>4, <2>5, <2>6, <3>6, <4>1, <4>2
    <3>8. {tokens'[i].at : i \in Scanned'} = {tokens[i].at : i \in Scanned} \cup {p}
      <4> HIDE DEF n
      <4> QED BY <3>4, <3>5
    <3>9. \A i, j \in Scanned' : i < j => tokens'[i].at < tokens'[j].at
      <4> SUFFICES ASSUME NEW i \in Scanned', NEW j \in Scanned', i < j
                   PROVE  tokens'[i].at < tokens'[j].at
        OBVIOUS
      <4>1. i \in 1..Len(tokens) /\ i \in Scanned
        BY <1>t, <3>5
      <4>2. tokens'[i] = tokens[i] /\ tokens[i].at < pos /\ tokens[i].at \in Nat
        <5>1. tokens[i].at \in {q \in 1..pos - 1 : Code(q)}
          BY <1>h, <2>3, <4>1
        <5> QED BY <1>t, <3>4, <4>1, <5>1
      <4>3. CASE j = n
        BY <1>t, <2>3, <3>4, <4>2, <4>3
      <4>4. CASE j \in Scanned
        BY <1>h, <2>3, <3>4, <3>5, <4>1, <4>4
      <4> QED BY <3>5, <4>3, <4>4
    <3> QED BY <1>g, <1>h, <2>3, <3>7, <3>8, <3>9
  <2> QED BY <2>7, <2>8
<1>8. ~EndStep
  BY <1>f DEF EndStep
<1> QED BY <1>1, <1>4, <1>5, <1>6, <1>7, <1>8, <1>f, Steps

\* Whatever the source and the configuration, at the start of every iteration
\* the scanned tokens stand at exactly the code symbols before lex.pos that no
\* line comment hides, one each and in source order: what the loop of
\* kavak_lex skips is white space or comment, and what it claims it claims
\* once (src/src/lexer.c:1147).
THEOREM SourceAlwaysCovered == Spec => []SourceCovered
<1> DEFINE Inv == Placed /\ Uncommented /\ Covered
<1>1. Init => Inv
  <2> SUFFICES ASSUME Init PROVE Inv
    OBVIOUS
  <2>1. tokens = <<>> /\ pos = 1 /\ Len(tokens) = 0
    BY DEF Init
  <2>2. Placed /\ Scanned = {}
    BY <2>1 DEF Placed, Scanned
  <2>3. Uncommented
    BY <2>1 DEF Uncommented, Commented
  <2>4. Covered
    BY <2>1, <2>2 DEF Covered
  <2> QED BY <2>2, <2>3, <2>4
<1>2. TypeOK /\ Inv /\ [Next]_vars => Inv'
  BY PlacedStep, UncommentedStep, CoveredStep
<1>3. TypeOK /\ Inv => SourceCovered
  <2> SUFFICES ASSUME TypeOK, Inv, phase = "top" PROVE SourceCovered
    BY DEF SourceCovered
  <2>1. DOMAIN tokens = 1..Len(tokens) /\ Live
    BY DEF TypeOK, Live
  <2> QED BY <2>1 DEF SourceCovered, Covered, Scanned, Positions, Single
<1> QED BY <1>1, <1>2, <1>3, TypeCorrect, PTL DEF Spec
-----------------------------------------------------------------------------
(* Lines.                                                                  *)

\* l starts the line that p is on, the end of the line included.
LineAt(l, p) == l \in LineStarts /\ l <= p /\ \A i \in l..p - 1 : src[i] # "nl"

\* The line that starts at l ends at e.
Line(l, e) == LineAt(l, e) /\ e \in 1..Len(src) + 1 /\ (AtEnd(e) \/ src[e] = "nl")

LEMMA StartsTyped ==
  ASSUME TypeOK, NEW l \in LineStarts
  PROVE  l \in Nat /\ l >= 1 /\ l <= Len(src) + 1 /\ Len(src) \in Nat /\ (l = 1 \/ src[l - 1] = "nl")
BY DEF TypeOK, LineStarts

LEMMA LineUnique ==
  ASSUME TypeOK, NEW p \in Nat, NEW l, NEW m, LineAt(l, p), LineAt(m, p)
  PROVE  l = m
<1>1. ASSUME NEW a, NEW b, LineAt(a, p), LineAt(b, p), a < b PROVE FALSE
  <2>1. a \in Nat /\ b \in Nat /\ b >= 1 /\ b <= p /\ (b = 1 \/ src[b - 1] = "nl") /\ a >= 1
    BY <1>1, StartsTyped DEF LineAt
  <2>2. b - 1 \in a..p - 1 /\ b # 1
    BY ONLY <1>1, <2>1, p \in Nat
  <2> QED BY <1>1, <2>1, <2>2 DEF LineAt
<1>2. l \in Nat /\ m \in Nat
  BY StartsTyped DEF LineAt
<1>3. l < m \/ m < l \/ l = m
  BY <1>2
<1> QED BY <1>1, <1>3

LEMMA LineGoesOn ==
  ASSUME TypeOK, NEW p \in Nat, NEW q \in Nat, NEW l, LineAt(l, p), p <= q,
         \A i \in p..q - 1 : src[i] # "nl"
  PROVE  LineAt(l, q)
<1>1. l \in Nat
  BY StartsTyped DEF LineAt
<1>2. \A i \in l..q - 1 : i \in l..p - 1 \/ i \in p..q - 1
  BY <1>1 DEF LineAt
<1> QED BY <1>1, <1>2 DEF LineAt

\* Every line has one end, the one LexLayoutRef names.
LEMMA LineEndUnique ==
  ASSUME TypeOK, NEW l, NEW e, NEW f, Line(l, e), Line(l, f)
  PROVE  e = f
<1>1. ASSUME NEW a, NEW b, Line(l, a), Line(l, b), a < b PROVE FALSE
  <2>1. l \in Nat /\ Len(src) \in Nat /\ a \in Nat /\ b \in Nat /\ l <= a /\ b <= Len(src) + 1
    BY <1>1, StartsTyped DEF Line, LineAt
  <2>2. a \in l..b - 1 /\ a <= Len(src)
    BY ONLY <1>1, <2>1
  <2>3. src[a] = "nl"
    BY <1>1, <2>1, <2>2 DEF Line, AtEnd
  <2> QED BY <1>1, <2>2, <2>3 DEF Line, LineAt
<1>2. e \in Nat /\ f \in Nat
  BY StartsTyped DEF Line
<1>3. e < f \/ f < e \/ e = f
  BY <1>2
<1> QED BY <1>1, <1>3

LEMMA LineEndOK ==
  ASSUME TypeOK, NEW l \in LineStarts
  PROVE  Line(l, LineEnd(l))
<1>1. l \in Nat /\ l >= 1 /\ l <= Len(src) + 1 /\ Len(src) \in Nat
  BY StartsTyped
<1> DEFINE stops == {e \in l..Len(src) + 1 : AtEnd(e) \/ src[e] = "nl"}
           Good(e) == RunEnds(Symbols \ {"nl"}, l, e)
<1>2. stops \in SUBSET Nat /\ Len(src) + 1 \in stops
  BY <1>1 DEF AtEnd
<1>3. PICK e \in stops : \A f \in stops : e <= f
  <2> HIDE DEF stops
  <2> QED BY <1>2, LeastNumber
<1>4. e \in l..Len(src) + 1 /\ (AtEnd(e) \/ src[e] = "nl")
  OBVIOUS
<1>5. \A i \in l..e - 1 : i \in 1..Len(src) /\ src[i] # "nl" /\ src[i] \in Symbols
  <2> TAKE i \in l..e - 1
  <2>1. i \in 1..Len(src) /\ i \in l..Len(src) + 1 /\ ~(e <= i)
    BY <1>1, <1>4
  <2>2. i \notin stops
    BY <1>3, <2>1
  <2>3. src[i] \in Symbols
    BY <2>1 DEF TypeOK
  <2> QED BY <2>1, <2>2, <2>3
<1>6. Good(e)
  BY <1>4, <1>5 DEF RunEnds, AtEnd
<1>7. LineEnd(l) \in l..Len(src) + 1 /\ Good(LineEnd(l))
  <2>1. LineEnd(l) = CHOOSE f \in l..Len(src) + 1 : Good(f)
    BY DEF LineEnd
  <2> HIDE DEF Good
  <2> QED BY <1>4, <1>6, <2>1
<1> DEFINE f == LineEnd(l)
<1> HIDE DEF f
<1>8. f \in l..Len(src) + 1 /\ Good(f)
  BY <1>7 DEF f
<1>9. f \in 1..Len(src) + 1 /\ l <= f /\ \A i \in l..f - 1 : src[i] # "nl"
  BY <1>1, <1>8 DEF RunEnds
<1>10. AtEnd(f) \/ src[f] = "nl"
  <2>1. AtEnd(f) \/ (src[f] \notin Symbols \ {"nl"} /\ f \in 1..Len(src))
    BY <1>1, <1>8, <1>9 DEF RunEnds, AtEnd
  <2>2. f \in 1..Len(src) => src[f] \in Symbols
    BY DEF TypeOK
  <2> QED BY <2>1, <2>2
<1> QED BY <1>9, <1>10 DEF Line, LineAt, f

\* Lines are a matter of the source alone, and a call keeps its source.
LEMMA LinesStay ==
  ASSUME src' = src
  PROVE  /\ \A l, p : LineAt(l, p)' <=> LineAt(l, p)
         /\ \A l, e : Line(l, e)' <=> Line(l, e)
BY DEF LineAt, Line, LineStarts, AtEnd
-----------------------------------------------------------------------------
(* The significant tokens of a line.                                       *)

IsCode(i) == /\ i \in 1..Len(tokens)
             /\ Significant(tokens[i].kind) /\ tokens[i].kind # "SEMI"
CodeFrom(l)  == {i \in 1..Len(tokens) : IsCode(i) /\ tokens[i].at >= l}
CodeIn(l, e) == {i \in 1..Len(tokens) : IsCode(i) /\ tokens[i].at \in l..e - 1}

\* What note_emitted_tokens knows of the line under lex.pos: whether it has
\* significant tokens, and which is the last.
LineKnown ==
  Live /\ NewlineAware =>
    \E l : /\ LineAt(l, pos)
           /\ lineHasSignificant <=> CodeFrom(l) # {}
           /\ lineHasSignificant => /\ lastSignificant \in CodeFrom(l)
                                    /\ \A i \in CodeFrom(l) : i <= lastSignificant

\* A push at p leaves the significant tokens before p alone.
LEMMA CodeStays ==
  ASSUME TypeOK, NEW kinds, NEW p \in Nat, Added(kinds, p), NEW l \in Nat, NEW e \in Nat, e <= p
  PROVE  CodeIn(l, e)' = CodeIn(l, e) /\ \A i \in CodeIn(l, e) : tokens'[i] = tokens[i]
<1>1. ASSUME NEW i \in CodeIn(l, e)' PROVE i \in CodeIn(l, e)
  <2>1. i \in 1..Len(tokens') /\ IsCode(i)' /\ tokens'[i].at \in l..e - 1
    BY <1>1 DEF CodeIn
  <2>2. i \in 1..Len(tokens) /\ tokens'[i] = tokens[i]
    BY <2>1, OldOrNew
  <2> QED BY <2>1, <2>2 DEF CodeIn, IsCode
<1>2. ASSUME NEW i \in CodeIn(l, e)
      PROVE  i \in CodeIn(l, e)' /\ tokens'[i] = tokens[i]
  <2>1. i \in 1..Len(tokens) /\ IsCode(i) /\ tokens[i].at \in l..e - 1
    BY <1>2 DEF CodeIn
  <2>2. i \in 1..Len(tokens') /\ tokens'[i] = tokens[i]
    BY <2>1, OldOrNew
  <2> QED BY <2>1, <2>2 DEF CodeIn, IsCode
<1> QED BY <1>1, <1>2

\* The significant kinds a push adds are those it notes, at their places.
LEMMA CodeAdded ==
  ASSUME TypeOK, NEW kinds, NEW p \in Nat, Added(kinds, p), NEW l \in Nat, l <= p,
         \A j \in 1..Len(kinds) : kinds[j] # "SEMI"
  PROVE  LET new == {i \in Len(tokens) + 1..Len(tokens') : Significant(kinds[i - Len(tokens)])}
         IN  CodeFrom(l)' = CodeFrom(l) \cup new /\ Len(tokens) \in Nat /\ Len(tokens') \in Nat
<1> DEFINE new == {i \in Len(tokens) + 1..Len(tokens') : Significant(kinds[i - Len(tokens)])}
<1>1. \A i \in 1..Len(tokens) : i \in CodeFrom(l)' <=> i \in CodeFrom(l)
  BY OldOrNew DEF CodeFrom, IsCode
<1>2. \A i \in Len(tokens) + 1..Len(tokens') : i \in CodeFrom(l)' <=> i \in new
  <2> TAKE i \in Len(tokens) + 1..Len(tokens')
  <2>1. /\ i \in 1..Len(tokens') /\ i - Len(tokens) \in 1..Len(kinds)
        /\ tokens'[i].kind = kinds[i - Len(tokens)] /\ tokens'[i].at = p
    BY OldOrNew DEF Added
  <2> QED BY <2>1 DEF CodeFrom, IsCode
<1>3. CodeFrom(l) \subseteq 1..Len(tokens) /\ CodeFrom(l)' \subseteq 1..Len(tokens')
  BY DEF CodeFrom
<1>4. /\ Len(tokens) \in Nat /\ Len(tokens') \in Nat
      /\ \A i \in 1..Len(tokens) : i \in 1..Len(tokens')
      /\ \A i \in 1..Len(tokens') : i \in 1..Len(tokens) \/ i \in Len(tokens) + 1..Len(tokens')
      /\ new \subseteq Len(tokens) + 1..Len(tokens')
  BY OldOrNew
<1> HIDE DEF new
<1>5. CodeFrom(l)' = CodeFrom(l) \cup new
  BY <1>1, <1>2, <1>3, <1>4
<1> QED BY <1>4, <1>5 DEF new

LEMMA LineKnownStep ==
  ASSUME TypeOK, Placed, LineKnown, [Next]_vars
  PROVE  LineKnown'
<1> SUFFICES ASSUME Live', NewlineAware' PROVE LineKnown'
  BY DEF LineKnown
<1>t. pos \in Nat /\ pos \in 1..Len(src) + 1 /\ Len(src) \in Nat /\ Len(tokens) \in Nat
  BY DEF TypeOK
<1>f. phase' \notin {"done", "failed"}
  BY DEF Live
<1>s. src' = src /\ cfg' = cfg /\ NewlineAware /\ Skipped = Blanks /\ "nl" \notin Blanks
  BY CallFixed DEF NewlineAware, Skipped, Blanks, Units
<1>1. CASE UNCHANGED vars
  BY <1>1 DEF vars, LineKnown, Live, NewlineAware, LineAt, LineStarts, CodeFrom, IsCode
<1> DEFINE Known(l) == /\ lineHasSignificant <=> CodeFrom(l) # {}
                       /\ lineHasSignificant => /\ lastSignificant \in CodeFrom(l)
                                                /\ \A i \in CodeFrom(l) : i <= lastSignificant
<1>k. Live => \E l : LineAt(l, pos) /\ Known(l)
  BY <1>s DEF LineKnown
<1>g. ASSUME NEW l, LineAt(l, pos'), Known(l)' PROVE LineKnown'
  <2>1. LineAt(l, pos)'
    BY <1>s, <1>g, LinesStay
  <2> QED BY <1>g, <2>1 DEF LineKnown
<1>2. CASE QuietStep
  <2>1. Live /\ pos' \in pos..Len(src) + 1 /\ (\A i \in pos..pos' - 1 : src[i] \in Skipped)
        /\ UNCHANGED <<tokens, lineHasSignificant, lastSignificant>>
    BY <1>2 DEF QuietStep
  <2>2. PICK l : LineAt(l, pos) /\ Known(l)
    BY <1>k, <2>1
  <2>3. pos' \in Nat /\ pos <= pos' /\ \A i \in pos..pos' - 1 : src[i] # "nl"
    <3>1. pos' \in Nat /\ pos <= pos'
      BY <1>t, <2>1
    <3> QED BY <1>s, <2>1, <3>1
  <2>4. LineAt(l, pos')
    BY <1>t, <2>2, <2>3, LineGoesOn
  <2>5. Known(l)'
    BY <2>1, <2>2 DEF CodeFrom, IsCode
  <2> QED BY <1>g, <2>4, <2>5
<1>3. CASE LayoutStep
  <2>1. PICK kinds : Added(kinds, pos) /\ \A j \in 1..Len(kinds) : kinds[j] \in {"INDENT", "DEDENT"}
    BY <1>3 DEF LayoutStep
  <2>2. Live /\ pos' = pos /\ UNCHANGED <<lineHasSignificant, lastSignificant>>
    BY <1>3 DEF LayoutStep
  <2>3. PICK l : LineAt(l, pos) /\ Known(l)
    BY <1>k, <2>2
  <2>4. l \in Nat /\ l <= pos
    BY <2>3, StartsTyped DEF LineAt
  <2>5. CodeFrom(l)' = CodeFrom(l) \cup
          {i \in Len(tokens) + 1..Len(tokens') : Significant(kinds[i - Len(tokens)])}
    <3>1. \A j \in 1..Len(kinds) : kinds[j] # "SEMI"
      BY <2>1
    <3> QED BY <1>t, <2>1, <2>4, <3>1, CodeAdded
  <2>6. \A i \in Len(tokens) + 1..Len(tokens') : ~Significant(kinds[i - Len(tokens)])
    <3> TAKE i \in Len(tokens) + 1..Len(tokens')
    <3>1. i - Len(tokens) \in 1..Len(kinds)
      BY <1>t, <2>1 DEF Added
    <3> QED BY <2>1, <3>1 DEF Significant
  <2>7. CodeFrom(l)' = CodeFrom(l)
    BY <2>5, <2>6
  <2> QED BY <1>g, <2>2, <2>3, <2>7
<1>4. CASE LineStep
  <2>1. PICK p \in pos..Len(src) :
           src[p] = "nl" /\ pos' = p + 1 /\ Added(SemicolonDue \o NewlineDue, p)
    BY <1>4 DEF LineStep
  <2>2. Live /\ lineHasSignificant' = FALSE
    BY <1>4 DEF LineStep
  <2>3. p \in Nat /\ pos <= p /\ p <= Len(src)
    BY <1>t, <2>1
  <2>4. LineAt(p + 1, pos')
    <3>1. p + 1 \in LineStarts
      BY <1>t, <2>1, <2>3 DEF LineStarts
    <3>2. p + 1 <= p + 1 /\ \A i \in p + 1..p + 1 - 1 : FALSE
      BY <2>3
    <3> QED BY <2>1, <3>1, <3>2 DEF LineAt
  <2>5. CodeFrom(p + 1)' = {}
    <3> SUFFICES ASSUME NEW i \in CodeFrom(p + 1)' PROVE FALSE
      OBVIOUS
    <3>1. i \in 1..Len(tokens') /\ tokens'[i].at >= p + 1
      BY DEF CodeFrom
    <3>2. i \in 1..Len(tokens) => tokens[i].at \in 1..pos
      BY <2>2 DEF Placed
    <3>3. (i \in 1..Len(tokens) /\ tokens'[i] = tokens[i]) \/ tokens'[i].at = p
      BY <2>1, <3>1, OldOrNew
    <3> QED BY <1>t, <2>3, <3>1, <3>2, <3>3
  <2> QED BY <1>g, <2>2, <2>4, <2>5
<1>5. CASE ScanStep
  <2>p. PICK p \in pos..Len(src) :
           /\ \A i \in pos..p - 1 : src[i] \in Skipped
           /\ src[p] \notin Blanks \cup {"nl"}
           /\ pos' \in p + 1..Len(src) + 1
           /\ src[p] = "lc" => \A i \in p..pos' - 1 : src[i] # "nl"
           /\ src[p] # "lc" => pos' = p + 1
           /\ \E kinds \in ScanEmits(src[p]) : Added(kinds, p) /\ NoteEmitted(kinds)
    BY <1>5 DEF ScanStep
  <2>e. PICK end \in Nat : end = pos'
    BY <1>t, <2>p
  <2>1. PICK kinds \in ScanEmits(src[p]) : Added(kinds, p) /\ NoteEmitted(kinds)
    BY <2>p
  <2>2. Live /\ p \in Nat /\ pos <= p /\ p < end /\ end \in Nat
    BY <1>5, <1>t, <2>p, <2>e DEF ScanStep
  <2>3. PICK l : LineAt(l, pos) /\ Known(l)
    BY <1>k, <2>2
  <2>4. l \in Nat /\ l <= pos
    BY <2>3, StartsTyped DEF LineAt
  <2>5. LineAt(l, pos')
    <3>1. \A i \in pos..p - 1 : src[i] # "nl"
      BY <1>s, <2>p
    <3>2. \A i \in p..end - 1 : src[i] # "nl"
      <4>1. CASE src[p] = "lc"
        BY <2>p, <2>e, <4>1
      <4>2. CASE src[p] # "lc"
        <5>1. end = p + 1 /\ src[p] # "nl"
          BY <2>p, <2>e, <4>2
        <5>2. \A i \in p..end - 1 : i = p
          BY ONLY <2>2, <5>1
        <5> QED BY <5>1, <5>2
      <4> QED BY <4>1, <4>2
    <3>3. \A i \in pos..end - 1 : i \in pos..p - 1 \/ i \in p..end - 1
      BY ONLY <1>t, <2>2
    <3>4. \A i \in pos..end - 1 : src[i] # "nl"
      BY <3>1, <3>2, <3>3
    <3>5. LineAt(l, end)
      BY <1>t, <2>2, <2>3, <3>4, LineGoesOn
    <3> QED BY <2>e, <3>5
  <2>6. kinds \in Seq(ScanKinds)
    BY ScanEmitsType
  <2> DEFINE new == {i \in Len(tokens) + 1..Len(tokens') : Significant(kinds[i - Len(tokens)])}
             noted == {i \in 1..Len(kinds) : Significant(kinds[i])}
  <2>7. CodeFrom(l)' = CodeFrom(l) \cup new
    <3>1. \A j \in 1..Len(kinds) : kinds[j] # "SEMI"
      <4>1. "SEMI" \notin ScanKinds
        BY DEF ScanKinds
      <4> QED BY <2>6, <4>1
    <3> QED BY <1>t, <2>1, <2>2, <2>4, <3>1, CodeAdded
  <2>8. Len(kinds) \in Nat /\ Len(tokens') = Len(tokens) + Len(kinds)
    BY <2>1, <2>6 DEF Added
  <2>9. /\ \A j \in noted : Len(tokens) + j \in new
        /\ \A i \in new : i - Len(tokens) \in noted
    <3>1. \A j \in 1..Len(kinds) : /\ Len(tokens) + j \in Len(tokens) + 1..Len(tokens')
                                   /\ (Len(tokens) + j) - Len(tokens) = j
      BY <1>t, <2>8
    <3>2. \A i \in Len(tokens) + 1..Len(tokens') : i - Len(tokens) \in 1..Len(kinds)
      BY <1>t, <2>8
    <3> QED BY <3>1, <3>2
  <2>10. CodeFrom(l) \subseteq 1..Len(tokens) /\ new \subseteq Len(tokens) + 1..Len(tokens')
         /\ noted \subseteq 1..Len(kinds)
    BY DEF CodeFrom
  <2>11. /\ noted = {} => UNCHANGED <<lineHasSignificant, lastSignificant>>
         /\ noted # {} => /\ lineHasSignificant' = TRUE
                          /\ \E last \in noted : /\ \A i \in noted : i <= last
                                                 /\ lastSignificant' = Len(tokens) + last
    BY <2>1 DEF NoteEmitted
  <2> HIDE DEF new, noted
  <2>12. Known(l)'
    <3>1. CASE noted = {}
      <4>1. CodeFrom(l)' = CodeFrom(l)
        BY <2>7, <2>9, <3>1
      <4> QED BY <2>3, <2>11, <3>1, <4>1
    <3>2. CASE noted # {}
      <4>1. PICK last \in noted : (\A i \in noted : i <= last) /\ lastSignificant' = Len(tokens) + last
        BY <2>11, <3>2
      <4>2. lastSignificant' \in CodeFrom(l)'
        BY <2>7, <2>9, <4>1
      <4>3. \A i \in CodeFrom(l)' : i <= lastSignificant'
        <5> SUFFICES ASSUME NEW i \in CodeFrom(l)' PROVE i <= Len(tokens) + last
          BY <4>1
        <5>1. last \in Nat /\ last >= 1
          BY <2>8, <2>10
        <5>2. CASE i \in CodeFrom(l)
          <6>1. i \in 1..Len(tokens)
            BY <2>10, <5>2
          <6> QED BY <1>t, <5>1, <6>1
        <5>3. CASE i \in new
          <6>1. i - Len(tokens) <= last /\ i \in Len(tokens) + 1..Len(tokens')
            BY <2>9, <2>10, <4>1, <5>3
          <6> QED BY <1>t, <2>8, <5>1, <6>1
        <5> QED BY <2>7, <5>2, <5>3
      <4> QED BY <2>11, <3>2, <4>2, <4>3
    <3> QED BY <3>1, <3>2
  <2> QED BY <1>g, <2>5, <2>12
<1>6. ~EndStep
  BY <1>f DEF EndStep
<1> QED BY <1>1, <1>2, <1>3, <1>4, <1>5, <1>6, <1>f, Steps
-----------------------------------------------------------------------------
(* What ends a line.                                                       *)

\* The significant tokens of l's line, which ends at e, end a statement.
EndsStatement(l, e) ==
  \E i \in CodeIn(l, e) : /\ \A j \in CodeIn(l, e) : j <= i
                          /\ tokens[i].kind \in Terminating

\* A line end at e calls for a token of this kind, "SEMI" or "NEWLINE".
Wanted(kind, e) ==
  IF kind = "SEMI"
  THEN \E l : Line(l, e) /\ EndsStatement(l, e)
  ELSE \/ cfg.emitNewlines /\ e <= Len(src) /\ src[e] = "nl"
       \/ /\ cfg.offside
          /\ cfg.emitNewlines => e > Len(src)
          /\ \E l : Line(l, e) /\ CodeIn(l, e) # {}

\* The tokens of this kind that stand at line ends: all but the NEWLINEs that
\* a template literal emits.
AtLineEnds(kind) ==
  {i \in 1..Len(tokens) : /\ tokens[i].kind = kind
                          /\ tokens[i].at > Len(src) \/ src[tokens[i].at] = "nl"}

Asked(kind) == IF kind = "SEMI" THEN cfg.autoSemi ELSE cfg.offside \/ cfg.emitNewlines
LineKinds == {"SEMI", "NEWLINE"}

Settled == phase # "failed" /\ (phase = "done" => AtEnd(pos))
\* The line ends before this one are done with.
Bound == IF phase = "done" THEN pos + 1 ELSE pos

\* Before Bound, tokens of this kind stand where they are wanted, one each.
EndersPlaced(kind) ==
  Settled /\ Asked(kind) =>
    /\ {tokens[i].at : i \in AtLineEnds(kind)} = {e \in 1..Bound - 1 : Wanted(kind, e)}
    /\ \A i, j \in AtLineEnds(kind) : tokens[i].at = tokens[j].at => i = j

\* A push at p leaves what is wanted up to p alone.
LEMMA WantedStays ==
  ASSUME TypeOK, src' = src, cfg' = cfg, NEW kinds, NEW p \in Nat, Added(kinds, p),
         NEW e \in Nat, e <= p, NEW kind
  PROVE  Wanted(kind, e)' <=> Wanted(kind, e)
<1>1. \A l : Line(l, e)' <=> Line(l, e)
  BY LinesStay
<1>2. ASSUME NEW l, Line(l, e)
      PROVE  /\ CodeIn(l, e)' = CodeIn(l, e)
             /\ EndsStatement(l, e)' <=> EndsStatement(l, e)
  <2>1. l \in Nat
    BY <1>2, StartsTyped DEF Line, LineAt
  <2>2. CodeIn(l, e)' = CodeIn(l, e) /\ \A i \in CodeIn(l, e) : tokens'[i] = tokens[i]
    BY <2>1, CodeStays
  <2>3. EndsStatement(l, e)' <=> EndsStatement(l, e)
    BY <2>2 DEF EndsStatement
  <2> QED BY <2>2, <2>3
<1>3. (\E l : Line(l, e) /\ EndsStatement(l, e))' <=> \E l : Line(l, e) /\ EndsStatement(l, e)
  BY <1>1, <1>2
<1>4. (\E l : Line(l, e) /\ CodeIn(l, e) # {})' <=> \E l : Line(l, e) /\ CodeIn(l, e) # {}
  BY <1>1, <1>2
<1> QED BY <1>3, <1>4 DEF Wanted

\* Nothing is wanted inside a line.
LEMMA WantedAtEnds ==
  ASSUME TypeOK, NEW e \in 1..Len(src), NEW kind, Wanted(kind, e)
  PROVE  src[e] = "nl"
<1>1. CASE kind = "SEMI"
  BY <1>1 DEF Wanted, Line, AtEnd, TypeOK
<1>2. CASE kind # "SEMI"
  BY <1>2 DEF Wanted, Line, AtEnd, TypeOK
<1> QED BY <1>1, <1>2

(* Steps that reach no line end keep the tokens at line ends in place.     *)
LEMMA EndersStay ==
  ASSUME TypeOK, NEW kind, EndersPlaced(kind), Asked(kind),
         src' = src, cfg' = cfg, Live, phase' \notin {"done", "failed"},
         NEW kinds, NEW p \in Nat, Added(kinds, p), pos <= p, p <= Len(src) + 1,
         NEW end \in Nat, pos' = end, pos <= end, end <= Len(src) + 1,
         \A i \in pos..end - 1 : src[i] # "nl",
         \A j \in 1..Len(kinds) : kinds[j] = kind => p <= Len(src) /\ src[p] # "nl"
  PROVE  EndersPlaced(kind)'
<1>t. pos \in Nat /\ pos \in 1..Len(src) + 1 /\ Len(src) \in Nat /\ Len(tokens) \in Nat
  BY DEF TypeOK
<1>1. AtLineEnds(kind)' = AtLineEnds(kind) /\ \A i \in AtLineEnds(kind) : tokens'[i] = tokens[i]
  <2>1. ASSUME NEW i \in AtLineEnds(kind)' PROVE i \in AtLineEnds(kind)
    <3>1. /\ i \in 1..Len(tokens') /\ tokens'[i].kind = kind
          /\ tokens'[i].at > Len(src) \/ src[tokens'[i].at] = "nl"
      BY <2>1 DEF AtLineEnds
    <3>2. CASE i \in 1..Len(tokens) /\ tokens'[i] = tokens[i]
      BY <3>1, <3>2 DEF AtLineEnds
    <3>3. CASE /\ i - Len(tokens) \in 1..Len(kinds)
               /\ tokens'[i].kind = kinds[i - Len(tokens)] /\ tokens'[i].at = p
      <4>1. p <= Len(src) /\ src[p] # "nl"
        BY <3>1, <3>3
      <4> QED BY <1>t, <3>1, <3>3, <4>1
    <3> QED BY <3>1, <3>2, <3>3, OldOrNew
  <2>2. ASSUME NEW i \in AtLineEnds(kind) PROVE i \in AtLineEnds(kind)' /\ tokens'[i] = tokens[i]
    BY <2>2, OldOrNew DEF AtLineEnds
  <2> QED BY <2>1, <2>2
<1>2. /\ {tokens[i].at : i \in AtLineEnds(kind)} = {e \in 1..pos - 1 : Wanted(kind, e)}
      /\ \A i, j \in AtLineEnds(kind) : tokens[i].at = tokens[j].at => i = j
  BY DEF EndersPlaced, Settled, Bound, Live
<1>3. {e \in 1..end - 1 : Wanted(kind, e)'} = {e \in 1..pos - 1 : Wanted(kind, e)}
  <2>1. \A e \in 1..pos - 1 : e \in 1..end - 1 /\ (Wanted(kind, e)' <=> Wanted(kind, e))
    <3> SUFFICES ASSUME NEW e \in 1..pos - 1
                 PROVE  e \in 1..end - 1 /\ (Wanted(kind, e)' <=> Wanted(kind, e))
      OBVIOUS
    <3>1. e \in Nat /\ e <= p /\ e \in 1..end - 1
      BY <1>t
    <3> QED BY <3>1, WantedStays
  <2>2. \A e \in 1..end - 1 : e \in 1..pos - 1 \/ ~Wanted(kind, e)'
    <3> SUFFICES ASSUME NEW e \in 1..end - 1, e \notin 1..pos - 1, Wanted(kind, e)' PROVE FALSE
      OBVIOUS
    <3>1. e \in pos..end - 1 /\ e \in 1..Len(src)
      BY <1>t
    <3>2. (\E l : Line(l, e))' \/ src[e] = "nl"
      BY Zenon DEF Wanted
    <3>3. (\E l : Line(l, e))' => AtEnd(e) \/ src[e] = "nl"
      BY LinesStay DEF Line
    <3>4. ~AtEnd(e)
      BY <1>t, <3>1 DEF AtEnd
    <3> QED BY <3>1, <3>2, <3>3, <3>4
  <2> QED BY <2>1, <2>2
<1>4. {tokens'[i].at : i \in AtLineEnds(kind)'} = {tokens[i].at : i \in AtLineEnds(kind)}
  BY <1>1
<1>5. \A i, j \in AtLineEnds(kind)' : tokens'[i].at = tokens'[j].at => i = j
  BY <1>1, <1>2
<1>6. Bound' = end
  BY DEF Bound
<1>7. {e \in 1..Bound' - 1 : Wanted(kind, e)'} = {e \in 1..end - 1 : Wanted(kind, e)'}
  BY <1>6
<1> QED BY <1>2, <1>3, <1>4, <1>5, <1>7 DEF EndersPlaced

\* What the line under lex.pos, ending at p, calls for.
Due(kind, p) ==
  IF kind = "SEMI"
  THEN lineHasSignificant /\ tokens[lastSignificant].kind \in Terminating
  ELSE \/ cfg.emitNewlines /\ p <= Len(src)
       \/ cfg.offside /\ lineHasSignificant /\ (cfg.emitNewlines => p > Len(src))

\* When the line under lex.pos ends at p, what it calls for is what is due.
LEMMA WantedIsDue ==
  ASSUME TypeOK, Live, NewlineAware, Placed, LineKnown,
         NEW p \in 1..Len(src) + 1, pos <= p, AtEnd(p) \/ src[p] = "nl",
         \A i \in pos..p - 1 : src[i] # "nl", NEW kind \in LineKinds
  PROVE  Wanted(kind, p) <=> Due(kind, p)
<1>t. pos \in Nat /\ p \in Nat /\ Len(src) \in Nat
  BY DEF TypeOK
<1>1. PICK l : /\ LineAt(l, pos)
               /\ lineHasSignificant <=> CodeFrom(l) # {}
               /\ lineHasSignificant => /\ lastSignificant \in CodeFrom(l)
                                        /\ \A i \in CodeFrom(l) : i <= lastSignificant
  BY DEF LineKnown
<1>2. Line(l, p)
  <2>1. LineAt(l, p)
    BY <1>1, <1>t, LineGoesOn
  <2> QED BY <2>1 DEF Line
<1>3. \A m : Line(m, p) => m = l
  BY <1>2, <1>t, LineUnique DEF Line
<1>4. CodeIn(l, p) = CodeFrom(l)
  <2>l. l \in Nat
    BY <1>1, StartsTyped DEF LineAt
  <2>1. \A i \in 1..Len(tokens) : IsCode(i) => tokens[i].at \in 1..pos /\ tokens[i].at < pos
    BY DEF Placed, IsCode, Significant
  <2>2. \A i \in 1..Len(tokens) : IsCode(i) => (tokens[i].at \in l..p - 1 <=> tokens[i].at >= l)
    <3> TAKE i \in 1..Len(tokens)
    <3> HAVE IsCode(i)
    <3>1. tokens[i].at \in Nat /\ tokens[i].at < pos
      BY <1>t, <2>1
    <3> QED BY <1>t, <2>l, <3>1
  <2> QED BY <2>2 DEF CodeIn, CodeFrom
<1>5. EndsStatement(l, p) <=> lineHasSignificant /\ tokens[lastSignificant].kind \in Terminating
  <2>1. ASSUME EndsStatement(l, p)
        PROVE  lineHasSignificant /\ tokens[lastSignificant].kind \in Terminating
    <3>1. PICK i \in CodeFrom(l) : (\A j \in CodeFrom(l) : j <= i) /\ tokens[i].kind \in Terminating
      BY <1>4, <2>1 DEF EndsStatement
    <3>2. lineHasSignificant /\ lastSignificant \in CodeFrom(l)
      BY <1>1, <3>1
    <3>3. i <= lastSignificant /\ lastSignificant <= i /\ i \in Nat /\ lastSignificant \in Nat
      BY <1>1, <3>1, <3>2 DEF CodeFrom
    <3>4. i = lastSignificant
      BY <3>3
    <3> QED BY <3>1, <3>2, <3>4
  <2>2. ASSUME lineHasSignificant, tokens[lastSignificant].kind \in Terminating
        PROVE  EndsStatement(l, p)
    BY <1>1, <1>4, <2>2 DEF EndsStatement
  <2> QED BY <2>1, <2>2
<1>6. CASE kind = "SEMI"
  BY <1>2, <1>3, <1>5, <1>6 DEF Wanted, Due
<1>7. CASE kind = "NEWLINE"
  <2>1. (\E m : Line(m, p) /\ CodeIn(m, p) # {}) <=> lineHasSignificant
    BY <1>1, <1>2, <1>3, <1>4
  <2>2. p <= Len(src) => src[p] = "nl"
    BY <1>t DEF AtEnd
  <2> QED BY <1>7, <2>1, <2>2 DEF Wanted, Due
<1> QED BY <1>6, <1>7 DEF LineKinds

\* Kinds that close a line: a kind occurs once if it is due, and else not.
Closes(kinds, kind, p) ==
  /\ \A i, j \in 1..Len(kinds) : kinds[i] = kind /\ kinds[j] = kind => i = j
  /\ (\E i \in 1..Len(kinds) : kinds[i] = kind) <=> Due(kind, p)

(* Closing the line under lex.pos puts what is due at its end.             *)
LEMMA EndersGrow ==
  ASSUME TypeOK, NEW kind \in LineKinds, EndersPlaced(kind), Asked(kind), Placed, LineKnown,
         src' = src, cfg' = cfg, Live, NewlineAware, phase' # "failed",
         NEW p \in 1..Len(src) + 1, pos <= p, AtEnd(p) \/ src[p] = "nl",
         \A i \in pos..p - 1 : src[i] # "nl",
         NEW kinds, Added(kinds, p), Closes(kinds, kind, p), Bound' = p + 1
  PROVE  EndersPlaced(kind)'
<1>t. /\ pos \in Nat /\ pos \in 1..Len(src) + 1 /\ Len(src) \in Nat /\ Len(tokens) \in Nat
      /\ p \in Nat /\ Len(kinds) \in Nat
  BY OldOrNew DEF TypeOK
<1>2. /\ {tokens[i].at : i \in AtLineEnds(kind)} = {e \in 1..pos - 1 : Wanted(kind, e)}
      /\ \A i, j \in AtLineEnds(kind) : tokens[i].at = tokens[j].at => i = j
  BY DEF EndersPlaced, Settled, Bound, Live
<1> DEFINE new == {i \in Len(tokens) + 1..Len(tokens') : kinds[i - Len(tokens)] = kind}
<1>3. AtLineEnds(kind)' = AtLineEnds(kind) \cup new
  <2>1. ASSUME NEW i \in AtLineEnds(kind)' PROVE i \in AtLineEnds(kind) \cup new
    <3>1. /\ i \in 1..Len(tokens') /\ tokens'[i].kind = kind
          /\ tokens'[i].at > Len(src) \/ src[tokens'[i].at] = "nl"
      BY <2>1 DEF AtLineEnds
    <3>2. CASE i \in 1..Len(tokens) /\ tokens'[i] = tokens[i]
      BY <3>1, <3>2 DEF AtLineEnds
    <3>3. CASE i \in Len(tokens) + 1..Len(tokens') /\ tokens'[i].kind = kinds[i - Len(tokens)]
      BY <3>1, <3>3
    <3> QED BY <3>1, <3>2, <3>3, OldOrNew
  <2>2. ASSUME NEW i \in AtLineEnds(kind) PROVE i \in AtLineEnds(kind)'
    BY <2>2, OldOrNew DEF AtLineEnds
  <2>3. ASSUME NEW i \in new PROVE i \in AtLineEnds(kind)'
    <3>1. i \in 1..Len(tokens') /\ tokens'[i].kind = kind /\ tokens'[i].at = p
      BY <1>t, <2>3 DEF Added
    <3>2. p > Len(src) \/ src[p] = "nl"
      BY <1>t DEF AtEnd
    <3> QED BY <3>1, <3>2 DEF AtLineEnds
  <2> HIDE DEF new
  <2> QED BY <2>1, <2>2, <2>3
<1>4. \A i \in AtLineEnds(kind) : tokens'[i] = tokens[i] /\ tokens[i].at \in Nat /\ tokens[i].at < p
  <2> TAKE i \in AtLineEnds(kind)
  <2>1. i \in 1..Len(tokens) /\ tokens[i].kind = kind
    BY DEF AtLineEnds
  <2>2. tokens[i].at \in 1..pos /\ tokens[i].at < pos
    BY <2>1 DEF Placed, LineKinds
  <2> QED BY <1>t, <2>1, <2>2 DEF Added
<1>5. /\ \A i \in new : tokens'[i].at = p
      /\ \A i, j \in new : i = j
      /\ new # {} <=> Due(kind, p)
  <2>1. \A i \in new : tokens'[i].at = p /\ i - Len(tokens) \in 1..Len(kinds)
                       /\ kinds[i - Len(tokens)] = kind /\ i \in Nat
    BY <1>t DEF Added
  <2>2. \A j \in 1..Len(kinds) : kinds[j] = kind => Len(tokens) + j \in new
    <3> SUFFICES ASSUME NEW j \in 1..Len(kinds), kinds[j] = kind PROVE Len(tokens) + j \in new
      OBVIOUS
    <3>1. Len(tokens) + j \in Len(tokens) + 1..Len(tokens') /\ (Len(tokens) + j) - Len(tokens) = j
      BY <1>t DEF Added
    <3> QED BY <3>1
  <2> HIDE DEF new
  <2>3. \A i, j \in new : i = j
    <3> TAKE i, j \in new
    <3>1. i - Len(tokens) = j - Len(tokens)
      BY <2>1 DEF Closes
    <3> QED BY <1>t, <2>1, <3>1
  <2>4. new # {} <=> Due(kind, p)
    BY <2>1, <2>2 DEF Closes
  <2> QED BY <2>1, <2>3, <2>4
<1> HIDE DEF new
<1>6. {tokens'[i].at : i \in AtLineEnds(kind)'}
        = {tokens[i].at : i \in AtLineEnds(kind)} \cup {q \in {p} : Due(kind, p)}
  BY <1>3, <1>4, <1>5
<1>7. {e \in 1..p : Wanted(kind, e)'} = {e \in 1..pos - 1 : Wanted(kind, e)} \cup {q \in {p} : Due(kind, p)}
  <2>1. \A e \in 1..p : Wanted(kind, e)' <=> Wanted(kind, e)
    <3> SUFFICES ASSUME NEW e \in 1..p PROVE Wanted(kind, e)' <=> Wanted(kind, e)
      OBVIOUS
    <3>1. e \in Nat /\ e <= p
      BY <1>t
    <3> QED BY <1>t, <3>1, WantedStays
  <2>2. \A e \in 1..p : e \in 1..pos - 1 \/ e = p \/ ~Wanted(kind, e)
    <3> SUFFICES ASSUME NEW e \in 1..p, e \notin 1..pos - 1, e # p, Wanted(kind, e) PROVE FALSE
      OBVIOUS
    <3>1. e \in pos..p - 1 /\ e \in 1..Len(src)
      BY <1>t
    <3>2. src[e] = "nl"
      BY <3>1, WantedAtEnds
    <3> QED BY <3>1, <3>2
  <2>3. p \in 1..p /\ \A e \in 1..pos - 1 : e \in 1..p
    BY <1>t
  <2>4. Wanted(kind, p) <=> Due(kind, p)
    BY WantedIsDue
  <2> QED BY <2>1, <2>2, <2>3, <2>4
<1>8. \A i, j \in AtLineEnds(kind)' : tokens'[i].at = tokens'[j].at => i = j
  <2> SUFFICES ASSUME NEW i \in AtLineEnds(kind)', NEW j \in AtLineEnds(kind)',
                      tokens'[i].at = tokens'[j].at
               PROVE  i = j
    OBVIOUS
  <2>1. CASE i \in AtLineEnds(kind) /\ j \in AtLineEnds(kind)
    BY <1>2, <1>4, <2>1
  <2>2. CASE i \in new /\ j \in new
    BY <1>5, <2>2
  <2>3. CASE i \in AtLineEnds(kind) /\ j \in new
    BY <1>4, <1>5, <1>t, <2>3
  <2>4. CASE i \in new /\ j \in AtLineEnds(kind)
    BY <1>4, <1>5, <1>t, <2>4
  <2> QED BY <1>3, <2>1, <2>2, <2>3, <2>4
<1>9. 1..Bound' - 1 = 1..p
  BY <1>t
<1> QED BY <1>2, <1>6, <1>7, <1>8, <1>9 DEF EndersPlaced
-----------------------------------------------------------------------------
(* The kinds that end a line and the stream.                               *)

\* At most one SEMI, the first, and at most one NEWLINE: there if s and n.
Ending(kinds, s, n) ==
  /\ kinds \in Seq(TokenKinds)
  /\ \A i \in 1..Len(kinds) : kinds[i] = "SEMI" => i = 1
  /\ \A i, j \in 1..Len(kinds) : kinds[i] = "NEWLINE" /\ kinds[j] = "NEWLINE" => i = j
  /\ (\E i \in 1..Len(kinds) : kinds[i] = "SEMI") <=> s
  /\ (\E i \in 1..Len(kinds) : kinds[i] = "NEWLINE") <=> n

LEMMA EndingPair ==
  ASSUME NEW s \in BOOLEAN, NEW n \in BOOLEAN
  PROVE  Ending((IF s THEN <<"SEMI">> ELSE <<>>) \o (IF n THEN <<"NEWLINE">> ELSE <<>>), s, n)
<1>1. {"SEMI", "NEWLINE"} \subseteq TokenKinds
  BY DEF TokenKinds, ScanKinds
<1>2. CASE s /\ n
  <2> DEFINE kinds == <<"SEMI">> \o <<"NEWLINE">>
  <2>1. Len(kinds) = 2 /\ kinds[1] = "SEMI" /\ kinds[2] = "NEWLINE" /\ kinds \in Seq(TokenKinds)
    BY <1>1
  <2> HIDE DEF kinds
  <2>2. Ending(kinds, s, n)
    BY <1>2, <2>1 DEF Ending
  <2> QED BY <1>2, <2>2 DEF kinds
<1>3. CASE s /\ ~n
  <2> DEFINE kinds == <<"SEMI">> \o <<>>
  <2>1. Len(kinds) = 1 /\ kinds[1] = "SEMI" /\ kinds \in Seq(TokenKinds)
    BY <1>1
  <2> HIDE DEF kinds
  <2>2. Ending(kinds, s, n)
    BY <1>3, <2>1 DEF Ending
  <2> QED BY <1>3, <2>2 DEF kinds
<1>4. CASE ~s /\ n
  <2> DEFINE kinds == <<>> \o <<"NEWLINE">>
  <2>1. Len(kinds) = 1 /\ kinds[1] = "NEWLINE" /\ kinds \in Seq(TokenKinds)
    BY <1>1
  <2> HIDE DEF kinds
  <2>2. Ending(kinds, s, n)
    BY <1>4, <2>1 DEF Ending
  <2> QED BY <1>4, <2>2 DEF kinds
<1>5. CASE ~s /\ ~n
  <2> DEFINE kinds == <<>> \o <<>>
  <2>1. Len(kinds) = 0 /\ kinds \in Seq(TokenKinds)
    OBVIOUS
  <2> HIDE DEF kinds
  <2>2. Ending(kinds, s, n)
    BY <1>5, <2>1 DEF Ending
  <2> QED BY <1>5, <2>2 DEF kinds
<1> QED BY <1>2, <1>3, <1>4, <1>5

\* More tokens that are neither change nothing.
LEMMA EndingMore ==
  ASSUME NEW kinds, NEW s \in BOOLEAN, NEW n \in BOOLEAN, Ending(kinds, s, n),
         NEW more \in Seq(TokenKinds), \A i \in 1..Len(more) : more[i] \notin LineKinds
  PROVE  Ending(kinds \o more, s, n)
<1> DEFINE all == kinds \o more
<1>1. kinds \in Seq(TokenKinds) /\ Len(kinds) \in Nat /\ Len(more) \in Nat
  BY DEF Ending
<1>2. /\ Len(all) = Len(kinds) + Len(more)
      /\ \A i \in 1..Len(kinds) : all[i] = kinds[i]
      /\ \A i \in Len(kinds) + 1..Len(kinds) + Len(more) : all[i] = more[i - Len(kinds)]
  BY ONLY <1>1, more \in Seq(TokenKinds), Concatenation, Zenon
<1>3. all \in Seq(TokenKinds)
  BY <1>1, ConcatKinds
<1> HIDE DEF all
<1>4. \A i \in 1..Len(all) : all[i] \in LineKinds => i \in 1..Len(kinds) /\ all[i] = kinds[i]
  <2> SUFFICES ASSUME NEW i \in 1..Len(all), all[i] \in LineKinds
               PROVE  i \in 1..Len(kinds) /\ all[i] = kinds[i]
    OBVIOUS
  <2>1. CASE i \in 1..Len(kinds)
    BY <1>2, <2>1
  <2>2. CASE i \in Len(kinds) + 1..Len(kinds) + Len(more)
    <3>1. i - Len(kinds) \in 1..Len(more)
      BY <1>1, <2>2
    <3> QED BY <1>2, <2>2, <3>1
  <2> QED BY <1>1, <1>2, <2>1, <2>2
<1>5. \A i \in 1..Len(kinds) : i \in 1..Len(all) /\ all[i] = kinds[i]
  BY <1>1, <1>2
<1>6. "SEMI" \in LineKinds /\ "NEWLINE" \in LineKinds
  BY DEF LineKinds
<1>7. /\ \A i \in 1..Len(all) : all[i] = "SEMI" => i = 1
      /\ \A i, j \in 1..Len(all) : all[i] = "NEWLINE" /\ all[j] = "NEWLINE" => i = j
  BY <1>4, <1>6 DEF Ending
<1>8. /\ (\E i \in 1..Len(all) : all[i] = "SEMI") <=> s
      /\ (\E i \in 1..Len(all) : all[i] = "NEWLINE") <=> n
  BY <1>4, <1>5, <1>6 DEF Ending
<1> QED BY <1>3, <1>7, <1>8 DEF Ending, all

LEMMA LineEnding ==
  ASSUME TypeOK, cfg.autoSemi \/ cfg.offside \/ cfg.emitNewlines,
         NEW p \in 1..Len(src)
  PROVE  /\ Ending(SemicolonDue \o NewlineDue, cfg.autoSemi /\ Due("SEMI", p), Due("NEWLINE", p))
<1> DEFINE s == cfg.autoSemi /\ Due("SEMI", p)
           n == Due("NEWLINE", p)
<1>1. s \in BOOLEAN /\ n \in BOOLEAN
  BY DEF Due
<1>2. SemicolonDue = IF s THEN <<"SEMI">> ELSE <<>>
  BY DEF SemicolonDue, Due
<1>3. p <= Len(src) /\ ~(p > Len(src))
  BY DEF TypeOK
<1>4. NewlineDue = IF n THEN <<"NEWLINE">> ELSE <<>>
  BY <1>3 DEF NewlineDue, Due
<1> HIDE DEF s, n
<1>5. Ending(SemicolonDue \o NewlineDue, s, n)
  BY <1>1, <1>2, <1>4, EndingPair
<1> QED BY <1>5 DEF s, n

LEMMA StreamEnding ==
  ASSUME TypeOK, NewlineAware, AtEnd(pos)
  PROVE  Ending((IF NewlineAware THEN EofLayout ELSE <<>>) \o <<"EOF">>,
                cfg.autoSemi /\ Due("SEMI", pos), Due("NEWLINE", pos))
<1> DEFINE s == cfg.autoSemi /\ Due("SEMI", pos)
           n == Due("NEWLINE", pos)
           newline == IF cfg.offside /\ lineHasSignificant THEN <<"NEWLINE">> ELSE <<>>
           drain == IF cfg.offside THEN Dedents(Level - 1) ELSE <<>>
           eof == <<"EOF">>
<1>1. s \in BOOLEAN /\ n \in BOOLEAN
  BY DEF Due
<1>2. SemicolonDue = IF s THEN <<"SEMI">> ELSE <<>>
  BY DEF SemicolonDue, Due
<1>3. pos > Len(src) /\ ~(pos <= Len(src))
  BY DEF TypeOK, AtEnd
<1>4. newline = IF n THEN <<"NEWLINE">> ELSE <<>>
  BY <1>3 DEF Due
<1>5. Level - 1 \in Nat
  BY ConstantsOK DEF TypeOK, Level
<1>6. drain \in Seq(TokenKinds) /\ \A i \in 1..Len(drain) : drain[i] \notin LineKinds
  <2>1. CASE cfg.offside
    BY <1>5, <2>1, DedentsType DEF LineKinds
  <2>2. CASE ~cfg.offside
    BY <2>2, KindsSeq
  <2> QED BY <2>1, <2>2
<1>7. eof \in Seq(TokenKinds) /\ \A i \in 1..Len(eof) : eof[i] \notin LineKinds
  BY KindsSeq DEF TokenKinds, LineKinds
<1>8. EofLayout = (SemicolonDue \o newline) \o drain
  BY DEF EofLayout
<1> HIDE DEF s, n, newline, drain, eof
<1>9. Ending(SemicolonDue \o newline, s, n)
  BY <1>1, <1>2, <1>4, EndingPair
<1>10. Ending((SemicolonDue \o newline) \o drain, s, n)
  BY <1>1, <1>6, <1>9, EndingMore
<1>11. Ending(EofLayout \o eof, s, n)
  BY <1>1, <1>7, <1>8, <1>10, EndingMore
<1> QED BY <1>11 DEF s, n, eof

\* Such kinds close a line for each kind that is asked for.
LEMMA EndingCloses ==
  ASSUME NEW kinds, NEW p, NEW kind \in LineKinds, Asked(kind),
         Ending(kinds, cfg.autoSemi /\ Due("SEMI", p), Due("NEWLINE", p))
  PROVE  Closes(kinds, kind, p)
BY DEF Ending, Closes, LineKinds, Asked

\* Every step keeps the tokens at line ends where they are wanted.
LEMMA EndersStep ==
  ASSUME TypeOK, Placed, LineKnown, NEW kind \in LineKinds, EndersPlaced(kind), [Next]_vars
  PROVE  EndersPlaced(kind)'
<1>s. src' = src /\ cfg' = cfg
  BY CallFixed
<1> SUFFICES ASSUME phase' # "failed", phase' = "done" => AtEnd(pos'), Asked(kind)
             PROVE  EndersPlaced(kind)'
  BY <1>s DEF EndersPlaced, Settled, Asked, AtEnd
<1>t. pos \in Nat /\ pos \in 1..Len(src) + 1 /\ Len(src) \in Nat /\ Len(tokens) \in Nat
  BY DEF TypeOK
<1>a. NewlineAware /\ Skipped = Blanks /\ "nl" \notin Blanks
  BY DEF Asked, NewlineAware, Skipped, Blanks, Units
<1>1. CASE UNCHANGED vars
  <2>1. \A l, e : Line(l, e)' <=> Line(l, e)
    BY <1>s, LinesStay
  <2>2. tokens' = tokens /\ phase' = phase /\ pos' = pos
    BY <1>1 DEF vars
  <2>3. /\ AtLineEnds(kind)' = AtLineEnds(kind) /\ Bound' = Bound /\ (Settled' <=> Settled)
        /\ \A l, e : CodeIn(l, e)' = CodeIn(l, e)
    BY <1>s, <2>2 DEF AtLineEnds, Bound, Settled, AtEnd, CodeIn, IsCode
  <2>4. \A l, e : EndsStatement(l, e)' <=> EndsStatement(l, e)
    BY <2>2, <2>3 DEF EndsStatement
  <2>5. \A e : Wanted(kind, e)' <=> Wanted(kind, e)
    BY <1>s, <2>1, <2>3, <2>4 DEF Wanted
  <2> QED BY <1>s, <2>2, <2>3, <2>5 DEF EndersPlaced
<1>2. CASE QuietStep
  <2> DEFINE none == <<>>
  <2>1. /\ Live /\ phase' \notin {"done", "failed"} /\ tokens' = tokens
        /\ pos' \in pos..Len(src) + 1 /\ \A i \in pos..pos' - 1 : src[i] \in Skipped
    BY <1>2 DEF QuietStep
  <2>2. PICK end \in Nat : end = pos'
    BY <1>t, <2>1
  <2>3. pos' = end /\ pos <= end /\ end <= Len(src) + 1 /\ pos <= pos /\ pos <= Len(src) + 1
    BY <1>t, <2>1, <2>2
  <2>4. \A i \in pos..end - 1 : src[i] # "nl"
    BY <1>a, <2>1, <2>2
  <2>5. Added(none, pos) /\ Len(none) = 0
    BY <1>t, <2>1, KindsSeq DEF Added
  <2>6. \A j \in 1..Len(none) : none[j] = kind => pos <= Len(src) /\ src[pos] # "nl"
    BY <2>5
  <2> HIDE DEF none
  <2> QED BY <1>s, <1>t, <2>1, <2>3, <2>4, <2>5, <2>6, EndersStay
<1>3. CASE LayoutStep
  <2>1. PICK kinds : Added(kinds, pos) /\ \A j \in 1..Len(kinds) : kinds[j] \in {"INDENT", "DEDENT"}
    BY <1>3 DEF LayoutStep
  <2>2. Live /\ phase' \notin {"done", "failed"} /\ pos' = pos /\ pos <= pos /\ pos <= Len(src) + 1
    BY <1>3, <1>t DEF LayoutStep
  <2>3. \A i \in pos..pos - 1 : src[i] # "nl"
    BY <1>t
  <2>4. \A j \in 1..Len(kinds) : kinds[j] # kind
    BY <2>1 DEF LineKinds
  <2> QED BY <1>s, <1>t, <2>1, <2>2, <2>3, <2>4, EndersStay
<1>4. CASE LineStep
  <2>1. PICK p \in pos..Len(src) :
           /\ \A i \in pos..p - 1 : src[i] \in Blanks
           /\ src[p] = "nl" /\ pos' = p + 1
           /\ Added(SemicolonDue \o NewlineDue, p)
    BY <1>4 DEF LineStep
  <2>2. Live /\ phase' \notin {"done", "failed"} /\ p \in 1..Len(src) + 1 /\ p \in 1..Len(src) /\ pos <= p
    BY <1>4, <1>t DEF LineStep
  <2>3. \A i \in pos..p - 1 : src[i] # "nl"
    BY <1>a, <2>1
  <2>4. Bound' = p + 1
    BY <2>1, <2>2 DEF Bound
  <2>5. cfg.autoSemi \/ cfg.offside \/ cfg.emitNewlines
    BY <1>a DEF NewlineAware
  <2> DEFINE kinds == SemicolonDue \o NewlineDue
  <2>6. Closes(kinds, kind, p)
    <3>1. Ending(kinds, cfg.autoSemi /\ Due("SEMI", p), Due("NEWLINE", p))
      BY <2>2, <2>5, LineEnding
    <3> HIDE DEF kinds
    <3> QED BY <3>1, EndingCloses
  <2>7. Added(kinds, p)
    BY <2>1
  <2> HIDE DEF kinds
  <2> QED BY <1>s, <1>a, <2>1, <2>2, <2>3, <2>4, <2>6, <2>7, EndersGrow
<1>5. CASE ScanStep
  <2>p. PICK p \in pos..Len(src) :
           /\ \A i \in pos..p - 1 : src[i] \in Skipped
           /\ src[p] \notin Blanks \cup {"nl"}
           /\ pos' \in p + 1..Len(src) + 1
           /\ src[p] = "lc" => \A i \in p..pos' - 1 : src[i] # "nl"
           /\ src[p] # "lc" => pos' = p + 1
           /\ \E kinds \in ScanEmits(src[p]) : Added(kinds, p)
    BY <1>5 DEF ScanStep
  <2>e. PICK end \in Nat : end = pos'
    BY <1>t, <2>p
  <2>1. PICK kinds \in ScanEmits(src[p]) : Added(kinds, p)
    BY <2>p
  <2>2. /\ Live /\ phase' \notin {"done", "failed"} /\ p \in Nat /\ pos <= p /\ p <= Len(src)
        /\ p <= Len(src) + 1 /\ pos' = end /\ pos <= end /\ end <= Len(src) + 1 /\ p < end
    BY <1>5, <1>t, <2>p, <2>e DEF ScanStep
  <2>3. \A i \in pos..end - 1 : src[i] # "nl"
    <3>1. \A i \in pos..p - 1 : src[i] # "nl"
      BY <1>a, <2>p
    <3>2. \A i \in p..end - 1 : src[i] # "nl"
      <4>1. CASE src[p] = "lc"
        BY <2>p, <2>e, <4>1
      <4>2. CASE src[p] # "lc"
        <5>1. end = p + 1 /\ src[p] # "nl"
          BY <2>p, <2>e, <4>2
        <5>2. \A i \in p..end - 1 : i = p
          BY ONLY <2>2, <5>1
        <5> QED BY <5>1, <5>2
      <4> QED BY <4>1, <4>2
    <3>3. \A i \in pos..end - 1 : i \in pos..p - 1 \/ i \in p..end - 1
      BY ONLY <1>t, <2>2
    <3> QED BY <3>1, <3>2, <3>3
  <2>4. src[p] # "nl"
    BY <2>p
  <2>5. \A j \in 1..Len(kinds) : kinds[j] = kind => p <= Len(src) /\ src[p] # "nl"
    BY <2>2, <2>4
  <2> QED BY <1>s, <2>1, <2>2, <2>3, <2>5, EndersStay
<1>6. CASE EndStep
  <2> DEFINE kinds == (IF NewlineAware THEN EofLayout ELSE <<>>) \o <<"EOF">>
  <2>1. Live /\ phase' = "done" /\ pos' = pos /\ Added(kinds, pos)
    BY <1>6 DEF EndStep
  <2>2. AtEnd(pos) /\ Bound' = pos + 1
    BY <1>s, <2>1 DEF AtEnd, Bound
  <2>3. Closes(kinds, kind, pos)
    <3>1. Ending(kinds, cfg.autoSemi /\ Due("SEMI", pos), Due("NEWLINE", pos))
      BY <1>a, <2>2, StreamEnding
    <3> HIDE DEF kinds
    <3> QED BY <3>1, EndingCloses
  <2>4. pos <= pos /\ \A i \in pos..pos - 1 : src[i] # "nl"
    BY <1>t
  <2> HIDE DEF kinds
  <2> QED BY <1>s, <1>a, <1>t, <2>1, <2>2, <2>3, <2>4, EndersGrow
<1> QED BY <1>1, <1>2, <1>3, <1>4, <1>5, <1>6, Steps

\* Virtual semicolons stand at line ends, before the line's NEWLINE.
SemisFirst ==
  Settled /\ cfg.autoSemi =>
    \A i \in 1..Len(tokens) : tokens[i].kind = "SEMI" =>
      /\ tokens[i].at > Len(src) \/ src[tokens[i].at] = "nl"
      /\ \A j \in 1..Len(tokens) :
           tokens[j].kind = "NEWLINE" /\ tokens[j].at = tokens[i].at => i < j

LEMMA SemisFirstStep ==
  ASSUME TypeOK, Placed, SemisFirst, [Next]_vars
  PROVE  SemisFirst'
<1>s. src' = src /\ cfg' = cfg
  BY CallFixed
<1> SUFFICES ASSUME phase' # "failed", phase' = "done" => AtEnd(pos'), cfg.autoSemi,
                    NEW i \in 1..Len(tokens'), tokens'[i].kind = "SEMI"
             PROVE  /\ tokens'[i].at > Len(src) \/ src[tokens'[i].at] = "nl"
                    /\ \A j \in 1..Len(tokens') :
                         tokens'[j].kind = "NEWLINE" /\ tokens'[j].at = tokens'[i].at => i < j
  BY <1>s DEF SemisFirst, Settled, AtEnd
<1>t. pos \in Nat /\ pos \in 1..Len(src) + 1 /\ Len(src) \in Nat /\ Len(tokens) \in Nat
  BY DEF TypeOK
<1>a. NewlineAware
  BY DEF NewlineAware
<1>1. CASE UNCHANGED vars
  BY <1>s, <1>1 DEF vars, SemisFirst, Settled
<1>2. CASE QuietStep
  BY <1>s, <1>2 DEF QuietStep, SemisFirst, Settled, Live
\* A push keeps the order if a SEMI comes first in it, and at a line end.
<1>3. ASSUME Live, NEW kinds, NEW p \in pos..Len(src) + 1, Added(kinds, p),
             \A j \in 1..Len(kinds) : kinds[j] = "SEMI" => j = 1 /\ (AtEnd(p) \/ src[p] = "nl")
      PROVE  /\ tokens'[i].at > Len(src) \/ src[tokens'[i].at] = "nl"
             /\ \A j \in 1..Len(tokens') :
                  tokens'[j].kind = "NEWLINE" /\ tokens'[j].at = tokens'[i].at => i < j
  <2>p. p \in Nat /\ pos <= p
    BY <1>t, <1>3
  <2>o. \A j \in 1..Len(tokens) :
          tokens[j].kind \in LineKinds => tokens[j].at \in 1..pos /\ tokens[j].at < pos
    BY <1>3 DEF Placed, LineKinds
  <2>1. CASE i \in 1..Len(tokens) /\ tokens'[i] = tokens[i]
    <3>1. /\ tokens[i].at > Len(src) \/ src[tokens[i].at] = "nl"
          /\ \A j \in 1..Len(tokens) :
               tokens[j].kind = "NEWLINE" /\ tokens[j].at = tokens[i].at => i < j
      BY <1>3, <2>1 DEF SemisFirst, Settled, Live
    <3>2. \A j \in 1..Len(tokens') :
            tokens'[j].kind = "NEWLINE" /\ tokens'[j].at = tokens'[i].at => i < j
      <4> TAKE j \in 1..Len(tokens')
      <4> HAVE tokens'[j].kind = "NEWLINE" /\ tokens'[j].at = tokens'[i].at
      <4>1. CASE j \in 1..Len(tokens) /\ tokens'[j] = tokens[j]
        BY <2>1, <3>1, <4>1
      <4>2. CASE j > Len(tokens)
        BY <1>t, <2>1, <4>2
      <4> QED BY <1>3, <4>1, <4>2, OldOrNew
    <3> QED BY <2>1, <3>1, <3>2
  <2>2. CASE /\ i > Len(tokens) /\ i - Len(tokens) \in 1..Len(kinds)
             /\ tokens'[i].kind = kinds[i - Len(tokens)] /\ tokens'[i].at = p
    <3>1. i - Len(tokens) = 1 /\ (AtEnd(p) \/ src[p] = "nl")
      BY <1>3, <2>2
    <3>2. tokens'[i].at > Len(src) \/ src[tokens'[i].at] = "nl"
      BY <2>2, <3>1 DEF AtEnd
    <3>3. \A j \in 1..Len(tokens') :
            tokens'[j].kind = "NEWLINE" /\ tokens'[j].at = tokens'[i].at => i < j
      <4> TAKE j \in 1..Len(tokens')
      <4> HAVE tokens'[j].kind = "NEWLINE" /\ tokens'[j].at = tokens'[i].at
      <4>1. CASE j \in 1..Len(tokens) /\ tokens'[j] = tokens[j]
        <5>1. tokens[j].at \in 1..pos /\ tokens[j].at < pos /\ tokens[j].at = p
          BY <2>o, <2>2, <4>1 DEF LineKinds
        <5> QED BY <1>t, <2>p, <5>1
      <4>2. CASE j > Len(tokens)
        <5>1. j # i /\ j \in Nat /\ i \in Nat
          BY <1>t
        <5> QED BY <1>t, <3>1, <4>2, <5>1
      <4> QED BY <1>3, <4>1, <4>2, OldOrNew
    <3> QED BY <3>2, <3>3
  <2> QED BY <1>3, <2>1, <2>2, OldOrNew
<1>4. CASE LayoutStep
  <2>1. PICK kinds : Added(kinds, pos) /\ \A j \in 1..Len(kinds) : kinds[j] \in {"INDENT", "DEDENT"}
    BY <1>4 DEF LayoutStep
  <2>2. Live /\ pos \in pos..Len(src) + 1 /\ \A j \in 1..Len(kinds) : kinds[j] # "SEMI"
    BY <1>4, <1>t, <2>1 DEF LayoutStep
  <2> QED BY <1>3, <2>1, <2>2
<1>5. CASE LineStep
  <2>1. PICK p \in pos..Len(src) : src[p] = "nl" /\ Added(SemicolonDue \o NewlineDue, p)
    BY <1>5 DEF LineStep
  <2>2. Live /\ p \in pos..Len(src) + 1 /\ p \in 1..Len(src)
    BY <1>5, <1>t, <2>1 DEF LineStep
  <2> DEFINE kinds == SemicolonDue \o NewlineDue
  <2>3. Ending(kinds, cfg.autoSemi /\ Due("SEMI", p), Due("NEWLINE", p))
    BY <2>2, LineEnding
  <2>4. Added(kinds, p)
    BY <2>1
  <2> HIDE DEF kinds
  <2>5. \A j \in 1..Len(kinds) : kinds[j] = "SEMI" => j = 1
    BY <2>3 DEF Ending
  <2> QED BY <1>3, <2>1, <2>2, <2>4, <2>5
<1>6. CASE ScanStep
  <2>1. PICK p \in pos..Len(src) : \E kinds \in ScanEmits(src[p]) : Added(kinds, p)
    BY <1>6 DEF ScanStep
  <2>2. PICK kinds \in ScanEmits(src[p]) : Added(kinds, p)
    BY <2>1
  <2>3. \A j \in 1..Len(kinds) : kinds[j] # "SEMI"
    <3>1. kinds \in Seq(ScanKinds) /\ "SEMI" \notin ScanKinds
      BY ScanEmitsType DEF ScanKinds
    <3> QED BY <3>1
  <2>4. Live /\ p \in pos..Len(src) + 1
    BY <1>6, <1>t DEF ScanStep
  <2> QED BY <1>3, <2>2, <2>3, <2>4
<1>7. CASE EndStep
  <2> DEFINE kinds == (IF NewlineAware THEN EofLayout ELSE <<>>) \o <<"EOF">>
  <2>1. Live /\ phase' = "done" /\ pos' = pos /\ Added(kinds, pos)
    BY <1>7 DEF EndStep
  <2>2. AtEnd(pos) /\ pos \in pos..Len(src) + 1
    BY <1>s, <1>t, <2>1 DEF AtEnd
  <2>3. Ending(kinds, cfg.autoSemi /\ Due("SEMI", pos), Due("NEWLINE", pos))
    BY <1>a, <2>2, StreamEnding
  <2> HIDE DEF kinds
  <2>4. \A j \in 1..Len(kinds) : kinds[j] = "SEMI" => j = 1
    BY <2>3 DEF Ending
  <2> QED BY <1>3, <2>1, <2>2, <2>4
<1> QED BY <1>1, <1>2, <1>4, <1>5, <1>6, <1>7, Steps

LineInv ==
  /\ Placed /\ LineKnown
  /\ EndersPlaced("SEMI") /\ EndersPlaced("NEWLINE")
  /\ SemisFirst

LEMMA LinesCorrect == Spec => []LineInv
<1>1. Init => LineInv
  <2> SUFFICES ASSUME Init PROVE LineInv
    OBVIOUS
  <2>1. tokens = <<>> /\ Len(tokens) = 0 /\ pos = 1 /\ phase = "top" /\ lineHasSignificant = FALSE
    BY DEF Init
  <2>2. Placed /\ SemisFirst
    BY <2>1 DEF Placed, SemisFirst
  <2>3. LineKnown
    <3>1. Len(src) \in Nat
      BY TypeStart DEF TypeOK
    <3>2. LineAt(1, pos)
      BY <2>1, <3>1 DEF LineAt, LineStarts
    <3>3. CodeFrom(1) = {}
      BY <2>1 DEF CodeFrom
    <3> QED BY <2>1, <3>2, <3>3 DEF LineKnown
  <2>4. ASSUME NEW kind PROVE EndersPlaced(kind)
    <3>1. AtLineEnds(kind) = {} /\ Bound = 1 /\ 1..Bound - 1 = {}
      BY <2>1 DEF AtLineEnds, Bound
    <3> QED BY <3>1 DEF EndersPlaced
  <2> QED BY <2>2, <2>3, <2>4 DEF LineInv
<1>2. TypeOK /\ LineInv /\ [Next]_vars => LineInv'
  <2> SUFFICES ASSUME TypeOK, LineInv, [Next]_vars PROVE LineInv'
    OBVIOUS
  <2>1. "SEMI" \in LineKinds /\ "NEWLINE" \in LineKinds
    BY DEF LineKinds
  <2>2. Placed /\ LineKnown /\ EndersPlaced("SEMI") /\ EndersPlaced("NEWLINE") /\ SemisFirst
    BY DEF LineInv
  <2>3. Placed' /\ LineKnown' /\ SemisFirst'
    BY <2>2, PlacedStep, LineKnownStep, SemisFirstStep
  <2>4. EndersPlaced("SEMI")'
    BY <2>1, <2>2, EndersStep
  <2>5. EndersPlaced("NEWLINE")'
    BY <2>1, <2>2, EndersStep
  <2> QED BY <2>3, <2>4, <2>5 DEF LineInv
<1> QED BY <1>1, <1>2, TypeCorrect, PTL DEF Spec

\* In the terms of LexLayoutRef: when a call is done, its lines and their
\* significant tokens.
LEMMA CodeOnLine ==
  ASSUME TypeOK
  PROVE  /\ DOMAIN tokens = 1..Len(tokens)
         /\ \A l : CodeOn(l) = CodeIn(l, LineEnd(l))
         /\ \A l, e : Line(l, e) <=> l \in LineStarts /\ e = LineEnd(l)
<1>1. DOMAIN tokens = 1..Len(tokens)
  BY DEF TypeOK
<1>2. \A l : CodeOn(l) = CodeIn(l, LineEnd(l))
  BY <1>1 DEF CodeOn, CodeIn, IsCode
<1>3. ASSUME NEW l, NEW e PROVE Line(l, e) <=> l \in LineStarts /\ e = LineEnd(l)
  <2>1. Line(l, e) => l \in LineStarts
    BY DEF Line, LineAt
  <2> QED BY <2>1, LineEndOK, LineEndUnique
<1> QED BY <1>1, <1>2, <1>3

\* When a call is done, its virtual semicolons stand at the ends of exactly the
\* lines whose last significant token is terminating, one each and before the
\* line's NEWLINE, for every source, configuration and set of terminating
\* kinds (src/include/kavak.h:681).
THEOREM SemicolonsAlwaysEnd == Spec => []SemicolonsEndStatements
<1>1. TypeOK /\ LineInv => SemicolonsEndStatements
  <2> SUFFICES ASSUME TypeOK, LineInv, phase = "done", cfg.autoSemi, AtEnd(pos)
               PROVE  SemicolonsEndStatements
    BY DEF SemicolonsEndStatements, Truncated
  <2>t. pos \in Nat /\ pos \in 1..Len(src) + 1 /\ Len(src) \in Nat /\ pos = Len(src) + 1
    BY DEF TypeOK, AtEnd
  <2>0. /\ EndersPlaced("SEMI") /\ SemisFirst
        /\ Settled /\ Asked("SEMI")
    BY DEF LineInv, Settled, Asked
  <2>1. Kinds("SEMI") = AtLineEnds("SEMI")
    <3>1. \A i \in 1..Len(tokens) : tokens[i].kind = "SEMI" =>
            tokens[i].at > Len(src) \/ src[tokens[i].at] = "nl"
      BY <2>0 DEF SemisFirst
    <3> QED BY <3>1, CodeOnLine DEF Kinds, AtLineEnds
  <2>2. /\ {tokens[i].at : i \in AtLineEnds("SEMI")} = {e \in 1..Bound - 1 : Wanted("SEMI", e)}
        /\ \A i, j \in AtLineEnds("SEMI") : tokens[i].at = tokens[j].at => i = j
    BY <2>0 DEF EndersPlaced
  <2> DEFINE ends == {l \in LineStarts : \E i \in CodeOn(l) : /\ \A j \in CodeOn(l) : j <= i
                                                              /\ tokens[i].kind \in Terminating}
  <2>3. \A l \in LineStarts : l \in ends <=> EndsStatement(l, LineEnd(l))
    BY CodeOnLine DEF EndsStatement
  <2>4. {e \in 1..Bound - 1 : Wanted("SEMI", e)} = {LineEnd(l) : l \in ends}
    <3>1. \A e : Wanted("SEMI", e) <=> \E l : Line(l, e) /\ EndsStatement(l, e)
      BY DEF Wanted
    <3>2. 1..Bound - 1 = 1..Len(src) + 1
      BY <2>t DEF Bound
    <3>3. \A l, e : Line(l, e) => e \in 1..Len(src) + 1
      BY DEF Line
    <3>4. \A l, e : Line(l, e) <=> l \in LineStarts /\ e = LineEnd(l)
      BY CodeOnLine
    <3>5. ends \subseteq LineStarts
      OBVIOUS
    <3> HIDE DEF ends
    <3>6. \A e : e \in {LineEnd(l) : l \in ends} <=> \E l : Line(l, e) /\ EndsStatement(l, e)
      BY <2>3, <3>4, <3>5
    <3> QED BY <3>1, <3>2, <3>3, <3>6
  <2>5. PlacesOf("SEMI") = {LineEnd(l) : l \in ends}
    BY <2>1, <2>2, <2>4 DEF PlacesOf
  <2>6. \A i \in Kinds("SEMI"), j \in Kinds("NEWLINE") : tokens[i].at = tokens[j].at => i < j
    <3>1. \A i \in 1..Len(tokens) : tokens[i].kind = "SEMI" =>
            \A j \in 1..Len(tokens) :
              tokens[j].kind = "NEWLINE" /\ tokens[j].at = tokens[i].at => i < j
      BY <2>0 DEF SemisFirst
    <3> QED BY <3>1, CodeOnLine DEF Kinds
  <2> QED BY <2>1, <2>2, <2>5, <2>6 DEF SemicolonsEndStatements
<1> QED BY <1>1, LinesCorrect, TypeCorrect, PTL

\* When a call is done, the NEWLINEs outside literals stand at the ends of
\* exactly the lines that have significant tokens (the offside rule), at
\* exactly the newlines of the source (emit_newlines), or both, one each
\* (src/src/lexer.c:1075).
THEOREM NewlinesAlwaysEnd == Spec => []NewlinesEndLines
<1>1. TypeOK /\ LineInv => NewlinesEndLines
  <2> SUFFICES ASSUME TypeOK, LineInv, phase = "done", AtEnd(pos), cfg.offside \/ cfg.emitNewlines
               PROVE  NewlinesEndLines
    BY DEF NewlinesEndLines, Truncated
  <2>t. pos \in Nat /\ pos \in 1..Len(src) + 1 /\ Len(src) \in Nat /\ pos = Len(src) + 1
    BY DEF TypeOK, AtEnd
  <2>0. EndersPlaced("NEWLINE") /\ Settled /\ Asked("NEWLINE")
    BY DEF LineInv, Settled, Asked
  <2> DEFINE newlines == {i \in Kinds("NEWLINE") :
                            tokens[i].at > Len(src) \/ src[tokens[i].at] = "nl"}
             physical == {i \in Positions : src[i] = "nl"}
             coded    == {LineEnd(l) : l \in {m \in LineStarts : CodeOn(m) # {}}}
             offside  == IF cfg.emitNewlines THEN coded \ Positions ELSE coded
             wanted   == {e \in 1..Bound - 1 : Wanted("NEWLINE", e)}
  <2>1. newlines = AtLineEnds("NEWLINE")
    BY CodeOnLine DEF Kinds, AtLineEnds
  <2>2. /\ {tokens[i].at : i \in AtLineEnds("NEWLINE")} = wanted
        /\ \A i, j \in AtLineEnds("NEWLINE") : tokens[i].at = tokens[j].at => i = j
    BY <2>0 DEF EndersPlaced
  <2>3. \A e : e \in coded <=> \E l : Line(l, e) /\ CodeIn(l, e) # {}
    <3>1. \A l, e : Line(l, e) <=> l \in LineStarts /\ e = LineEnd(l)
      BY CodeOnLine
    <3>2. \A l : CodeOn(l) = CodeIn(l, LineEnd(l))
      BY CodeOnLine
    <3> QED BY <3>1, <3>2
  <2>4. 1..Bound - 1 = 1..Len(src) + 1 /\ \A l, e : Line(l, e) => e \in 1..Len(src) + 1
    BY <2>t DEF Bound, Line
  <2>5. /\ \A e : e \in physical <=> e \in 1..Len(src) + 1 /\ e <= Len(src) /\ src[e] = "nl"
        /\ \A e \in 1..Len(src) + 1 : e \notin Positions <=> e > Len(src)
    BY <2>t DEF Positions
  <2>6. coded \subseteq 1..Len(src) + 1
    BY <2>3, <2>4
  <2>7. \A e \in 1..Len(src) + 1 :
          e \in wanted <=> \/ cfg.emitNewlines /\ e \in physical
                           \/ cfg.offside /\ (cfg.emitNewlines => e > Len(src)) /\ e \in coded
    <3> HIDE DEF physical, coded
    <3> QED BY <2>3, <2>4, <2>5 DEF Wanted
  <2>8. wanted \subseteq 1..Len(src) + 1 /\ physical \subseteq 1..Len(src) + 1
    BY <2>4, <2>5
  <2> HIDE DEF newlines, physical, coded, wanted
  <2>9. \A e \in 1..Len(src) + 1 :
          e \in offside <=> (cfg.emitNewlines => e > Len(src)) /\ e \in coded
    BY <2>5
  <2>10. offside \subseteq 1..Len(src) + 1
    BY <2>6
  <2> HIDE DEF offside
  <2>11. wanted = (IF cfg.emitNewlines THEN physical ELSE {})
                    \cup (IF ~cfg.offside THEN {} ELSE offside)
    BY <2>7, <2>8, <2>9, <2>10, Zenon
  <2>12. /\ {tokens[i].at : i \in newlines}
              = (IF cfg.emitNewlines THEN physical ELSE {})
                  \cup (IF ~cfg.offside THEN {} ELSE offside)
         /\ \A i, j \in newlines : tokens[i].at = tokens[j].at => i = j
    BY <2>1, <2>2, <2>11
  <2>13. (IF ~cfg.offside THEN {} ELSE offside)
           = (IF ~cfg.offside THEN {} ELSE IF cfg.emitNewlines THEN coded \ Positions ELSE coded)
    BY DEF offside
  <2> QED BY <2>12, <2>13 DEF NewlinesEndLines, newlines, physical, coded
<1> QED BY <1>1, LinesCorrect, TypeCorrect, PTL
-----------------------------------------------------------------------------
(* Columns.                                                                *)

\* Width counts unit by unit.
LEMMA WidthOK ==
  ASSUME TypeOK, NEW l \in Nat, l <= Len(src) + 1
  PROVE  /\ \A p \in l..Len(src) + 1 : Width(l, p) \in Nat
         /\ Width(l, l) = 0
         /\ \A p \in l..Len(src) : Width(l, p + 1) = ColumnAfter(src[p], Width(l, p))
<1> DEFINE n == Len(src) + 1
           m == n - l
           Step(i, v) == ColumnAfter(src[l + i - 1], v)
           step == [i \in 1..m |-> [v \in Nat |-> Step(i, v)]]
           Moved(f) == f = [q \in l..Len(src) + 1 |->
                              IF q = l THEN 0 ELSE ColumnAfter(src[q - 1], f[q - 1])]
           found == CHOOSE f : Moved(f)
<1>1. n \in Nat /\ m \in Nat /\ l + m = n
  BY DEF TypeOK
<1>2. \A symbol : \A v \in Nat : ColumnAfter(symbol, v) \in Nat
  BY ColumnAfterType
<1>3. StaysIn(Nat, m, 0, step)
  <2>1. \A i \in 1..m, v \in Nat : Step(i, v) \in Nat
    BY <1>2
  <2> HIDE DEF Step, m
  <2>2. step \in [1..m -> [Nat -> Nat]]
    BY <2>1
  <2> HIDE DEF step
  <2> QED BY <2>2 DEF StaysIn
<1>4. \E f : Moved(f)
  <2>1. PICK g : Follows(g, Nat, m, 0, step)
    <3> HIDE DEF step, m
    <3> QED BY <1>1, <1>3, RecursionExists
  <2>2. g[0] = 0 /\ \A i \in 1..m : g[i] = Step(i, g[i - 1])
    <3>1. \A i \in 1..m : g[i - 1] \in Nat
      <4>1. g \in [0..m -> Nat] /\ \A i \in 1..m : i - 1 \in 0..m
        BY <1>1, <2>1 DEF Follows
      <4> HIDE DEF m
      <4> QED BY <4>1
    <3>2. \A i \in 1..m : step[i][g[i - 1]] = Step(i, g[i - 1])
      BY <3>1
    <3> HIDE DEF step, Step
    <3> QED BY <2>1, <3>2 DEF Follows
  <2> DEFINE f == [q \in l..n |-> g[q - l]]
  <2>3. \A q \in l..n : f[q] = IF q = l THEN 0 ELSE ColumnAfter(src[q - 1], f[q - 1])
    <3> TAKE q \in l..n
    <3>1. CASE q = l
      BY <1>1, <2>2, <3>1
    <3>2. CASE q # l
      <4>1. q - l \in 1..m /\ q - 1 \in l..n /\ q - l - 1 = (q - 1) - l /\ l + (q - l) - 1 = q - 1
        BY <1>1, <3>2
      <4>2. f[q] = g[q - l] /\ f[q - 1] = g[(q - 1) - l]
        BY <4>1
      <4>3. g[q - l] = ColumnAfter(src[q - 1], g[(q - 1) - l])
        BY <2>2, <4>1
      <4> QED BY <3>2, <4>2, <4>3
    <3> QED BY <3>1, <3>2
  <2>4. f = [q \in l..n |-> IF q = l THEN 0 ELSE ColumnAfter(src[q - 1], f[q - 1])]
    BY <2>3
  <2> QED BY <2>4
<1>5. Moved(found)
  <2> HIDE DEF Moved
  <2> QED BY <1>4
<1>6. \A p : Width(l, p) = found[p]
  BY DEF Width
<1>7. \A q \in l..n : found[q] = IF q = l THEN 0 ELSE ColumnAfter(src[q - 1], found[q - 1])
  <2> HIDE DEF found
  <2>1. found = [q \in l..n |-> IF q = l THEN 0 ELSE ColumnAfter(src[q - 1], found[q - 1])]
    BY <1>5
  <2> QED BY <2>1
<1> HIDE DEF found
<1>8. found[l] = 0 /\ \A p \in l..Len(src) : found[p + 1] = ColumnAfter(src[p], found[p])
  <2>1. l \in l..n /\ \A p \in l..Len(src) : p + 1 \in l..n /\ p + 1 # l /\ p + 1 - 1 = p
    BY <1>1
  <2> HIDE DEF n
  <2> QED BY <1>7, <2>1
<1> DEFINE S == {i \in 0..m : found[l + i] \in Nat}
<1>9. 0 \in S
  BY <1>1, <1>8
<1>10. ASSUME NEW i \in 0..m - 1, i \in S PROVE i + 1 \in S
  <2>1. l + i \in l..Len(src) /\ l + (i + 1) = (l + i) + 1 /\ i + 1 \in 0..m /\ found[l + i] \in Nat
    BY <1>1, <1>10
  <2>2. found[(l + i) + 1] = ColumnAfter(src[l + i], found[l + i])
    BY <1>8, <2>1
  <2>3. found[l + (i + 1)] \in Nat
    BY <1>2, <2>1, <2>2
  <2> QED BY <2>1, <2>3
<1>11. 0..m \subseteq S
  <2> HIDE DEF S, m
  <2> QED BY <1>1, <1>9, <1>10, BoundedInduction
<1>12. \A p \in l..n : found[p] \in Nat
  <2> TAKE p \in l..n
  <2>1. p - l \in 0..m /\ l + (p - l) = p
    BY <1>1
  <2>2. p - l \in S
    BY <1>11, <2>1
  <2> QED BY <2>1, <2>2
<1> QED BY <1>6, <1>8, <1>12

\* The head of a line is the one place where its run of units ends.
LEMMA HeadOK ==
  ASSUME TypeOK, NEW l \in LineStarts
  PROVE  /\ LineHead(l) \in Nat /\ l <= LineHead(l) /\ LineHead(l) <= Len(src) + 1
         /\ RunEnds(Units, l, LineHead(l))
<1>1. l \in Nat /\ l >= 1 /\ l <= Len(src) + 1 /\ Len(src) \in Nat
  BY StartsTyped
<1> DEFINE stops == {h \in l..Len(src) + 1 : AtEnd(h) \/ src[h] \notin Units}
           Good(h) == RunEnds(Units, l, h)
<1>2. stops \in SUBSET Nat /\ Len(src) + 1 \in stops
  BY <1>1 DEF AtEnd
<1>3. PICK h \in stops : \A g \in stops : h <= g
  <2> HIDE DEF stops
  <2> QED BY <1>2, LeastNumber
<1>4. h \in l..Len(src) + 1 /\ (AtEnd(h) \/ src[h] \notin Units)
  OBVIOUS
<1>5. \A i \in l..h - 1 : src[i] \in Units
  <2> TAKE i \in l..h - 1
  <2>1. i \in l..Len(src) + 1 /\ ~(h <= i)
    BY <1>1, <1>4
  <2>2. i \notin stops
    BY <1>3, <2>1
  <2> QED BY <2>1, <2>2
<1>6. Good(h)
  BY <1>4, <1>5 DEF RunEnds
<1>7. LineHead(l) \in l..Len(src) + 1 /\ Good(LineHead(l))
  <2>1. LineHead(l) = CHOOSE g \in l..Len(src) + 1 : Good(g)
    BY DEF LineHead
  <2> HIDE DEF Good
  <2> QED BY <1>4, <1>6, <2>1
<1> QED BY <1>1, <1>7

LEMMA HeadUnique ==
  ASSUME TypeOK, NEW l \in LineStarts, NEW p \in 1..Len(src) + 1, l <= p, RunEnds(Units, l, p)
  PROVE  LineHead(l) = p
<1>1. LineHead(l) \in Nat /\ l <= LineHead(l) /\ LineHead(l) <= Len(src) + 1 /\ Len(src) \in Nat /\ l \in Nat
      /\ p \in Nat /\ p <= Len(src) + 1
  BY HeadOK, StartsTyped
<1>2. RunEnds(Units, l, LineHead(l))
  BY HeadOK
<1> DEFINE h == LineHead(l)
<1> HIDE DEF h
<1>3. h \in Nat /\ l <= h /\ h <= Len(src) + 1 /\ RunEnds(Units, l, h)
  BY <1>1, <1>2 DEF h
<1>4. CASE h < p
  <2>1. h \in l..p - 1
    BY ONLY <1>1, <1>3, <1>4
  <2>2. AtEnd(h)
    BY <1>3, <2>1 DEF RunEnds
  <2> QED BY <1>1, <1>3, <1>4, <2>2 DEF AtEnd
<1>5. CASE p < h
  <2>1. p \in l..h - 1
    BY ONLY <1>1, <1>3, <1>5, l <= p
  <2>2. AtEnd(p)
    BY <1>3, <2>1 DEF RunEnds
  <2> QED BY <1>1, <1>3, <1>5, <2>2 DEF AtEnd
<1> QED BY <1>3, <1>4, <1>5 DEF h

\* All of this is a matter of the source and the configuration alone.
LEMMA LayoutStays ==
  ASSUME src' = src, cfg' = cfg
  PROVE  /\ LineStarts' = LineStarts
         /\ \A l : LineHead(l)' = LineHead(l)
         /\ \A l, p : Width(l, p)' = Width(l, p)
         /\ \A l : Column(l)' = Column(l)
         /\ LayoutLines' = LayoutLines
         /\ \A l : Aligned(l)' <=> Aligned(l)
<1>1. LineStarts' = LineStarts
  BY DEF LineStarts
<1>2. ASSUME NEW l PROVE LineHead(l)' = LineHead(l)
  BY DEF LineHead, RunEnds, AtEnd
<1>3. ASSUME NEW l, NEW p PROVE Width(l, p)' = Width(l, p)
  BY DEF Width, ColumnAfter
<1>4. \A l : Column(l)' = Column(l)
  BY <1>2, <1>3 DEF Column
<1>5. LayoutLines' = LayoutLines
  BY <1>1, <1>2 DEF LayoutLines
<1>6. \A l : Aligned(l)' <=> Aligned(l)
  BY <1>4, <1>5 DEF Aligned
<1> QED BY <1>1, <1>2, <1>3, <1>4, <1>5, <1>6
-----------------------------------------------------------------------------
(* One scan advances, and stays on its line.                               *)
LEMMA ScanAdvances ==
  ASSUME TypeOK, Scan
  PROVE  \E p \in pos..Len(src), end \in Nat :
           /\ pos' = end /\ p < end /\ RunEnds(Skipped, pos, p)
           /\ NewlineAware => src[p] # "nl"
           /\ src[p] = "lc" => \A i \in p..end - 1 : src[i] # "nl"
           /\ src[p] # "lc" => end = p + 1
<1>t. pos \in Nat /\ pos \in 1..Len(src) + 1 /\ Len(src) \in Nat
  BY DEF TypeOK
<1>1. PICK p \in pos..Len(src) :
        /\ RunEnds(Skipped, pos, p) /\ (NewlineAware => src[p] # "nl")
        /\ \E end \in p..Len(src) + 1 : ScanEnds(p, end) /\ pos' = end
  BY DEF Scan
<1>2. PICK end \in p..Len(src) + 1 : ScanEnds(p, end) /\ pos' = end
  BY <1>1
<1>3. p \in Nat /\ end \in Nat /\ p <= Len(src) /\ p <= end
  BY <1>t, <1>1, <1>2
<1>4. CASE src[p] = "lc"
  <2>1. RunEnds(Symbols \ {"nl"}, p, end)
    BY <1>2, <1>4 DEF ScanEnds
  <2>2. "lc" \in Symbols \ {"nl"}
    BY DEF Symbols
  <2>3. end # p
    BY <1>3, <1>4, <2>1, <2>2 DEF RunEnds, AtEnd
  <2>4. p < end
    BY <1>3, <2>3
  <2>5. \A i \in p..end - 1 : src[i] # "nl"
    BY <2>1 DEF RunEnds
  <2> QED BY <1>1, <1>2, <1>3, <1>4, <2>4, <2>5
<1>5. CASE src[p] # "lc"
  <2>1. end = p + 1 /\ p < end
    BY <1>2, <1>3, <1>5 DEF ScanEnds
  <2> QED BY <1>1, <1>2, <1>3, <1>5, <2>1
<1> QED BY <1>4, <1>5

LEMMA ScanOnLine ==
  ASSUME TypeOK, Scan, NewlineAware
  PROVE  \E end \in Nat : end = pos' /\ pos < end /\ \A i \in pos..end - 1 : src[i] # "nl"
<1>t. pos \in Nat /\ Len(src) \in Nat /\ Skipped = Blanks /\ "nl" \notin Blanks
  BY DEF TypeOK, Skipped, Blanks, Units
<1>1. PICK p \in pos..Len(src), end \in Nat :
        /\ pos' = end /\ p < end /\ RunEnds(Skipped, pos, p)
        /\ NewlineAware => src[p] # "nl"
        /\ src[p] = "lc" => \A i \in p..end - 1 : src[i] # "nl"
        /\ src[p] # "lc" => end = p + 1
  BY ScanAdvances
<1>2. p \in Nat /\ pos <= p /\ p < end
  BY <1>t, <1>1
<1>3. \A i \in p..end - 1 : src[i] # "nl"
  <2>1. CASE src[p] # "lc"
    <3>1. \A i \in p..end - 1 : i = p
      BY <1>1, <1>2, <2>1
    <3> QED BY <1>1, <3>1
  <2> QED BY <1>1, <2>1
<1>4. \A i \in pos..p - 1 : src[i] # "nl"
  BY <1>t, <1>1 DEF RunEnds
<1>5. \A i \in pos..end - 1 : i \in pos..p - 1 \/ i \in p..end - 1
  BY ONLY <1>t, <1>2
<1>6. pos < end
  BY <1>t, <1>2
<1> QED BY <1>1, <1>3, <1>4, <1>5, <1>6
-----------------------------------------------------------------------------
(* The indentation of the line under lex.pos.                              *)

\* Between the newline and the measured column the line's layout is pending.
Handled == ~(atLineStart /\ phase \in {"top", "indent"})
Reading == phase \in {"top", "indent", "body"}

\* Only units lie between the start of line l and lex.pos.
OnHead(l) == LineAt(l, pos) /\ \A i \in l..pos - 1 : src[i] \in Units

\* While a line's layout is pending, col is the width of its units so far; then
\* the heads of all lines begun are behind lex.pos.
HeadsKnown ==
  /\ phase = "indent" => cfg.offside /\ atLineStart
  /\ cfg.offside /\ Reading =>
       /\ Handled => \A m \in LineStarts : m <= pos => LineHead(m) <= pos
       /\ ~Handled => \E l : /\ OnHead(l)
                             /\ phase = "top" => pos = l
                             /\ phase = "indent" => col = Width(l, pos)

\* No line starts between positions with no newline between them.
LEMMA NoStart ==
  ASSUME TypeOK, NEW p \in Nat, NEW q \in Nat, p <= q, \A i \in p..q - 1 : src[i] # "nl",
         NEW m \in LineStarts, m <= q, p >= 1
  PROVE  m <= p
<1>1. m \in Nat /\ (m = 1 \/ src[m - 1] = "nl")
  BY StartsTyped
<1>2. m > p => m - 1 \in p..q - 1 /\ m # 1
  BY <1>1
<1> QED BY <1>1, <1>2

\* The head of a line is on that line.
LEMMA HeadOnLine ==
  ASSUME TypeOK, NEW l \in LineStarts, NEW m \in LineStarts, m < l
  PROVE  LineHead(m) < l
<1> DEFINE h == LineHead(m)
<1>1. h \in Nat /\ RunEnds(Units, m, h)
  BY HeadOK
<1> HIDE DEF h
<1>2. l \in Nat /\ m \in Nat /\ m >= 1 /\ (l = 1 \/ src[l - 1] = "nl")
  BY StartsTyped
<1>3. h >= l => l - 1 \in m..h - 1 /\ l # 1
  BY <1>1, <1>2
<1>4. "nl" \notin Units
  BY DEF Units
<1>5. ~(h >= l)
  BY <1>1, <1>2, <1>3, <1>4 DEF RunEnds
<1> QED BY <1>1, <1>2, <1>5 DEF h

\* Once a line is measured, lex.pos is its head, col its column, and the heads
\* of the lines before are behind.
LEMMA LineMeasured ==
  ASSUME TypeOK, HeadsKnown, Measured
  PROVE  \E l \in LineStarts :
           /\ LineHead(l) = pos /\ col = Column(l) /\ l <= pos
           /\ \A m \in LineStarts : m <= pos => m = l \/ (m < l /\ LineHead(m) < pos)
<1>t. pos \in Nat /\ pos \in 1..Len(src) + 1 /\ Len(src) \in Nat
  BY DEF TypeOK
<1>1. phase = "indent" /\ ~OnUnit /\ cfg.offside /\ ~Handled /\ Reading
  BY DEF Measured, HeadsKnown, Handled, Reading
<1>2. PICK l : OnHead(l) /\ col = Width(l, pos)
  BY <1>1 DEF HeadsKnown
<1>3. l \in LineStarts /\ l <= pos /\ l \in Nat /\ l >= 1
  BY <1>2, StartsTyped DEF OnHead, LineAt
<1>4. RunEnds(Units, l, pos)
  BY <1>1, <1>2 DEF OnHead, OnUnit, RunEnds
<1>5. LineHead(l) = pos
  BY <1>t, <1>3, <1>4, HeadUnique
<1>6. ASSUME NEW m \in LineStarts, m <= pos PROVE m = l \/ (m < l /\ LineHead(m) < pos)
  <2>1. m \in Nat
    BY StartsTyped
  <2>2. \A i \in l..pos - 1 : src[i] # "nl"
    BY <1>2 DEF OnHead, LineAt
  <2>3. m <= l
    BY <1>t, <1>3, <1>6, <2>2, NoStart
  <2>4. m < l => LineHead(m) < l /\ LineHead(m) \in Nat
    BY <1>3, HeadOnLine, HeadOK
  <2> QED BY <1>t, <1>3, <2>1, <2>3, <2>4
<1> QED BY <1>2, <1>3, <1>5, <1>6 DEF Column

LEMMA MeasuredEnds ==
  ASSUME SkipLayout \/ IndentTooDeep \/ OpenBlock \/ CloseBlocks
  PROVE  /\ Measured /\ UNCHANGED layoutUnchanged /\ phase' \in {"body", "failed"}
BY DEF SkipLayout, IndentTooDeep, OpenBlock, CloseBlocks, Emit, PushAll, PushFails

LEMMA HeadsKnownStep ==
  ASSUME TypeOK, HeadsKnown, [Next]_vars
  PROVE  HeadsKnown'
<1>t. pos \in Nat /\ pos \in 1..Len(src) + 1 /\ Len(src) \in Nat
  BY DEF TypeOK
<1>s. src' = src /\ cfg' = cfg
  BY CallFixed
<1>l. /\ LineStarts' = LineStarts
      /\ \A m : LineHead(m)' = LineHead(m)
      /\ \A m, p : Width(m, p)' = Width(m, p)
      /\ \A m, p : LineAt(m, p)' <=> LineAt(m, p)
  BY <1>s, LayoutStays, LinesStay
<1>1. CASE UNCHANGED vars
  <2>1. pos' = pos /\ phase' = phase /\ atLineStart' = atLineStart /\ col' = col
    BY <1>1 DEF vars
  <2>2. (Handled' <=> Handled) /\ (Reading' <=> Reading)
    BY <2>1 DEF Handled, Reading
  <2>3. \A l : OnHead(l)' <=> OnHead(l)
    BY <1>s, <1>l, <2>1 DEF OnHead
  <2>4. \A l : Width(l, pos)' = Width(l, pos)
    BY <1>l, <2>1
  <2> QED BY <1>s, <1>l, <2>1, <2>2, <2>3, <2>4 DEF HeadsKnown
<1>2. CASE ~Reading'
  BY <1>2 DEF HeadsKnown, Reading
<1>3. CASE BeginIteration
  <2>1. /\ phase = "top" /\ pos' = pos /\ atLineStart' = atLineStart /\ col' = 0
        /\ phase' = IF cfg.offside /\ atLineStart THEN "indent" ELSE "body"
    BY <1>3 DEF BeginIteration
  <2>2. CASE cfg.offside /\ atLineStart
    <3>1. PICK l : OnHead(l) /\ pos = l
      BY <2>1, <2>2 DEF HeadsKnown, Handled, Reading
    <3>2. OnHead(l)'
      BY <1>s, <1>l, <2>1, <3>1 DEF OnHead
    <3>3. Width(l, pos') = 0
      BY <1>t, <2>1, <3>1, WidthOK
    <3>4. Width(l, pos)' = 0
      BY <1>l, <3>3
    <3>5. phase' = "indent" /\ ~Handled' /\ cfg'.offside /\ atLineStart'
      BY <1>s, <2>1, <2>2 DEF Handled
    <3> QED BY <2>1, <3>2, <3>4, <3>5 DEF HeadsKnown
  <2>3. CASE ~(cfg.offside /\ atLineStart)
    <3>1. phase' = "body" /\ Handled' /\ (cfg.offside => Handled /\ Reading)
      BY <2>1, <2>3 DEF Handled, Reading
    <3>2. cfg.offside => \A m \in LineStarts : m <= pos => LineHead(m) <= pos
      BY <3>1 DEF HeadsKnown
    <3> QED BY <1>s, <1>l, <2>1, <3>1, <3>2 DEF HeadsKnown
  <2> QED BY <2>2, <2>3
<1>4. CASE MeasureIndent
  <2>1. /\ phase = "indent" /\ phase' = "indent" /\ atLineStart' = atLineStart
        /\ pos' = pos + 1 /\ col' = ColumnAfter(src[pos], col)
        /\ pos <= Len(src) /\ src[pos] \in Units
    BY <1>4, <1>t DEF MeasureIndent, OnUnit, AtEnd
  <2>2. cfg.offside /\ atLineStart /\ ~Handled /\ Reading
    BY <2>1 DEF HeadsKnown, Handled, Reading
  <2>3. PICK l : OnHead(l) /\ col = Width(l, pos)
    BY <2>1, <2>2 DEF HeadsKnown
  <2>4. l \in LineStarts /\ l <= pos /\ l \in Nat /\ l >= 1 /\ l <= Len(src) + 1
    BY <2>3, StartsTyped DEF OnHead, LineAt
  <2>5. OnHead(l)'
    <3>1. \A i \in l..pos : src[i] \in Units
      <4>1. \A i \in l..pos : i \in l..pos - 1 \/ i = pos
        BY <1>t, <2>4
      <4> QED BY <2>1, <2>3, <4>1 DEF OnHead
    <3>2. \A i \in l..pos : src[i] # "nl"
      BY <3>1 DEF Units
    <3>3. l..pos + 1 - 1 = l..pos /\ l <= pos + 1
      BY <1>t, <2>4
    <3>4. LineAt(l, pos + 1)
      BY <1>t, <2>4, <3>2, <3>3 DEF LineAt
    <3>5. LineAt(l, pos)'
      BY <1>l, <2>1, <3>4
    <3>6. l..pos' - 1 = l..pos
      BY <1>t, <2>1, <2>4
    <3> QED BY <1>s, <3>1, <3>5, <3>6 DEF OnHead
  <2>6. Width(l, pos + 1) = ColumnAfter(src[pos], Width(l, pos))
    BY <1>t, <2>1, <2>4, WidthOK
  <2>7. Width(l, pos)' = col'
    BY <1>l, <2>1, <2>3, <2>6
  <2>8. ~Handled' /\ cfg'.offside /\ atLineStart'
    BY <1>s, <2>1, <2>2 DEF Handled
  <2> QED BY <2>1, <2>5, <2>7, <2>8 DEF HeadsKnown
<1>5. CASE (SkipLayout \/ IndentTooDeep \/ OpenBlock \/ CloseBlocks) /\ phase' = "body"
  <2>1. Measured /\ pos' = pos
    BY <1>5, MeasuredEnds DEF layoutUnchanged
  <2>2. PICK l \in LineStarts :
          /\ LineHead(l) = pos
          /\ \A m \in LineStarts : m <= pos => m = l \/ (m < l /\ LineHead(m) < pos)
    BY <2>1, LineMeasured
  <2>3. \A m \in LineStarts : m <= pos => LineHead(m) <= pos
    <3> TAKE m \in LineStarts
    <3> HAVE m <= pos
    <3>1. LineHead(m) \in Nat
      BY HeadOK
    <3> QED BY <1>t, <2>2, <3>1
  <2>4. Handled'
    BY <1>5 DEF Handled
  <2> QED BY <1>s, <1>l, <1>5, <2>1, <2>3, <2>4 DEF HeadsKnown
<1>6. CASE FinishPhysicalLine /\ Reading'
  <2>1. PICK p \in pos..Len(src) : src[p] = "nl" /\ pos' = p + 1
    BY <1>6 DEF FinishPhysicalLine
  <2>2. atLineStart' = TRUE /\ phase' = "top"
    BY <1>6 DEF FinishPhysicalLine, Emit, PushAll, PushFails, Reading
  <2>3. p \in Nat /\ p \in 1..Len(src)
    BY <1>t, <2>1
  <2>4. LineAt(p + 1, p + 1)
    <3>1. p + 1 \in LineStarts
      BY <1>t, <2>1, <2>3 DEF LineStarts
    <3> QED BY <2>3, <3>1 DEF LineAt
  <2>5. LineAt(p + 1, pos)'
    BY <1>l, <2>1, <2>4
  <2>6. OnHead(p + 1)'
    <3>1. \A i \in p + 1..p + 1 - 1 : FALSE
      BY <2>3
    <3> QED BY <2>1, <2>5, <3>1 DEF OnHead
  <2>7. ~Handled'
    BY <2>2 DEF Handled
  <2> QED BY <2>1, <2>2, <2>6, <2>7 DEF HeadsKnown
<1>7. CASE Scan /\ Reading'
  <2>1. phase = "body" /\ atLineStart' = FALSE /\ phase' = "top" /\ Handled'
    BY <1>7 DEF Scan, Emit, PushAll, PushFails, Reading, Handled
  <2>2. CASE cfg.offside
    <3>1. \A m \in LineStarts : m <= pos => LineHead(m) <= pos
      BY <2>1, <2>2 DEF HeadsKnown, Handled, Reading
    <3>2. PICK end \in Nat : end = pos' /\ pos < end /\ \A i \in pos..end - 1 : src[i] # "nl"
      BY <1>7, <2>2, ScanOnLine DEF NewlineAware
    <3>3. \A m \in LineStarts : m <= end => LineHead(m) <= end
      <4> TAKE m \in LineStarts
      <4> HAVE m <= end
      <4>1. m <= pos
        <5>1. pos <= end /\ pos >= 1
          BY <1>t, <3>2
        <5> QED BY <1>t, <3>2, <5>1, NoStart
      <4>2. LineHead(m) <= pos /\ LineHead(m) \in Nat
        BY <3>1, <4>1, HeadOK
      <4> QED BY <1>t, <3>2, <4>2
    <3> QED BY <1>s, <1>l, <2>1, <3>2, <3>3 DEF HeadsKnown
  <2>3. CASE ~cfg.offside
    BY <1>s, <2>1, <2>3 DEF HeadsKnown
  <2> QED BY <2>2, <2>3
<1>8. CASE (TruncateAtCeiling \/ ReachEnd \/ FinishStream)
  <2>1. ~Reading'
    BY <1>8 DEF TruncateAtCeiling, ReachEnd, FinishStream, Emit, PushAll, PushFails, Reading
  <2> QED BY <1>2, <2>1
<1>9. (SkipLayout \/ IndentTooDeep \/ OpenBlock \/ CloseBlocks) /\ phase' # "body" => ~Reading'
  BY MeasuredEnds DEF Reading
<1> QED BY <1>1, <1>2, <1>3, <1>4, <1>5, <1>6, <1>7, <1>8, <1>9 DEF Next, Returned
-----------------------------------------------------------------------------
(* What is reported.                                                       *)

LEMMA OneMessage ==
  ASSUME NEW kind, NEW p
  PROVE  \A d \in {<<kind, p>>} : d[1] = kind
OBVIOUS

LEMMA Reported ==
  ASSUME NEW msgs, Report(msgs)
  PROVE  diags \subseteq diags' /\ diags' \subseteq diags \cup msgs
         /\ (~cfg.mayFail => diags' = diags \cup msgs)
<1>1. PICK kept \in (IF cfg.mayFail THEN SUBSET msgs ELSE {msgs}) : diags' = diags \cup kept
  BY DEF Report
<1>2. kept \subseteq msgs /\ (~cfg.mayFail => kept = msgs)
  BY <1>1
<1> QED BY <1>1, <1>2

LEMMA EmitReported ==
  ASSUME NEW kinds, NEW p, NEW before, NEW after, NEW next,
         Emit(kinds, p, before, after, next)
  PROVE  /\ diags \subseteq diags'
         /\ \A d \in diags' : d \in diags \cup before \cup after \/ d[1] = "invalid"
         /\ phase' = next \/ phase' = "failed"
         /\ ~cfg.mayFail /\ phase' # "failed" => before \cup after \subseteq diags'
<1>1. \A ks : \A d \in InvalidReports(ks, p) : d[1] = "invalid"
  BY DEF InvalidReports
<1>2. CASE PushAll(kinds, p, before, after, next)
  <2>1. phase' = next /\ Report(before \cup InvalidReports(kinds, p) \cup after)
    BY <1>2 DEF PushAll
  <2>2. /\ diags \subseteq diags'
        /\ diags' \subseteq diags \cup (before \cup InvalidReports(kinds, p) \cup after)
        /\ ~cfg.mayFail => diags' = diags \cup (before \cup InvalidReports(kinds, p) \cup after)
    BY <2>1, Reported
  <2> QED BY <1>1, <2>1, <2>2
<1>3. CASE PushFails(kinds, p, before)
  <2>1. PICK n : phase' = "failed" /\ Report(before \cup InvalidReports(SubSeq(kinds, 1, n), p))
    BY <1>3 DEF PushFails
  <2>2. /\ diags \subseteq diags'
        /\ diags' \subseteq diags \cup (before \cup InvalidReports(SubSeq(kinds, 1, n), p))
    BY <2>1, Reported
  <2> QED BY <1>1, <2>1, <2>2
<1> QED BY <1>2, <1>3 DEF Emit

\* No step takes a diagnostic back, and a misaligned dedent is only reported
\* where a line's indentation ends.
LEMMA DiagsGrow ==
  ASSUME [Next]_vars
  PROVE  /\ diags \subseteq diags'
         /\ \A d \in diags' : d \in diags \/ d[1] # "misaligned" \/ (CloseBlocks /\ d[2] = pos)
<1> DEFINE Fine == /\ diags \subseteq diags'
                   /\ \A d \in diags' : \/ d \in diags \/ d[1] # "misaligned"
                                        \/ (CloseBlocks /\ d[2] = pos)
<1>u. \A d \in UnitReport : d[1] = "unit"
  BY DEF UnitReport
<1>1. CASE diags' = diags
  BY <1>1
<1>2. CASE TruncateAtCeiling
  <2> DEFINE msgs == {<<"token limit", pos>>}
  <2>1. Report(msgs)
    BY <1>2 DEF TruncateAtCeiling
  <2>2. \A d \in msgs : d[1] # "misaligned"
    <3>1. "token limit" # "misaligned"
      BY Zenon
    <3>2. \A d \in msgs : d[1] = "token limit"
      BY OneMessage, Zenon
    <3> QED BY <3>1, <3>2, Zenon
  <2> HIDE DEF msgs
  <2>3. diags \subseteq diags' /\ diags' \subseteq diags \cup msgs
    BY <2>1, Reported
  <2> QED BY <2>2, <2>3
<1>3. CASE SkipLayout
  <2>1. Report(UnitReport)
    BY <1>3 DEF SkipLayout
  <2>2. diags \subseteq diags' /\ diags' \subseteq diags \cup UnitReport
    BY <2>1, Reported
  <2> QED BY <1>u, <2>2
<1>4. CASE IndentTooDeep
  <2> DEFINE msgs == {<<"too deep", pos>>}
  <2>1. Report(UnitReport \cup msgs)
    BY <1>4 DEF IndentTooDeep
  <2>2. \A d \in msgs : d[1] # "misaligned"
    <3>1. "too deep" # "misaligned"
      BY Zenon
    <3>2. \A d \in msgs : d[1] = "too deep"
      BY OneMessage, Zenon
    <3> QED BY <3>1, <3>2, Zenon
  <2> HIDE DEF msgs
  <2>3. diags \subseteq diags' /\ diags' \subseteq diags \cup (UnitReport \cup msgs)
    BY <2>1, Reported
  <2> QED BY <1>u, <2>2, <2>3
<1>5. CASE OpenBlock
  <2>1. Emit(<<"INDENT">>, pos, UnitReport, {}, "body")
    BY <1>5 DEF OpenBlock
  <2>2. /\ diags \subseteq diags'
        /\ \A d \in diags' : d \in diags \cup UnitReport \cup {} \/ d[1] = "invalid"
    BY <2>1, EmitReported
  <2> QED BY <1>u, <2>2
<1>6. CASE CloseBlocks
  <2>1. PICK k \in 1..Level :
          LET keep == IF ClosesEqual(k) THEN k - 1 ELSE k
          IN  Emit(Dedents(Level - keep), pos, UnitReport,
                   IF Misaligned(k) THEN {<<"misaligned", pos>>} ELSE {}, "body")
    BY <1>6 DEF CloseBlocks
  <2> DEFINE after == IF Misaligned(k) THEN {<<"misaligned", pos>>} ELSE {}
             kinds == Dedents(Level - (IF ClosesEqual(k) THEN k - 1 ELSE k))
  <2>2. Emit(kinds, pos, UnitReport, after, "body")
    BY <2>1
  <2>3. \A d \in after : d[2] = pos
    OBVIOUS
  <2> HIDE DEF after, kinds
  <2>4. /\ diags \subseteq diags'
        /\ \A d \in diags' : d \in diags \cup UnitReport \cup after \/ d[1] = "invalid"
    BY <2>2, EmitReported
  <2> QED BY <1>6, <1>u, <2>3, <2>4
<1>7. ASSUME NEW kinds, NEW p, NEW next, Emit(kinds, p, {}, {}, next) PROVE Fine
  <2>1. /\ diags \subseteq diags'
        /\ \A d \in diags' : d \in diags \cup {} \cup {} \/ d[1] = "invalid"
    BY <1>7, EmitReported
  <2> QED BY <2>1
<1> HIDE DEF Fine
<1>8. CASE FinishPhysicalLine
  <2>1. PICK p : Emit(SemicolonDue \o NewlineDue, p, {}, {}, "top")
    BY <1>8 DEF FinishPhysicalLine
  <2> QED BY <1>7, <2>1 DEF Fine
<1>9. CASE Scan
  <2>1. PICK p : \E kinds \in ScanEmits(src[p]) : Emit(kinds, p, {}, {}, "top")
    BY <1>9 DEF Scan
  <2> QED BY <1>7, <2>1 DEF Fine
<1>10. CASE FinishStream
  <2>1. Emit((IF NewlineAware THEN EofLayout ELSE <<>>) \o <<"EOF">>, pos, {}, {}, "done")
    BY <1>10 DEF FinishStream
  <2> QED BY <1>7, <2>1 DEF Fine
<1>11. BeginIteration \/ MeasureIndent \/ ReachEnd \/ UNCHANGED vars => diags' = diags
  BY DEF BeginIteration, MeasureIndent, ReachEnd, vars
<1> QED BY <1>1, <1>2, <1>3, <1>4, <1>5, <1>6, <1>8, <1>9, <1>10, <1>11 DEF Next, Returned, Fine

\* A misaligned dedent is reported where its line is measured, once.
DiagsBehind ==
  Reading => \A d \in diags : d[1] = "misaligned" =>
    d[2] \in Nat /\ d[2] <= pos /\ (phase # "body" => d[2] < pos)

LEMMA DiagsBehindStep ==
  ASSUME TypeOK, DiagsBehind, [Next]_vars
  PROVE  DiagsBehind'
<1> SUFFICES ASSUME Reading', NEW d \in diags', d[1] = "misaligned"
             PROVE  d[2] \in Nat /\ d[2] <= pos' /\ (phase' # "body" => d[2] < pos')
  BY DEF DiagsBehind
<1>t. pos \in Nat /\ pos \in 1..Len(src) + 1 /\ Len(src) \in Nat
  BY DEF TypeOK
<1>1. d \in diags \/ (CloseBlocks /\ d[2] = pos)
  BY DiagsGrow
<1>2. CASE CloseBlocks
  <2>1. phase' = "body" /\ pos' = pos /\ phase = "indent"
    BY <1>2, MeasuredEnds DEF Reading, layoutUnchanged, Measured
  <2>2. d \in diags => d[2] \in Nat /\ d[2] <= pos
    BY <2>1 DEF DiagsBehind, Reading
  <2> QED BY <1>1, <1>t, <2>1, <2>2
<1>3. CASE ~CloseBlocks
  <2>0. d \in diags
    BY <1>1, <1>3
  <2>1. CASE UNCHANGED vars
    BY <2>0, <2>1 DEF vars, DiagsBehind, Reading
  <2>2. CASE BeginIteration \/ SkipLayout \/ IndentTooDeep \/ OpenBlock
    <3>1. pos' = pos /\ phase \in {"top", "indent"}
      BY <2>2, MeasuredEnds DEF BeginIteration, layoutUnchanged, Measured
    <3>2. d[2] \in Nat /\ d[2] <= pos /\ d[2] < pos
      BY <2>0, <3>1 DEF DiagsBehind, Reading
    <3> QED BY <1>t, <3>1, <3>2
  <2>3. ASSUME Reading, NEW end \in Nat, pos' = end, pos < end
        PROVE  d[2] \in Nat /\ d[2] <= pos' /\ (phase' # "body" => d[2] < pos')
    <3>1. d[2] \in Nat /\ d[2] <= pos
      BY <2>0, <2>3 DEF DiagsBehind
    <3>2. d[2] <= end /\ d[2] < end
      BY <1>t, <2>3, <3>1
    <3> QED BY <2>3, <3>1, <3>2
  <2>4. CASE MeasureIndent
    <3>1. pos' = pos + 1 /\ Reading /\ pos + 1 \in Nat /\ pos < pos + 1
      BY <1>t, <2>4 DEF MeasureIndent, Reading
    <3> QED BY <2>3, <3>1
  <2>5. CASE FinishPhysicalLine
    <3>1. PICK p \in pos..Len(src) : pos' = p + 1
      BY <2>5 DEF FinishPhysicalLine
    <3>2. Reading /\ p + 1 \in Nat /\ pos < p + 1
      BY <1>t, <2>5, <3>1 DEF FinishPhysicalLine, Reading
    <3> QED BY <2>3, <3>1, <3>2
  <2>6. CASE Scan
    <3>1. PICK p \in pos..Len(src), end \in Nat : pos' = end /\ p < end
      BY <2>6, ScanAdvances
    <3>2. Reading /\ pos < end
      BY <1>t, <2>6, <3>1 DEF Scan, Reading
    <3> QED BY <2>3, <3>1, <3>2
  <2>7. ~(TruncateAtCeiling \/ ReachEnd \/ FinishStream)
    BY DEF TruncateAtCeiling, ReachEnd, FinishStream, Emit, PushAll, PushFails, Reading
  <2> QED BY <1>3, <2>1, <2>2, <2>4, <2>5, <2>6, <2>7 DEF Next, Returned
<1> QED BY <1>2, <1>3
-----------------------------------------------------------------------------
(* What measuring a line does to the stack.                                *)

LEMMA StackFacts ==
  ASSUME TypeOK, ColumnsIncrease
  PROVE  /\ Level \in Nat /\ Level >= 1 /\ col \in Nat
         /\ \A i \in 1..Level : indentStack[i] \in Nat /\ indentStack[i] \in OpenCols
         /\ \A i, j \in 1..Level : i < j => indentStack[i] < indentStack[j]
         /\ \A c \in OpenCols : c \in Nat /\ c <= indentStack[Level]
         /\ 0 \in OpenCols
<1>1. Level \in Nat /\ Level >= 1 /\ col \in Nat /\ indentStack \in Seq(Nat) /\ Level = Len(indentStack)
  BY ConstantsOK DEF TypeOK, Level
<1>2. \A i \in 1..Level : indentStack[i] \in Nat /\ indentStack[i] \in OpenCols
  BY <1>1 DEF OpenCols
<1>3. \A i, j \in 1..Level : i < j => indentStack[i] < indentStack[j]
  BY DEF ColumnsIncrease
<1>4. \A c \in OpenCols : c \in Nat /\ c <= indentStack[Level]
  <2> TAKE c \in OpenCols
  <2>1. PICK i \in 1..Level : c = indentStack[i]
    BY DEF OpenCols
  <2>2. i = Level \/ i < Level
    BY <1>1
  <2>3. indentStack[i] \in Nat /\ indentStack[Level] \in Nat
    BY <1>1, <1>2
  <2> QED BY <1>1, <1>3, <2>1, <2>2, <2>3
<1>5. 0 \in OpenCols
  <2>1. indentStack[1] = 0 /\ 1 \in 1..Level
    BY <1>1 DEF ColumnsIncrease
  <2> QED BY <1>2, <2>1
<1> QED BY <1>1, <1>2, <1>3, <1>4, <1>5

\* Opening a block adds the column, beyond all that are open.
LEMMA BlockOpened ==
  ASSUME TypeOK, ColumnsIncrease, OpenBlock
  PROVE  OpenCols' = OpenCols \cup {col} /\ \A c \in OpenCols : c < col
<1>1. col > indentStack[Level] /\ indentStack' = Append(indentStack, col)
  BY DEF OpenBlock, Deeper
<1>2. Level \in Nat /\ indentStack \in Seq(Nat) /\ Level = Len(indentStack) /\ col \in Nat
  BY StackFacts DEF TypeOK, Level
<1>3. /\ Level' = Level + 1 /\ indentStack'[Level + 1] = col
      /\ \A i \in 1..Level : indentStack'[i] = indentStack[i]
  BY <1>1, <1>2 DEF Level
<1>4. \A i : i \in 1..Level' <=> i \in 1..Level \/ i = Level + 1
  BY <1>2, <1>3
<1>5. OpenCols' = OpenCols \cup {col}
  BY <1>3, <1>4 DEF OpenCols
<1>6. \A c \in OpenCols : c < col
  <2> TAKE c \in OpenCols
  <2>1. c \in Nat /\ c <= indentStack[Level] /\ indentStack[Level] \in Nat
    BY StackFacts
  <2> QED BY <1>1, <1>2, <2>1
<1> QED BY <1>5, <1>6

MisalignedAt(p) == <<"misaligned", p>>

\* Closing blocks reports a column that is not open, and only such a one; when
\* equal columns do not close, the columns kept are those not beyond the line's.
LEMMA BlocksClosed ==
  ASSUME TypeOK, ColumnsIncrease, DiagsBehind, CloseBlocks, phase' = "body", ~cfg.mayFail
  PROVE  /\ MisalignedAt(pos) \in diags' => col \notin OpenCols'
         /\ ~cfg.equalCloses => /\ OpenCols' = {c \in OpenCols : c <= col}
                                /\ col \notin OpenCols => MisalignedAt(pos) \in diags'
<1>0. /\ Level \in Nat /\ Level >= 1 /\ col \in Nat /\ pos \in Nat
      /\ \A i \in 1..Level : indentStack[i] \in Nat
      /\ \A i, j \in 1..Level : i < j => indentStack[i] < indentStack[j]
      /\ indentStack \in Seq(Nat) /\ Level = Len(indentStack) /\ indentStack[1] = 0
  BY StackFacts DEF TypeOK, Level, ColumnsIncrease
<1>1. PICK k \in 1..Level :
        /\ PopsTo(k)
        /\ LET keep == IF ClosesEqual(k) THEN k - 1 ELSE k
           IN  /\ indentStack' = SubSeq(indentStack, 1, keep)
               /\ Emit(Dedents(Level - keep), pos, UnitReport,
                       IF Misaligned(k) THEN {<<"misaligned", pos>>} ELSE {}, "body")
  BY DEF CloseBlocks
<1> DEFINE keep == IF ClosesEqual(k) THEN k - 1 ELSE k
           after == IF Misaligned(k) THEN {MisalignedAt(pos)} ELSE {}
           kinds == Dedents(Level - keep)
<1>2. indentStack' = SubSeq(indentStack, 1, keep) /\ Emit(kinds, pos, UnitReport, after, "body")
  BY <1>1 DEF MisalignedAt
<1>3. /\ k = 1 \/ indentStack[k] <= col
      /\ \A j \in k + 1..Level : col < indentStack[j]
  BY <1>1 DEF PopsTo
<1>4. MisalignedAt(pos) \in diags' <=> Misaligned(k)
  <2>1. MisalignedAt(pos)[1] = "misaligned" /\ MisalignedAt(pos)[2] = pos
    BY DEF MisalignedAt
  <2>2. MisalignedAt(pos) \notin diags
    <3>1. phase = "indent"
      BY DEF CloseBlocks, Measured
    <3>2. MisalignedAt(pos) \in diags => pos < pos
      BY <2>1, <3>1 DEF DiagsBehind, Reading
    <3> QED BY <1>0, <3>2
  <2>3. MisalignedAt(pos) \notin UnitReport
    <3>1. \A d \in UnitReport : d[1] = "unit"
      BY DEF UnitReport
    <3> QED BY <2>1, <3>1
  <2>4. MisalignedAt(pos) \in after <=> Misaligned(k)
    OBVIOUS
  <2> HIDE DEF after, kinds
  <2>5. /\ \A d \in diags' : d \in diags \cup UnitReport \cup after \/ d[1] = "invalid"
        /\ UnitReport \cup after \subseteq diags'
    BY <1>2, EmitReported
  <2> QED BY <2>1, <2>2, <2>3, <2>4, <2>5
<1>5. CASE ClosesEqual(k)
  <2>1. cfg.equalCloses /\ ~Misaligned(k)
    BY <1>5 DEF ClosesEqual, Misaligned
  <2> QED BY <1>4, <2>1
<1>6. CASE ~ClosesEqual(k)
  <2>1. Level' = k /\ \A i \in 1..k : indentStack'[i] = indentStack[i]
    BY <1>0, <1>2, <1>6 DEF Level
  <2>2. \A i \in 1..Level : i \in 1..k <=> indentStack[i] <= col
    <3> TAKE i \in 1..Level
    <3>1. i \in Nat /\ i >= 1 /\ i <= Level /\ k \in Nat /\ k >= 1 /\ k <= Level
          /\ indentStack[i] \in Nat /\ indentStack[k] \in Nat
      BY <1>0
    <3>2. indentStack[k] <= col
      BY <1>0, <1>3, <3>1
    <3>3. i = k \/ i < k \/ i > k
      BY <3>1
    <3>4. i < k => indentStack[i] < indentStack[k]
      BY <1>0
    <3>5. i > k => col < indentStack[i]
      <4>1. i > k => i \in k + 1..Level
        BY <3>1
      <4> QED BY <1>3, <4>1
    <3> QED BY <1>0, <3>1, <3>2, <3>3, <3>4, <3>5
  <2>3. 1..k \subseteq 1..Level
    BY <1>0
  <2>4. OpenCols' = {indentStack[i] : i \in 1..k}
    BY <2>1 DEF OpenCols
  <2>5. OpenCols' = {c \in OpenCols : c <= col}
    BY <2>2, <2>3, <2>4 DEF OpenCols
  <2>6. Misaligned(k) <=> col \notin OpenCols'
    <3>1. Misaligned(k) <=> col # indentStack[k]
      BY <1>6 DEF Misaligned
    <3>2. indentStack[k] \in OpenCols'
      BY <1>0, <2>4
    <3>3. \A i \in 1..k : indentStack[i] = col => i = k
      <4> TAKE i \in 1..k
      <4> HAVE indentStack[i] = col
      <4>1. i \in Nat /\ k \in Nat /\ i <= k /\ i \in 1..Level /\ indentStack[k] \in Nat
        BY <1>0
      <4>2. indentStack[k] <= col
        BY <1>0, <1>3, <4>1
      <4>3. i < k => col < indentStack[k]
        BY <1>0, <4>1
      <4> QED BY <1>0, <4>1, <4>2, <4>3
    <3> QED BY <2>4, <3>1, <3>2, <3>3
  <2>7. col \in OpenCols' <=> col \in OpenCols
    BY <1>0, <2>5
  <2> QED BY <1>4, <2>5, <2>6, <2>7
<1> QED BY <1>5, <1>6

TooDeepAt(p) == <<"too deep", p>>

\* A line deeper than the nesting limit is reported, when no report is lost.
LEMMA TooDeepReported ==
  ASSUME IndentTooDeep, ~cfg.mayFail
  PROVE  TooDeepAt(pos) \in diags'
<1> DEFINE msgs == {TooDeepAt(pos)}
<1>1. Report(UnitReport \cup msgs)
  BY Zenon DEF IndentTooDeep, TooDeepAt
<1>2. TooDeepAt(pos) \in msgs
  OBVIOUS
<1> HIDE DEF msgs
<1>3. diags' = diags \cup (UnitReport \cup msgs)
  BY <1>1, Reported
<1> QED BY <1>2, <1>3

MisalignedStated ==
  phase = "body" /\ cfg.offside /\ ~cfg.mayFail =>
    \A l \in LayoutLines :
      LineHead(l) = pos /\ atLineStart /\ TooDeepAt(pos) \notin diags =>
        /\ MisalignedAt(pos) \in diags => Column(l) \notin OpenCols
        /\ Column(l) \notin OpenCols /\ ~cfg.equalCloses => MisalignedAt(pos) \in diags

LEMMA MisalignedStep ==
  ASSUME TypeOK, ColumnsIncrease, HeadsKnown, DiagsBehind, MisalignedStated, [Next]_vars
  PROVE  MisalignedStated'
<1>s. src' = src /\ cfg' = cfg
  BY CallFixed
<1>l. LayoutLines' = LayoutLines /\ \A l : LineHead(l)' = LineHead(l) /\ Column(l)' = Column(l)
  BY <1>s, LayoutStays
<1> SUFFICES ASSUME phase' = "body", cfg.offside, ~cfg.mayFail, NEW l \in LayoutLines,
                    LineHead(l) = pos', atLineStart', TooDeepAt(pos') \notin diags'
             PROVE  /\ MisalignedAt(pos') \in diags' => Column(l) \notin OpenCols'
                    /\ Column(l) \notin OpenCols' /\ ~cfg.equalCloses =>
                         MisalignedAt(pos') \in diags'
  <2>1. \A p : TooDeepAt(p)' = TooDeepAt(p) /\ MisalignedAt(p)' = MisalignedAt(p)
    BY Zenon DEF TooDeepAt, MisalignedAt
  <2>2. TooDeepAt(pos)' = TooDeepAt(pos') /\ MisalignedAt(pos)' = MisalignedAt(pos')
    BY Zenon DEF TooDeepAt, MisalignedAt
  <2> QED BY <1>s, <1>l, <2>2 DEF MisalignedStated
<1>1. CASE UNCHANGED vars
  <2>1. phase' = phase /\ pos' = pos /\ diags' = diags /\ indentStack' = indentStack
        /\ atLineStart' = atLineStart
    BY <1>1 DEF vars
  <2>2. OpenCols' = OpenCols
    BY <2>1 DEF OpenCols, Level
  <2> QED BY <2>1, <2>2 DEF MisalignedStated
<1>2. CASE SkipLayout \/ IndentTooDeep \/ OpenBlock \/ CloseBlocks
  <2>1. Measured /\ pos' = pos
    BY <1>2, MeasuredEnds DEF layoutUnchanged
  <2>2. Column(l) = col /\ CodeAhead
    <3>1. PICK m \in LineStarts :
            /\ col = Column(m)
            /\ \A n \in LineStarts : n <= pos => n = m \/ (n < m /\ LineHead(n) < pos)
      BY <2>1, LineMeasured
    <3>2. /\ l \in LineStarts /\ l <= LineHead(l) /\ LineHead(l) <= Len(src)
          /\ src[LineHead(l)] \notin {"nl", "lc"}
      BY HeadOK DEF LayoutLines
    <3>3. pos \in Nat /\ Len(src) \in Nat /\ LineHead(l) = pos /\ l <= pos
      BY <2>1, <3>2 DEF TypeOK
    <3>4. l = m
      BY <3>1, <3>2, <3>3
    <3> QED BY <3>1, <3>2, <3>3, <3>4 DEF CodeAhead, AtEnd
  <2>3. CASE SkipLayout
    BY <2>2, <2>3 DEF SkipLayout
  <2>4. CASE IndentTooDeep
    BY <2>1, <2>4, TooDeepReported
  <2>5. CASE OpenBlock
    <3>1. col \in OpenCols'
      BY <2>5, BlockOpened
    <3>2. MisalignedAt(pos) \notin diags'
      <4>1. MisalignedAt(pos)[1] = "misaligned" /\ MisalignedAt(pos)[2] = pos
        BY DEF MisalignedAt
      <4>2. phase = "indent" /\ pos \in Nat
        BY <2>1 DEF Measured, TypeOK
      <4>3. MisalignedAt(pos) \notin diags
        <5>1. MisalignedAt(pos) \in diags => pos < pos
          BY <4>1, <4>2 DEF DiagsBehind, Reading
        <5> QED BY <4>2, <5>1
      <4>4. ~CloseBlocks
        BY <2>5 DEF OpenBlock, CloseBlocks
      <4> QED BY <4>1, <4>3, <4>4, DiagsGrow
    <3> QED BY <2>1, <2>2, <3>1, <3>2
  <2>6. CASE CloseBlocks
    <3>1. /\ MisalignedAt(pos) \in diags' => col \notin OpenCols'
          /\ ~cfg.equalCloses => /\ OpenCols' = {c \in OpenCols : c <= col}
                                 /\ col \notin OpenCols => MisalignedAt(pos) \in diags'
      BY <2>6, BlocksClosed
    <3>2. col <= col
      BY DEF TypeOK
    <3> QED BY <2>1, <2>2, <3>1, <3>2
  <2> QED BY <1>2, <2>3, <2>4, <2>5, <2>6
<1>3. ~BeginIteration
  BY DEF BeginIteration
<1>4. ~(TruncateAtCeiling \/ MeasureIndent \/ ReachEnd \/ FinishPhysicalLine \/ Scan \/ FinishStream)
  BY DEF TruncateAtCeiling, MeasureIndent, ReachEnd, FinishPhysicalLine, Scan, FinishStream,
         Emit, PushAll, PushFails
<1> QED BY <1>1, <1>2, <1>3, <1>4 DEF Next, Returned

LEMMA HeadsCorrect == Spec => [](HeadsKnown /\ DiagsBehind)
<1>1. Init => HeadsKnown /\ DiagsBehind
  <2> SUFFICES ASSUME Init PROVE HeadsKnown /\ DiagsBehind
    OBVIOUS
  <2>1. pos = 1 /\ phase = "top" /\ atLineStart = TRUE /\ diags = {}
    BY DEF Init
  <2>2. OnHead(1)
    <3>1. Len(src) \in Nat
      BY TypeStart DEF TypeOK
    <3> QED BY <2>1, <3>1 DEF OnHead, LineAt, LineStarts
  <2> QED BY <2>1, <2>2 DEF HeadsKnown, Handled, DiagsBehind
<1>2. TypeOK /\ HeadsKnown /\ DiagsBehind /\ [Next]_vars => (HeadsKnown /\ DiagsBehind)'
  BY HeadsKnownStep, DiagsBehindStep
<1> QED BY <1>1, <1>2, TypeCorrect, PTL DEF Spec

\* When a line has been measured and no diagnostic was lost, "misaligned" stands
\* at its head exactly when its column is none of those still open: the test of
\* handle_offside_line_start reads the level left by its pops
\* (src/src/lexer.c:1054).
THEOREM MisalignedAlwaysReported == Spec => []MisalignedReported
<1>1. Init => MisalignedStated
  BY DEF Init, MisalignedStated
<1>2. TypeOK /\ ColumnsIncrease /\ HeadsKnown /\ DiagsBehind /\ MisalignedStated /\ [Next]_vars
        => MisalignedStated'
  BY MisalignedStep
<1>3. MisalignedStated => MisalignedReported
  BY Zenon DEF MisalignedStated, MisalignedReported, TooDeepAt, MisalignedAt
<1> QED BY <1>1, <1>2, <1>3, TypeCorrect, ColumnsOrdered, HeadsCorrect, PTL DEF Spec
-----------------------------------------------------------------------------
(* The stack and the source.                                               *)

\* The lines whose layout has been handled.
Seen == {m \in LayoutLines : LineHead(m) < pos \/ (LineHead(m) = pos /\ Handled)}
\* Those of S that no later line of S has gone below.
Kept(S) == {l \in S : \A m \in S : m > l => Column(m) >= Column(l)}

\* Nothing the source or the limits do disturbs the blocks.
Plainly ==
  /\ cfg.offside /\ ~cfg.equalCloses /\ ~cfg.mayFail
  /\ \A l \in LayoutLines : Aligned(l)
  /\ \A p : TooDeepAt(p) \notin diags

StackKept ==
  Plainly /\ Reading => OpenCols = {0} \cup {Column(m) : m \in Kept(Seen)}

LEMMA LinesTyped ==
  ASSUME TypeOK, NEW l \in LayoutLines
  PROVE  /\ l \in LineStarts /\ l \in Nat /\ l >= 1 /\ LineHead(l) \in Nat /\ Column(l) \in Nat
         /\ l <= LineHead(l) /\ LineHead(l) <= Len(src) /\ src[LineHead(l)] \notin {"nl", "lc"}
<1>1. l \in LineStarts /\ LineHead(l) <= Len(src) /\ src[LineHead(l)] \notin {"nl", "lc"}
  BY DEF LayoutLines
<1>2. l \in Nat /\ l >= 1 /\ l <= Len(src) + 1 /\ Len(src) \in Nat
  BY <1>1, StartsTyped
<1>3. LineHead(l) \in Nat /\ l <= LineHead(l)
  BY <1>1, HeadOK
<1>4. LineHead(l) \in l..Len(src) + 1
  BY <1>1, <1>2, <1>3
<1>5. Column(l) \in Nat
  BY <1>2, <1>4, WidthOK DEF Column
<1> QED BY <1>1, <1>2, <1>3, <1>5

LEMMA SeenHandled ==
  ASSUME TypeOK, Handled
  PROVE  Seen = {m \in LayoutLines : LineHead(m) <= pos}
<1>1. pos \in Nat
  BY DEF TypeOK
<1>2. \A m \in LayoutLines : LineHead(m) \in Nat
  BY LinesTyped
<1>3. \A m \in LayoutLines : LineHead(m) <= pos <=> LineHead(m) < pos \/ LineHead(m) = pos
  BY <1>1, <1>2
<1> QED BY <1>3 DEF Seen

\* A new last line drops the kept lines that are deeper and is kept itself.
LEMMA KeptGrows ==
  ASSUME TypeOK, NEW S \in SUBSET LayoutLines, NEW l \in LayoutLines, \A m \in S : m < l
  PROVE  {Column(m) : m \in Kept(S \cup {l})}
           = {c \in {Column(m) : m \in Kept(S)} : c <= Column(l)} \cup {Column(l)}
<1>1. \A m \in S : m < l /\ ~(l < m) /\ m # l /\ m \in Nat /\ Column(m) \in Nat
  <2> TAKE m \in S
  <2>1. m \in Nat /\ l \in Nat /\ m < l /\ Column(m) \in Nat
    BY LinesTyped
  <2> QED BY <2>1
<1>2. l \in Nat /\ Column(l) \in Nat
  BY LinesTyped
<1>3. \A m \in S : m \in Kept(S \cup {l}) <=> m \in Kept(S) /\ Column(m) <= Column(l)
  BY <1>1, <1>2 DEF Kept
<1>4. l \in Kept(S \cup {l})
  BY <1>1, <1>2 DEF Kept
<1>5. Kept(S \cup {l}) \subseteq S \cup {l} /\ Kept(S) \subseteq S
  BY DEF Kept
<1>6. Kept(S \cup {l}) = {m \in Kept(S) : Column(m) <= Column(l)} \cup {l}
  BY <1>3, <1>4, <1>5
<1>7. {Column(m) : m \in Kept(S \cup {l})}
        = {Column(m) : m \in {n \in Kept(S) : Column(n) <= Column(l)}} \cup {Column(l)}
  BY <1>6
<1> QED BY <1>7

\* A set of lines has a last one.
LEMMA LastLine ==
  ASSUME TypeOK, NEW S \in SUBSET LayoutLines, S # {}
  PROVE  \E m \in S : \A n \in S : n <= m
<1> DEFINE N == Len(src)
           T == {N - m : m \in S}
<1>1. N \in Nat /\ \A m \in S : m \in Nat /\ m <= N
  <2>1. N \in Nat
    BY DEF TypeOK
  <2>2. ASSUME NEW m \in S PROVE m \in Nat /\ m <= N
    <3>1. m \in Nat /\ LineHead(m) \in Nat /\ m <= LineHead(m) /\ LineHead(m) <= N
      BY LinesTyped
    <3> QED BY <2>1, <3>1
  <2> QED BY <2>1, <2>2
<1> HIDE DEF N
<1>2. T \in SUBSET Nat /\ T # {}
  BY <1>1
<1>3. PICK x \in T : \A y \in T : x <= y
  <2> HIDE DEF T
  <2> QED BY <1>2, LeastNumber
<1>4. PICK m \in S : x = N - m
  OBVIOUS
<1>5. \A n \in S : n <= m
  <2> TAKE n \in S
  <2>1. N - m <= N - n
    BY <1>3, <1>4
  <2> QED BY <1>1, <2>1
<1> QED BY <1>5

\* On an aligned source a line that is no deeper than the deepest open column
\* goes back to a column that is open.
LEMMA AlignedIsOpen ==
  ASSUME TypeOK, ColumnsIncrease, NEW l \in LayoutLines, Aligned(l),
         NEW S, S = {m \in LayoutLines : m < l},
         OpenCols = {0} \cup {Column(m) : m \in Kept(S)},
         Column(l) <= indentStack[Level]
  PROVE  Column(l) \in OpenCols
<1>1. Column(l) \in Nat /\ l \in Nat /\ 0 \in OpenCols /\ indentStack[Level] \in OpenCols
      /\ indentStack[Level] \in Nat
  <2>1. Column(l) \in Nat /\ l \in Nat
    BY LinesTyped
  <2>2. Level \in Nat /\ Level >= 1 /\ 0 \in OpenCols
        /\ \A i \in 1..Level : indentStack[i] \in Nat /\ indentStack[i] \in OpenCols
    BY StackFacts
  <2>3. Level \in 1..Level
    BY <2>2
  <2> QED BY <2>1, <2>2, <2>3
<1>2. S \in SUBSET LayoutLines /\ \A m \in S : m \in Nat /\ Column(m) \in Nat
  BY LinesTyped
<1>3. CASE Column(l) = 0
  BY <1>1, <1>3
<1>4. CASE \A m \in S : (\A n \in S : n <= m) => Column(m) <= Column(l)
  <2>1. CASE S = {}
    <3>1. Kept(S) = {}
      BY <2>1 DEF Kept
    <3>2. OpenCols = {0}
      BY <3>1
    <3> QED BY <1>1, <3>2
  <2>2. CASE S # {}
    <3>1. PICK m \in S : \A n \in S : n <= m
      BY <1>2, <2>2, LastLine
    <3>2. m \in Kept(S)
      BY <1>2, <3>1 DEF Kept
    <3>3. Column(m) \in OpenCols /\ Column(m) <= Column(l)
      BY <1>4, <3>1, <3>2
    <3>4. CASE indentStack[Level] = 0
      BY <1>1, <3>4
    <3>5. CASE indentStack[Level] # 0
      <4>1. PICK n \in Kept(S) : indentStack[Level] = Column(n)
        BY <1>1, <3>5
      <4>2. n \in S /\ n <= m /\ (m > n => Column(m) >= Column(n))
        BY <3>1, <4>1 DEF Kept
      <4>3. Column(n) <= Column(m)
        BY <1>2, <3>1, <4>2
      <4>4. Column(l) = Column(m)
        BY <1>1, <1>2, <3>1, <3>3, <4>1, <4>2, <4>3
      <4> QED BY <3>3, <4>4
    <3> QED BY <3>4, <3>5
  <2> QED BY <2>1, <2>2
<1>5. CASE \E k \in S : Column(k) = Column(l) /\ \A m \in S : m > k => Column(m) >= Column(l)
  <2>1. PICK k \in S : Column(k) = Column(l) /\ \A m \in S : m > k => Column(m) >= Column(l)
    BY <1>5
  <2>2. k \in Kept(S)
    BY <2>1 DEF Kept
  <2> QED BY <2>1, <2>2
<1> QED BY <1>3, <1>4, <1>5 DEF Aligned

\* Once a line with code is measured it is seen; the lines seen before are the
\* layout lines before it.
LEMMA SeenGrows ==
  ASSUME TypeOK, HeadsKnown, Measured, CodeAhead
  PROVE  \E l \in LayoutLines :
           /\ col = Column(l) /\ Seen = {m \in LayoutLines : m < l}
           /\ {m \in LayoutLines : LineHead(m) <= pos} = Seen \cup {l}
<1>t. pos \in Nat /\ pos \in 1..Len(src) + 1 /\ Len(src) \in Nat
  BY DEF TypeOK
<1>1. PICK l \in LineStarts :
        /\ LineHead(l) = pos /\ col = Column(l) /\ l <= pos
        /\ \A m \in LineStarts : m <= pos => m = l \/ (m < l /\ LineHead(m) < pos)
  BY LineMeasured
<1>2. l \in LayoutLines /\ l \in Nat
  BY <1>1, <1>t, StartsTyped DEF CodeAhead, AtEnd, LayoutLines
<1>3. ~Handled
  BY DEF Measured, HeadsKnown, Handled
<1>4. ASSUME NEW m \in LayoutLines
      PROVE  /\ LineHead(m) <= pos <=> m < l \/ m = l
             /\ LineHead(m) < pos <=> m < l
  <2>1. m \in LineStarts /\ m \in Nat /\ LineHead(m) \in Nat /\ m <= LineHead(m)
    BY LinesTyped
  <2>2. m <= pos => m = l \/ (m < l /\ LineHead(m) < pos)
    BY <1>1, <2>1
  <2> QED BY <1>1, <1>2, <1>t, <2>1, <2>2
<1>5. Seen = {m \in LayoutLines : m < l}
  BY <1>3, <1>4 DEF Seen
<1>6. {m \in LayoutLines : LineHead(m) <= pos} = Seen \cup {l}
  BY <1>2, <1>4, <1>5
<1> QED BY <1>1, <1>2, <1>5, <1>6

LEMMA StackKeptStep ==
  ASSUME TypeOK, ColumnsIncrease, HeadsKnown, DiagsBehind, StackKept, [Next]_vars
  PROVE  StackKept'
<1>s. src' = src /\ cfg' = cfg
  BY CallFixed
<1>l. LayoutLines' = LayoutLines /\ \A l : LineHead(l)' = LineHead(l) /\ Column(l)' = Column(l)
  BY <1>s, LayoutStays
<1>k. \A S : Kept(S)' = Kept(S)
  BY <1>l DEF Kept
<1>t. pos \in Nat /\ pos \in 1..Len(src) + 1 /\ Len(src) \in Nat
  BY DEF TypeOK
<1> SUFFICES ASSUME Plainly', Reading'
             PROVE  OpenCols' = {0} \cup {Column(m) : m \in Kept(Seen')}
  <2>1. {Column(m) : m \in Kept(Seen)}' = {Column(m) : m \in Kept(Seen')}
    <3>1. Kept(Seen)' = Kept(Seen')
      BY <1>l DEF Kept
    <3> QED BY <1>l, <3>1
  <2> QED BY <2>1 DEF StackKept
<1>p. /\ cfg.offside /\ ~cfg.equalCloses /\ ~cfg.mayFail
      /\ \A l \in LayoutLines : Aligned(l)
      /\ \A p : TooDeepAt(p) \notin diags'
  <2>1. \A l : Aligned(l)' <=> Aligned(l)
    BY <1>s, LayoutStays
  <2>2. \A p : TooDeepAt(p)' = TooDeepAt(p)
    BY Zenon DEF TooDeepAt
  <2> QED BY <1>s, <1>l, <2>1, <2>2 DEF Plainly
<1>q. Plainly
  <2>1. diags \subseteq diags'
    BY DiagsGrow
  <2> QED BY <1>p, <2>1 DEF Plainly
\* The lines seen and the stack stay as they are.
<1>0. ASSUME Reading, Seen' = Seen, indentStack' = indentStack
      PROVE  OpenCols' = {0} \cup {Column(m) : m \in Kept(Seen')}
  <2>1. OpenCols' = OpenCols
    BY <1>0 DEF OpenCols, Level
  <2> QED BY <1>0, <1>q, <2>1 DEF StackKept
<1>h. ASSUME Handled, Reading PROVE \A m \in LayoutLines : m <= pos => LineHead(m) <= pos
  BY <1>h, <1>p, LinesTyped DEF HeadsKnown
<1>1. CASE UNCHANGED vars
  <2>1. Reading /\ indentStack' = indentStack /\ pos' = pos /\ (Handled' <=> Handled)
    BY <1>1 DEF vars, Reading, Handled
  <2>2. Seen' = Seen
    BY <1>l, <2>1 DEF Seen
  <2> QED BY <1>0, <2>1, <2>2
<1>2. CASE BeginIteration
  <2>1. Reading /\ indentStack' = indentStack /\ pos' = pos /\ (Handled' <=> Handled)
    BY <1>2, <1>p DEF BeginIteration, Reading, Handled
  <2>2. Seen' = Seen
    BY <1>l, <2>1 DEF Seen
  <2> QED BY <1>0, <2>1, <2>2
<1>3. CASE MeasureIndent
  <2>1. /\ phase = "indent" /\ phase' = "indent" /\ atLineStart' = atLineStart /\ pos' = pos + 1
        /\ pos <= Len(src) /\ src[pos] \in Units /\ indentStack' = indentStack
    BY <1>3, <1>t DEF MeasureIndent, OnUnit, AtEnd
  <2>2. ~Handled /\ ~Handled' /\ Reading
    BY <2>1 DEF HeadsKnown, Handled, Reading
  <2>3. \A m \in LayoutLines : LineHead(m) < pos + 1 <=> LineHead(m) < pos
    <3> TAKE m \in LayoutLines
    <3>1. LineHead(m) \in Nat /\ RunEnds(Units, m, LineHead(m)) /\ LineHead(m) <= Len(src)
      BY LinesTyped, HeadOK
    <3>2. src[LineHead(m)] \notin Units
      BY <1>t, <3>1 DEF RunEnds, AtEnd
    <3>3. LineHead(m) # pos
      BY <2>1, <3>2
    <3> QED BY <1>t, <3>1, <3>3
  <2>4. Seen' = Seen
    BY <1>l, <2>1, <2>2, <2>3 DEF Seen
  <2> QED BY <1>0, <2>1, <2>2, <2>4
<1>4. CASE SkipLayout \/ IndentTooDeep \/ OpenBlock \/ CloseBlocks
  <2>1. Measured /\ pos' = pos /\ phase' = "body" /\ Reading /\ Handled'
    BY <1>4, MeasuredEnds DEF layoutUnchanged, Reading, Handled, Measured
  <2>2. Seen' = {m \in LayoutLines : LineHead(m) <= pos}
    <3>1. \A m \in LayoutLines : LineHead(m) \in Nat
      BY LinesTyped
    <3>2. \A m \in LayoutLines : LineHead(m) <= pos <=> LineHead(m) < pos \/ LineHead(m) = pos
      BY <1>t, <3>1
    <3> QED BY <1>l, <2>1, <3>2 DEF Seen
  <2>3. CASE SkipLayout
    <3>1. ~CodeAhead /\ indentStack' = indentStack
      BY <2>3 DEF SkipLayout
    <3>2. \A m \in LayoutLines : LineHead(m) # pos /\ LineHead(m) \in Nat
      BY <3>1, <1>t, LinesTyped DEF CodeAhead, AtEnd
    <3>3. \A m \in LayoutLines : LineHead(m) <= pos <=> LineHead(m) < pos
      BY <1>t, <3>2
    <3>4. Seen' = Seen
      BY <2>2, <3>2, <3>3 DEF Seen
    <3> QED BY <1>0, <2>1, <3>1, <3>4
  <2>4. CASE IndentTooDeep
    BY <1>p, <2>4, TooDeepReported
  <2>5. ASSUME CodeAhead
        PROVE  \E l \in LayoutLines :
                 /\ col = Column(l) /\ Seen = {m \in LayoutLines : m < l}
                 /\ {Column(m) : m \in Kept(Seen')}
                      = {c \in {Column(m) : m \in Kept(Seen)} : c <= col} \cup {col}
    <3>1. PICK l \in LayoutLines :
            /\ col = Column(l) /\ Seen = {m \in LayoutLines : m < l}
            /\ {m \in LayoutLines : LineHead(m) <= pos} = Seen \cup {l}
      BY <2>1, <2>5, SeenGrows
    <3>2. Seen' = Seen \cup {l} /\ Seen \in SUBSET LayoutLines /\ \A m \in Seen : m < l
      BY <2>2, <3>1
    <3>3. {Column(m) : m \in Kept(Seen \cup {l})}
            = {c \in {Column(m) : m \in Kept(Seen)} : c <= Column(l)} \cup {Column(l)}
      BY <3>2, KeptGrows
    <3> QED BY <3>1, <3>2, <3>3
  <2>6. OpenCols = {0} \cup {Column(m) : m \in Kept(Seen)}
    BY <1>q, <2>1 DEF StackKept
  <2>7. col \in Nat
    BY DEF TypeOK
  <2>8. CASE OpenBlock
    <3>1. OpenCols' = OpenCols \cup {col} /\ \A c \in OpenCols : c < col
      BY <2>8, BlockOpened
    <3>2. {Column(m) : m \in Kept(Seen')} = {c \in {Column(m) : m \in Kept(Seen)} : c <= col} \cup {col}
      BY <2>5, <2>8 DEF OpenBlock
    <3>3. \A c \in OpenCols : c \in Nat
      BY StackFacts
    <3>4. \A c \in OpenCols : c <= col
      BY <2>7, <3>1, <3>3
    <3> QED BY <2>6, <3>1, <3>2, <3>4
  <2>9. CASE CloseBlocks
    <3>1. PICK l \in LayoutLines :
            /\ col = Column(l) /\ Seen = {m \in LayoutLines : m < l}
            /\ {Column(m) : m \in Kept(Seen')}
                 = {c \in {Column(m) : m \in Kept(Seen)} : c <= col} \cup {col}
      BY <2>5, <2>9 DEF CloseBlocks
    <3>2. OpenCols' = {c \in OpenCols : c <= col}
      BY <1>p, <2>1, <2>9, BlocksClosed
    <3>3. indentStack[Level] \in Nat /\ ~(col > indentStack[Level])
      BY <2>9, StackFacts DEF CloseBlocks, Deeper
    <3>4. Column(l) <= indentStack[Level]
      BY <2>7, <3>1, <3>3
    <3>5. Aligned(l)
      BY <1>p
    <3>6. col \in OpenCols
      BY <2>6, <3>1, <3>4, <3>5, AlignedIsOpen
    <3>7. 0 <= col /\ col <= col
      BY <2>7
    <3> QED BY <2>6, <3>1, <3>2, <3>6, <3>7
  <2> QED BY <1>4, <2>3, <2>4, <2>8, <2>9
<1>5. CASE FinishPhysicalLine
  <2>1. PICK p \in pos..Len(src) : RunEnds(Skipped, pos, p) /\ src[p] = "nl" /\ pos' = p + 1
    BY <1>5 DEF FinishPhysicalLine
  <2>2. /\ phase = "body" /\ atLineStart' = TRUE /\ phase' = "top" /\ indentStack' = indentStack
        /\ NewlineAware
    BY <1>5 DEF FinishPhysicalLine, Emit, PushAll, PushFails, Reading
  <2>3. Handled /\ Reading /\ ~Handled'
    BY <2>2 DEF Handled, Reading
  <2>4. p \in Nat /\ pos <= p /\ pos >= 1
    BY <1>t, <2>1
  <2>5. \A i \in pos..p - 1 : src[i] # "nl"
    BY <2>1, <2>2 DEF RunEnds, Skipped, Blanks, Units
  <2>6. \A m \in LayoutLines :
          LineHead(m) < p + 1 <=> LineHead(m) < pos \/ LineHead(m) = pos
    <3> TAKE m \in LayoutLines
    <3>1. m \in LineStarts /\ m \in Nat /\ LineHead(m) \in Nat /\ m <= LineHead(m)
      BY LinesTyped
    <3>2. m <= p => m <= pos
      BY <1>t, <2>4, <2>5, <3>1, NoStart
    <3>3. m <= pos => LineHead(m) <= pos
      BY <1>h, <2>3
    <3> QED BY <1>t, <2>4, <3>1, <3>2, <3>3
  <2>7. Seen' = Seen
    BY <1>l, <2>1, <2>3, <2>6 DEF Seen
  <2> QED BY <1>0, <2>2, <2>3, <2>7
<1>6. CASE Scan
  <2>1. /\ phase = "body" /\ atLineStart' = FALSE /\ indentStack' = indentStack
        /\ Handled /\ Reading /\ Handled'
    BY <1>6 DEF Scan, Handled, Reading
  <2>2. PICK end \in Nat : end = pos' /\ pos < end /\ \A i \in pos..end - 1 : src[i] # "nl"
    BY <1>6, <1>p, ScanOnLine DEF NewlineAware
  <2>3. \A m \in LayoutLines :
          (LineHead(m) < end \/ LineHead(m) = end) <=> (LineHead(m) < pos \/ LineHead(m) = pos)
    <3> TAKE m \in LayoutLines
    <3>1. m \in LineStarts /\ m \in Nat /\ LineHead(m) \in Nat /\ m <= LineHead(m)
      BY LinesTyped
    <3>2. m <= end => m <= pos
      <4>1. pos <= end /\ pos >= 1
        BY <1>t, <2>2
      <4> QED BY <1>t, <2>2, <3>1, <4>1, NoStart
    <3>3. m <= pos => LineHead(m) <= pos
      BY <1>h, <2>1
    <3> QED BY <1>t, <2>2, <3>1, <3>2, <3>3
  <2>4. Seen' = Seen
    <3>1. Seen = {m \in LayoutLines : LineHead(m) < pos \/ LineHead(m) = pos}
      BY <2>1 DEF Seen
    <3>2. Seen' = {m \in LayoutLines : LineHead(m) < end \/ LineHead(m) = end}
      BY <1>l, <2>1, <2>2 DEF Seen
    <3> QED BY <2>3, <3>1, <3>2
  <2> QED BY <1>0, <2>1, <2>4
<1>7. ~(TruncateAtCeiling \/ ReachEnd \/ FinishStream)
  BY DEF TruncateAtCeiling, ReachEnd, FinishStream, Emit, PushAll, PushFails, Reading
<1> QED BY <1>1, <1>2, <1>3, <1>4, <1>5, <1>6, <1>7 DEF Next, Returned

\* On a source whose lines are all aligned, below the nesting limit, the open
\* columns are 0 and the columns of the lines so far that no later line has
\* gone below: the stack, after any number of pushes and of multiple pops, is
\* what the source says (src/src/lexer.c:998).
THEOREM OpenColumnsRight == Spec => []OpenColumns
<1>1. Init => StackKept
  <2> SUFFICES ASSUME Init PROVE StackKept
    OBVIOUS
  <2>1. pos = 1 /\ phase = "top" /\ atLineStart = TRUE /\ indentStack = <<0>>
    BY DEF Init
  <2>2. OpenCols = {0}
    BY <2>1 DEF OpenCols, Level
  <2>3. Seen = {}
    <3>1. TypeOK /\ ~Handled
      BY <2>1, TypeStart DEF Handled
    <3> QED BY <2>1, <3>1, LinesTyped DEF Seen
  <2>4. Kept(Seen) = {}
    BY <2>3 DEF Kept
  <2> QED BY <2>2, <2>4 DEF StackKept
<1>2. TypeOK /\ ColumnsIncrease /\ HeadsKnown /\ DiagsBehind /\ StackKept /\ [Next]_vars
        => StackKept'
  BY StackKeptStep
<1>3. TypeOK /\ StackKept => OpenColumns
  <2> SUFFICES ASSUME TypeOK, StackKept, phase = "body", cfg.offside, ~cfg.equalCloses,
                      ~cfg.mayFail, \A l \in LayoutLines : Aligned(l),
                      \A d \in diags : d[1] # "too deep"
               PROVE  OpenColumns
    BY Zenon DEF OpenColumns
  <2> DEFINE seen == {l \in LayoutLines : LineHead(l) <= pos}
             kept == {l \in seen : \A m \in seen : m > l => Column(m) >= Column(l)}
  <2>1. \A p : TooDeepAt(p)[1] = "too deep"
    BY OneMessage, Zenon DEF TooDeepAt
  <2>2. \A p : TooDeepAt(p) \notin diags
    BY <2>1, Zenon
  <2>3. Plainly /\ Reading /\ Handled
    BY <2>2 DEF Plainly, Reading, Handled
  <2>4. Seen = seen
    BY <2>3, SeenHandled, Zenon
  <2>5. Kept(Seen) = kept
    BY <2>4, Zenon DEF Kept
  <2> HIDE DEF kept
  <2>6. OpenCols = {0} \cup {Column(l) : l \in kept}
    BY <2>3, <2>5, Zenon DEF StackKept
  <2> QED BY <2>6, Zenon DEF OpenColumns, kept
<1> QED BY <1>1, <1>2, <1>3, TypeCorrect, ColumnsOrdered, HeadsCorrect, PTL DEF Spec
=============================================================================
