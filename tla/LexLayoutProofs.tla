--------------------------- MODULE LexLayoutProofs ---------------------------
(***************************************************************************)
(* What holds of the driver of LexLayout for every set of sources, every   *)
(* configuration, every token limit and every nesting limit: its types,    *)
(* the order of the open columns, the balance of INDENT and DEDENT, the    *)
(* end of the stream, and, when no scan emits more than one token, that    *)
(* the room kept below the token ceiling is enough to close it.            *)
(***************************************************************************)
EXTENDS LexLayout, TLAPS, FiniteSetTheorems, FunctionTheorems

Token == [kind : TokenKinds, at : Nat]
Messages == DiagKinds \X Nat

-----------------------------------------------------------------------------
(* Types.                                                                  *)

LEMMA TokensAtType ==
  ASSUME NEW kinds \in Seq(TokenKinds), NEW p \in Nat
  PROVE  /\ TokensAt(kinds, p) \in Seq(Token)
         /\ Len(TokensAt(kinds, p)) = Len(kinds)
         /\ \A i \in 1..Len(kinds) : TokensAt(kinds, p)[i].kind = kinds[i]
  BY DEF TokensAt, Token

LEMMA SubKinds ==
  ASSUME NEW kinds \in Seq(TokenKinds), NEW n \in 0..Len(kinds) - 1
  PROVE  SubSeq(kinds, 1, n) \in Seq(TokenKinds) /\ Len(SubSeq(kinds, 1, n)) = n
  OBVIOUS

LEMMA KindsSeq ==
  /\ <<>> \in Seq(TokenKinds) /\ Len(<<>>) = 0
  /\ \A k \in TokenKinds : <<k>> \in Seq(TokenKinds) /\ Len(<<k>>) = 1
                             /\ <<k>>[1] = k
  /\ \A k \in ScanKinds : <<k>> \in Seq(ScanKinds)
  /\ <<>> \in Seq(ScanKinds)
  /\ Seq(ScanKinds) \subseteq Seq(TokenKinds)
  BY DEF TokenKinds

\* A report only adds messages, and whatever is pushed is typed.
LEMMA ReportType ==
  ASSUME NEW msgs \in SUBSET Messages, diags \in SUBSET Messages, Report(msgs)
  PROVE  diags' \in SUBSET Messages
  BY ConstantsOK DEF Report

LEMMA MessageType ==
  ASSUME NEW d \in DiagKinds, NEW p \in Nat
  PROVE  {<<d, p>>} \in SUBSET Messages
  BY DEF Messages

LEMMA InvalidReportsType ==
  ASSUME NEW kinds, NEW p \in Nat
  PROVE  InvalidReports(kinds, p) \in SUBSET Messages
<1>1. "invalid" \in DiagKinds
  BY DEF DiagKinds
<1> QED BY <1>1, MessageType DEF InvalidReports

LEMMA EmitType ==
  ASSUME TypeOK,
         NEW kinds \in Seq(TokenKinds), NEW p \in Nat,
         NEW before \in SUBSET Messages, NEW after \in SUBSET Messages,
         NEW next \in Phases,
         Emit(kinds, p, before, after, next)
  PROVE  /\ tokens' \in Seq(Token)
         /\ diags' \in SUBSET Messages
         /\ phase' \in {next, "failed"}
         /\ phase' \in Phases
<1> USE DEF TypeOK, Phases
<1>t. tokens \in Seq(Token) /\ diags \in SUBSET Messages
  BY DEF Token, Messages
<1>1. CASE PushAll(kinds, p, before, after, next)
  <2>1. tokens' \in Seq(Token) /\ phase' = next
    BY <1>1, <1>t, TokensAtType DEF PushAll
  <2>2. before \cup InvalidReports(kinds, p) \cup after \in SUBSET Messages
    BY InvalidReportsType
  <2>3. diags' \in SUBSET Messages
    BY <1>1, <1>t, <2>2, ReportType DEF PushAll
  <2> QED BY <2>1, <2>3
<1>2. CASE PushFails(kinds, p, before)
  <2> PICK n \in 0..Len(kinds) - 1 :
         /\ tokens' = tokens \o TokensAt(SubSeq(kinds, 1, n), p)
         /\ Report(before \cup InvalidReports(SubSeq(kinds, 1, n), p))
         /\ phase' = "failed"
    BY <1>2 DEF PushFails
  <2>1. tokens' \in Seq(Token)
    <3>1. SubSeq(kinds, 1, n) \in Seq(TokenKinds)
      BY SubKinds
    <3>2. TokensAt(SubSeq(kinds, 1, n), p) \in Seq(Token)
      BY <3>1, TokensAtType
    <3> QED BY <1>t, <3>2
  <2>2. before \cup InvalidReports(SubSeq(kinds, 1, n), p) \in SUBSET Messages
    BY InvalidReportsType
  <2>3. diags' \in SUBSET Messages
    BY <1>t, <2>2, ReportType
  <2> QED BY <2>1, <2>3
<1> QED BY <1>1, <1>2 DEF Emit

LEMMA DueTypes ==
  ASSUME TypeOK
  PROVE  /\ SemicolonDue \in Seq(TokenKinds)
         /\ NewlineDue \in Seq(TokenKinds)
         /\ Len(SemicolonDue) <= 1
         /\ Len(NewlineDue) <= 1
<1>1. {"SEMI", "NEWLINE"} \subseteq TokenKinds
  BY DEF TokenKinds, ScanKinds
<1>2. SemicolonDue \in {<<"SEMI">>, <<>>} /\ NewlineDue \in {<<"NEWLINE">>, <<>>}
  BY DEF SemicolonDue, NewlineDue
<1>3. \A k \in {"SEMI", "NEWLINE"} : <<k>> \in Seq(TokenKinds) /\ Len(<<k>>) = 1
  BY <1>1, KindsSeq
<1>4. <<"SEMI">> \in Seq(TokenKinds) /\ <<"NEWLINE">> \in Seq(TokenKinds)
  BY <1>3
<1>5. Len(<<"SEMI">>) = 1 /\ Len(<<"NEWLINE">>) = 1 /\ Len(<<>>) = 0
  OBVIOUS
<1>6. <<>> \in Seq(TokenKinds)
  BY KindsSeq
<1>7. SemicolonDue \in Seq(TokenKinds) /\ Len(SemicolonDue) <= 1
  <2>1. CASE SemicolonDue = <<"SEMI">>
    BY <2>1, <1>4, <1>5
  <2>2. CASE SemicolonDue = <<>>
    BY <2>2, <1>6, <1>5
  <2> QED BY <2>1, <2>2, <1>2
<1>8. NewlineDue \in Seq(TokenKinds) /\ Len(NewlineDue) <= 1
  <2>1. CASE NewlineDue = <<"NEWLINE">>
    BY <2>1, <1>4, <1>5
  <2>2. CASE NewlineDue = <<>>
    BY <2>2, <1>6, <1>5
  <2> QED BY <2>1, <2>2, <1>2
<1> QED BY <1>7, <1>8

LEMMA DedentsType ==
  ASSUME NEW n \in Nat
  PROVE  /\ Dedents(n) \in Seq(TokenKinds)
         /\ Len(Dedents(n)) = n
         /\ \A i \in 1..n : Dedents(n)[i] = "DEDENT"
  BY DEF Dedents, TokenKinds

LEMMA ScanEmitsType ==
  ASSUME TypeOK, NEW symbol
  PROVE  ScanEmits(symbol) \subseteq Seq(ScanKinds)
<1>1. CASE symbol = "tpl"
  BY <1>1, ConstantsOK DEF ScanEmits
<1>2. CASE symbol \in {"lc", "bc"}
  <2>1. ScanEmits(symbol) \subseteq {<<"COMMENT">>, <<>>} /\ "COMMENT" \in ScanKinds
    BY <1>2 DEF ScanEmits, ScanKinds
  <2> QED BY <2>1, KindsSeq
<1>3. CASE symbol \notin {"tpl", "lc", "bc"}
  <2>1. ScanEmits(symbol) = {<<TokenOf(symbol)>>} /\ TokenOf(symbol) \in ScanKinds
    BY <1>3 DEF ScanEmits, TokenOf, ScanKinds
  <2> QED BY <2>1, KindsSeq
<1> QED BY <1>1, <1>2, <1>3

LEMMA ColumnAfterType ==
  ASSUME TypeOK, NEW unit, NEW c \in Nat
  PROVE  ColumnAfter(unit, c) \in Nat
<1>1. c \div TabStop \in Nat
  BY ConstantsOK
<1> QED BY <1>1, ConstantsOK DEF ColumnAfter

LEMMA TypeStart == ASSUME Init PROVE TypeOK
<1>1. src \in Seq(Symbols) /\ cfg \in ConfigSpace
  <2>1. PICK call \in Calls : src = call[1] /\ cfg = call[2]
    BY DEF Init
  <2> QED BY <2>1, ConstantsOK
<1>2. pos \in 1..Len(src) + 1
  BY <1>1 DEF Init
<1>3. indentStack \in Seq(Nat) /\ Len(indentStack) \in 1..MaxIndentDepth
  BY ConstantsOK DEF Init
<1>4. /\ tokens \in Seq([kind : TokenKinds, at : Nat])
      /\ diags \subseteq DiagKinds \X Nat
  BY DEF Init
<1>5. phase \in Phases /\ col \in Nat /\ lastSignificant \in Nat \ {0}
  BY SMT DEF Init, Phases
<1>6. {badUnit, atLineStart, lineHasSignificant} \subseteq BOOLEAN
  BY Zenon DEF Init
<1> QED BY <1>1, <1>2, <1>3, <1>4, <1>5, <1>6 DEF TypeOK

LEMMA TypeNext == ASSUME TypeOK, [Next]_vars PROVE TypeOK'
<1>t. /\ diags \in SUBSET Messages
      /\ UnitReport \in SUBSET Messages
      /\ pos \in Nat
      /\ Len(src) \in Nat /\ Level \in Nat
  <2>1. "unit" \in DiagKinds
    BY DEF DiagKinds
  <2>2. pos \in Nat /\ Len(src) \in Nat /\ Level \in Nat /\ diags \in SUBSET Messages
    BY DEF TypeOK, Level, Messages
  <2>3. UnitReport \in SUBSET Messages
    BY <2>1, <2>2, MessageType DEF UnitReport
  <2> QED BY <2>2, <2>3
<1>d. DiagKinds = {"token limit", "unit", "too deep", "misaligned", "invalid"}
  BY DEF DiagKinds
<1> USE <1>t
<1>1. CASE TruncateAtCeiling
  <2>1. {<<"token limit", pos>>} \in SUBSET Messages
    BY <1>d, MessageType
  <2>2. diags' \in SUBSET Messages
    BY <1>1, <2>1, ReportType DEF TruncateAtCeiling
  <2> QED BY <1>1, <2>2 DEF TruncateAtCeiling, TypeOK, Phases, Messages
<1>2. CASE BeginIteration
  BY <1>2 DEF BeginIteration, TypeOK, Phases
<1>3. CASE MeasureIndent
  <2>1. col' \in Nat
    BY <1>3, ColumnAfterType DEF MeasureIndent, TypeOK
  <2>2. pos' \in 1..Len(src) + 1
    BY <1>3 DEF MeasureIndent, OnUnit, AtEnd, TypeOK
  <2> QED BY <1>3, <2>1, <2>2 DEF MeasureIndent, TypeOK, Disallowed
<1>4. CASE SkipLayout
  <2>1. diags' \in SUBSET Messages
    BY <1>4, ReportType DEF SkipLayout
  <2> QED BY <1>4, <2>1 DEF SkipLayout, layoutUnchanged, TypeOK, Phases, Messages
<1>5. CASE IndentTooDeep
  <2>1. UnitReport \cup {<<"too deep", pos>>} \in SUBSET Messages
    BY <1>d, MessageType
  <2>2. diags' \in SUBSET Messages
    BY <1>5, <2>1, ReportType DEF IndentTooDeep
  <2> QED BY <1>5, <2>2 DEF IndentTooDeep, layoutUnchanged, TypeOK, Phases, Messages
<1>6. CASE OpenBlock
  <2>1. <<"INDENT">> \in Seq(TokenKinds) /\ "body" \in Phases
    BY DEF TokenKinds, Phases
  <2>2. /\ tokens' \in Seq(Token)
        /\ diags' \in SUBSET Messages
        /\ phase' \in Phases
    BY <1>6, <2>1, EmitType DEF OpenBlock
  <2>3. indentStack' \in Seq(Nat) /\ Len(indentStack') \in 1..MaxIndentDepth
    BY <1>6, ConstantsOK DEF OpenBlock, TooDeep, Level, TypeOK
  <2> QED BY <1>6, <2>2, <2>3 DEF OpenBlock, layoutUnchanged, TypeOK, Token, Messages
<1>7. CASE CloseBlocks
  <2> PICK k \in 1..Level :
         LET keep == IF ClosesEqual(k) THEN k - 1 ELSE k
         IN  /\ indentStack' = SubSeq(indentStack, 1, keep)
             /\ Emit(Dedents(Level - keep), pos, UnitReport,
                     IF Misaligned(k) THEN {<<"misaligned", pos>>} ELSE {}, "body")
    BY <1>7 DEF CloseBlocks
  <2> DEFINE keep == IF ClosesEqual(k) THEN k - 1 ELSE k
             late == IF Misaligned(k) THEN {<<"misaligned", pos>>} ELSE {}
  <2>1. keep \in 1..Level
    BY DEF ClosesEqual
  <2>2. Dedents(Level - keep) \in Seq(TokenKinds)
    BY <2>1, DedentsType
  <2>3. late \in SUBSET Messages /\ "body" \in Phases
    BY <1>d, MessageType DEF Phases
  <2>4. Emit(Dedents(Level - keep), pos, UnitReport, late, "body")
    OBVIOUS
  <2> HIDE DEF keep, late
  <2>5. /\ tokens' \in Seq(Token)
        /\ diags' \in SUBSET Messages
        /\ phase' \in Phases
    BY <2>2, <2>3, <2>4, EmitType
  <2>6. indentStack' \in Seq(Nat) /\ Len(indentStack') = keep
    BY <2>1 DEF TypeOK, Level, keep
  <2>7. Len(indentStack') \in 1..MaxIndentDepth
    <3>1. Level \in 1..MaxIndentDepth /\ MaxIndentDepth \in Nat
      BY ConstantsOK DEF TypeOK, Level
    <3> QED BY <3>1, <2>1, <2>6
  <2> QED BY <1>7, <2>5, <2>6, <2>7
          DEF CloseBlocks, layoutUnchanged, TypeOK, Token, Messages
<1>8. CASE ReachEnd
  BY <1>8 DEF ReachEnd, TypeOK, Phases
<1>9. CASE FinishPhysicalLine
  <2> PICK p \in pos..Len(src) :
         /\ Emit(SemicolonDue \o NewlineDue, p, {}, {}, "top")
         /\ pos' = p + 1
    BY <1>9 DEF FinishPhysicalLine
  <2>1. SemicolonDue \o NewlineDue \in Seq(TokenKinds) /\ "top" \in Phases
    BY DueTypes DEF Phases
  <2>p. p \in Nat /\ {} \in SUBSET Messages
    BY DEF TypeOK
  <2>2. /\ tokens' \in Seq(Token)
        /\ diags' \in SUBSET Messages
        /\ phase' \in Phases
    BY <2>1, <2>p, EmitType
  <2>3. pos' \in 1..Len(src) + 1
    BY DEF TypeOK
  <2> QED BY <1>9, <2>2, <2>3 DEF FinishPhysicalLine, TypeOK, Token, Messages
<1>10. CASE Scan
  <2> PICK p \in pos..Len(src) :
         /\ \E end \in p..Len(src) + 1 : pos' = end
         /\ \E kinds \in ScanEmits(src[p]) :
              Emit(kinds, p, {}, {}, "top") /\ NoteEmitted(kinds)
    BY <1>10 DEF Scan
  <2> PICK kinds \in ScanEmits(src[p]) :
         Emit(kinds, p, {}, {}, "top") /\ NoteEmitted(kinds)
    OBVIOUS
  <2>1. kinds \in Seq(TokenKinds) /\ "top" \in Phases
    BY ScanEmitsType DEF TokenKinds, Phases
  <2>p. p \in Nat /\ {} \in SUBSET Messages
    BY DEF TypeOK
  <2>2. /\ tokens' \in Seq(Token)
        /\ diags' \in SUBSET Messages
        /\ phase' \in Phases
    BY <2>1, <2>p, EmitType
  <2>3. pos' \in 1..Len(src) + 1
    BY DEF TypeOK
  <2>4. lineHasSignificant' \in BOOLEAN /\ lastSignificant' \in Nat \ {0}
    <3>1. CASE UNCHANGED <<lineHasSignificant, lastSignificant>>
      BY <3>1 DEF TypeOK
    <3>2. CASE /\ lineHasSignificant' = TRUE
               /\ \E last \in 1..Len(kinds) : lastSignificant' = Len(tokens) + last
      <4>1. Len(tokens) \in Nat /\ Len(kinds) \in Nat
        BY <2>1 DEF TypeOK
      <4> QED BY <3>2, <4>1
    <3> QED BY <3>1, <3>2 DEF NoteEmitted
  <2> QED BY <1>10, <2>2, <2>3, <2>4 DEF Scan, TypeOK, Token, Messages
<1>11. CASE FinishStream
  <2> DEFINE kinds == (IF NewlineAware THEN EofLayout ELSE <<>>) \o <<"EOF">>
  <2>1. EofLayout \in Seq(TokenKinds)
    <3>n. <<"NEWLINE">> \in Seq(TokenKinds) /\ <<>> \in Seq(TokenKinds)
      BY DEF TokenKinds, ScanKinds
    <3>1. (IF cfg.offside /\ lineHasSignificant THEN <<"NEWLINE">> ELSE <<>>)
            \in Seq(TokenKinds)
      BY <3>n
    <3>2. (IF cfg.offside THEN Dedents(Level - 1) ELSE <<>>) \in Seq(TokenKinds)
      BY <3>n, DedentsType DEF TypeOK, Level
    <3> QED BY <3>1, <3>2, DueTypes DEF EofLayout
  <2>2. kinds \in Seq(TokenKinds) /\ "done" \in Phases
    BY <2>1 DEF TokenKinds, Phases
  <2>3. Emit(kinds, pos, {}, {}, "done")
    BY <1>11 DEF FinishStream
  <2> HIDE DEF kinds
  <2>4. /\ tokens' \in Seq(Token)
        /\ diags' \in SUBSET Messages
        /\ phase' \in Phases
    BY <2>2, <2>3, EmitType
  <2>5. /\ indentStack' \in Seq(Nat)
        /\ Len(indentStack') \in 1..MaxIndentDepth
    BY <1>11, ConstantsOK DEF FinishStream, TypeOK
  <2> QED BY <1>11, <2>4, <2>5 DEF FinishStream, TypeOK, Token, Messages
<1>12. CASE UNCHANGED vars
  BY <1>12 DEF vars, TypeOK
<1> QED BY <1>1, <1>2, <1>3, <1>4, <1>5, <1>6, <1>7, <1>8, <1>9, <1>10,
           <1>11, <1>12 DEF Next, Returned

\* Type correctness of every reachable state (the driver's arrays, indices
\* and output vectors), and with it that indent_stack is never overrun.
THEOREM TypeCorrect == Spec => []TypeOK
BY TypeStart, TypeNext, PTL DEF Spec
-----------------------------------------------------------------------------
(* The order of the open columns.                                          *)

\* The open indentation columns strictly increase from column 0: what
\* handle_offside_line_start compares a line against is a proper block nest.
THEOREM ColumnsOrdered == Spec => []ColumnsIncrease
<1>1. Init => ColumnsIncrease
  BY DEF Init, ColumnsIncrease, Level
<1>2. TypeOK /\ ColumnsIncrease /\ [Next]_vars => ColumnsIncrease'
  <2> SUFFICES ASSUME TypeOK, ColumnsIncrease, [Next]_vars PROVE ColumnsIncrease'
    OBVIOUS
  <2>t. /\ indentStack \in Seq(Nat) /\ Level \in Nat \ {0} /\ Level = Len(indentStack)
        /\ col \in Nat
    BY ConstantsOK DEF TypeOK, Level
  <2>1. CASE UNCHANGED indentStack
    BY <2>1 DEF ColumnsIncrease, Level
  <2>2. CASE OpenBlock
    <3>1. col > indentStack[Level] /\ indentStack' = Append(indentStack, col)
      BY <2>2 DEF OpenBlock, Deeper
    <3>2. /\ Level' = Level + 1
          /\ indentStack'[Level + 1] = col
          /\ \A i \in 1..Level : indentStack'[i] = indentStack[i]
      BY <2>t, <3>1 DEF Level
    <3>3. \A i \in 1..Level : indentStack[i] < col
      <4> SUFFICES ASSUME NEW i \in 1..Level PROVE indentStack[i] < col
        OBVIOUS
      <4>1. indentStack[i] \in Nat /\ indentStack[Level] \in Nat
        BY <2>t
      <4>2. i = Level \/ indentStack[i] < indentStack[Level]
        BY <2>t DEF ColumnsIncrease
      <4> QED BY <2>t, <3>1, <4>1, <4>2
    <3> QED BY <2>t, <3>2, <3>3 DEF ColumnsIncrease
  <2>3. CASE CloseBlocks
    <3>1. PICK keep \in 1..Level : indentStack' = SubSeq(indentStack, 1, keep)
      BY <2>3, <2>t DEF CloseBlocks, ClosesEqual
    <3>2. Level' = keep /\ \A i \in 1..keep : indentStack'[i] = indentStack[i]
      BY <2>t, <3>1 DEF Level
    <3> QED BY <2>t, <3>1, <3>2 DEF ColumnsIncrease
  <2>4. CASE FinishStream
    BY <2>4, <2>t DEF FinishStream, ColumnsIncrease, Level
  <2> QED BY <2>1, <2>2, <2>3, <2>4
          DEF Next, vars, TruncateAtCeiling, BeginIteration, MeasureIndent, SkipLayout,
              IndentTooDeep, ReachEnd, FinishPhysicalLine, Scan, Returned
<1> QED BY <1>1, <1>2, TypeCorrect, PTL DEF Spec
-----------------------------------------------------------------------------
(* Counting the tokens of a kind.                                          *)

Number(kinds, k) == Cardinality({i \in 1..Len(kinds) : kinds[i] = k})

LEMMA NumberType ==
  ASSUME NEW kinds \in Seq(TokenKinds), NEW k
  PROVE  IsFiniteSet({i \in 1..Len(kinds) : kinds[i] = k}) /\ Number(kinds, k) \in Nat
<1>1. IsFiniteSet(1..Len(kinds))
  BY FS_Interval
<1>2. IsFiniteSet({i \in 1..Len(kinds) : kinds[i] = k})
  BY <1>1, FS_Subset
<1> QED BY <1>2, FS_CardinalityType DEF Number

\* The occurrences of a kind in a concatenation add up.
LEMMA NumberConcat ==
  ASSUME NEW s \in Seq(TokenKinds), NEW r \in Seq(TokenKinds), NEW k
  PROVE  Number(s \o r, k) = Number(s, k) + Number(r, k)
<1> DEFINE A == {i \in 1..Len(s) : s[i] = k}
           B == {i \in 1..Len(r) : r[i] = k}
           C == {i \in Len(s) + 1..Len(s) + Len(r) : r[i - Len(s)] = k}
           f == [i \in B |-> i + Len(s)]
<1>0. Len(s) \in Nat /\ Len(r) \in Nat
  OBVIOUS
<1>1. IsFiniteSet(A) /\ IsFiniteSet(B) /\ Number(s, k) = Cardinality(A)
      /\ Number(r, k) = Cardinality(B)
  BY NumberType DEF Number
<1>2. {i \in 1..Len(s \o r) : (s \o r)[i] = k} = A \cup C
  <2>1. Len(s \o r) = Len(s) + Len(r)
    OBVIOUS
  <2>2. \A i \in 1..Len(s) : (s \o r)[i] = s[i]
    OBVIOUS
  <2>3. \A i \in Len(s) + 1..Len(s) + Len(r) : (s \o r)[i] = r[i - Len(s)]
    OBVIOUS
  <2> QED BY <1>0, <2>1, <2>2, <2>3
<1>3. f \in Bijection(B, C)
  <2>1. f \in [B -> C]
    BY <1>0
  <2>2. \A i, j \in B : f[i] = f[j] => i = j
    BY <1>0
  <2>3. \A c \in C : c - Len(s) \in B /\ f[c - Len(s)] = c
    BY <1>0
  <2> QED BY <2>1, <2>2, <2>3, Fun_IsBij
<1>4. IsFiniteSet(C) /\ Cardinality(C) = Cardinality(B)
  BY <1>1, <1>3, FS_Bijection, Fun_ExistsBij
<1>5. A \cap C = {}
  BY <1>0
<1>6. Number(s \o r, k) = Cardinality(A \cup C)
  BY <1>2 DEF Number
<1> HIDE DEF A, B, C
<1>7. Cardinality(A) \in Nat /\ Cardinality(C) \in Nat
  BY <1>1, <1>4, FS_CardinalityType
<1>8. Cardinality(A \cap C) = 0
  BY <1>5, FS_EmptySet
<1>9. Cardinality(A \cup C) = Cardinality(A) + Cardinality(C) - Cardinality(A \cap C)
  BY <1>1, <1>4, FS_Union
<1> QED BY <1>1, <1>4, <1>6, <1>7, <1>8, <1>9

KindsOf(toks) == [i \in 1..Len(toks) |-> toks[i].kind]

LEMMA KindsOfType ==
  ASSUME NEW toks \in Seq(Token)
  PROVE  /\ KindsOf(toks) \in Seq(TokenKinds)
         /\ Len(KindsOf(toks)) = Len(toks)
         /\ \A i \in 1..Len(toks) : KindsOf(toks)[i] = toks[i].kind
<1>1. \A i \in 1..Len(toks) : toks[i].kind \in TokenKinds
  <2> SUFFICES ASSUME NEW i \in 1..Len(toks) PROVE toks[i].kind \in TokenKinds
    OBVIOUS
  <2>1. toks[i] \in Token
    OBVIOUS
  <2> QED BY <2>1 DEF Token
<1>2. Len(toks) \in Nat
  OBVIOUS
<1> QED BY <1>1, <1>2 DEF KindsOf

LEMMA Concatenation ==
  ASSUME NEW S, NEW s \in Seq(S), NEW r \in Seq(S)
  PROVE  /\ Len(s \o r) = Len(s) + Len(r)
         /\ \A i \in 1..Len(s) : (s \o r)[i] = s[i]
         /\ \A i \in Len(s) + 1..Len(s) + Len(r) : (s \o r)[i] = r[i - Len(s)]
<1>1. Len(s \o r) = Len(s) + Len(r)
  OBVIOUS
<1>2. \A i \in 1..Len(s) : (s \o r)[i] = s[i]
  OBVIOUS
<1>3. \A i \in Len(s) + 1..Len(s) + Len(r) : (s \o r)[i] = r[i - Len(s)]
  OBVIOUS
<1> QED BY <1>1, <1>2, <1>3

\* Pushing tokens adds their kinds to the counts.
LEMMA CountAfterPush ==
  ASSUME tokens \in Seq(Token), NEW kinds \in Seq(TokenKinds), NEW p \in Nat, NEW k,
         tokens' = tokens \o TokensAt(kinds, p)
  PROVE  /\ Count(k)' = Count(k) + Number(kinds, k)
         /\ Count(k) \in Nat
<1> DEFINE new == TokensAt(kinds, p)
           old == KindsOf(tokens)
<1>1. /\ new \in Seq(Token) /\ Len(new) = Len(kinds)
      /\ \A i \in 1..Len(kinds) : new[i].kind = kinds[i]
  BY TokensAtType
<1>2. /\ old \in Seq(TokenKinds) /\ Len(old) = Len(tokens)
      /\ \A i \in 1..Len(tokens) : old[i] = tokens[i].kind
  BY KindsOfType
<1>t. tokens' = tokens \o new
  OBVIOUS
<1> HIDE DEF new, old
<1>3. /\ Len(tokens') = Len(tokens) + Len(kinds)
      /\ \A i \in 1..Len(tokens) : tokens'[i] = tokens[i]
      /\ \A i \in Len(tokens) + 1..Len(tokens) + Len(kinds) :
           tokens'[i] = new[i - Len(tokens)]
  <2>1. tokens \in Seq(Token) /\ new \in Seq(Token)
    BY <1>1
  <2>2. /\ Len(tokens \o new) = Len(tokens) + Len(new)
        /\ \A i \in 1..Len(tokens) : (tokens \o new)[i] = tokens[i]
        /\ \A i \in Len(tokens) + 1..Len(tokens) + Len(new) :
             (tokens \o new)[i] = new[i - Len(tokens)]
    BY ONLY <2>1, Concatenation, Zenon
  <2> QED BY <2>2, <1>1, <1>t, Zenon
<1>c. /\ Len(old \o kinds) = Len(tokens) + Len(kinds)
      /\ \A i \in 1..Len(tokens) : (old \o kinds)[i] = old[i]
      /\ \A i \in Len(tokens) + 1..Len(tokens) + Len(kinds) :
           (old \o kinds)[i] = kinds[i - Len(tokens)]
  <2>1. old \in Seq(TokenKinds) /\ kinds \in Seq(TokenKinds)
    BY <1>2
  <2>2. /\ Len(old \o kinds) = Len(old) + Len(kinds)
        /\ \A i \in 1..Len(old) : (old \o kinds)[i] = old[i]
        /\ \A i \in Len(old) + 1..Len(old) + Len(kinds) :
             (old \o kinds)[i] = kinds[i - Len(old)]
    BY ONLY <2>1, Concatenation, Zenon
  <2> QED BY <2>2, <1>2
<1>n. Len(tokens) \in Nat /\ Len(kinds) \in Nat
  OBVIOUS
<1>4. \A i \in 1..Len(tokens') : tokens'[i].kind = (old \o kinds)[i]
  <2> SUFFICES ASSUME NEW i \in 1..Len(tokens) + Len(kinds)
               PROVE  tokens'[i].kind = (old \o kinds)[i]
    BY <1>3
  <2>1. CASE i \in 1..Len(tokens)
    BY <2>1, <1>2, <1>3, <1>c
  <2>2. CASE i \in Len(tokens) + 1..Len(tokens) + Len(kinds)
    <3>1. i - Len(tokens) \in 1..Len(kinds)
      BY <2>2, <1>n
    <3> QED BY <3>1, <2>2, <1>1, <1>3, <1>c
  <2>3. i \in 1..Len(tokens) \/ i \in Len(tokens) + 1..Len(tokens) + Len(kinds)
    BY ONLY <1>n, i \in 1..Len(tokens) + Len(kinds)
  <2> QED BY <2>1, <2>2, <2>3
<1>5. Count(k) = Number(old, k)
  <2>1. {i \in 1..Len(tokens) : tokens[i].kind = k} = {i \in 1..Len(old) : old[i] = k}
    BY <1>2
  <2> QED BY <2>1 DEF Count, Number
<1>6. Count(k)' = Number(old \o kinds, k)
  <2>1. {i \in 1..Len(tokens') : tokens'[i].kind = k}
          = {i \in 1..Len(old \o kinds) : (old \o kinds)[i] = k}
    BY <1>3, <1>c, <1>4
  <2> QED BY <2>1 DEF Count, Number
<1> QED BY <1>2, <1>5, <1>6, NumberConcat, NumberType
-----------------------------------------------------------------------------
(* The balance of INDENT and DEDENT.                                       *)

LEMMA NumberNone ==
  ASSUME NEW kinds \in Seq(TokenKinds), NEW k, \A i \in 1..Len(kinds) : kinds[i] # k
  PROVE  Number(kinds, k) = 0
<1>1. {i \in 1..Len(kinds) : kinds[i] = k} = {}
  OBVIOUS
<1> QED BY <1>1, FS_EmptySet DEF Number

LEMMA NumberOne ==
  ASSUME NEW k \in TokenKinds
  PROVE  Number(<<k>>, k) = 1
<1>1. {i \in 1..Len(<<k>>) : <<k>>[i] = k} = {1}
  BY KindsSeq
<1> QED BY <1>1, FS_Singleton DEF Number

LEMMA NumberDedents ==
  ASSUME NEW n \in Nat
  PROVE  Number(Dedents(n), "DEDENT") = n /\ Number(Dedents(n), "INDENT") = 0
<1>1. {i \in 1..Len(Dedents(n)) : Dedents(n)[i] = "DEDENT"} = 1..n
  BY DedentsType
<1>2. Cardinality(1..n) = n
  BY FS_Interval
<1>3. \A i \in 1..Len(Dedents(n)) : Dedents(n)[i] # "INDENT"
  BY DedentsType
<1>4. Number(Dedents(n), "DEDENT") = n
  BY <1>1, <1>2 DEF Number
<1>5. Number(Dedents(n), "INDENT") = 0
  BY <1>3, DedentsType, NumberNone
<1> QED BY <1>4, <1>5

\* No scanner and no line end makes a layout token.
Plain(kinds) ==
  /\ kinds \in Seq(TokenKinds)
  /\ Number(kinds, "INDENT") = 0
  /\ Number(kinds, "DEDENT") = 0

LEMMA PlainKinds ==
  /\ Plain(<<>>)
  /\ \A k \in TokenKinds \ {"INDENT", "DEDENT"} : Plain(<<k>>)
  /\ \A kinds \in Seq(ScanKinds) : Plain(kinds)
<1>1. Plain(<<>>)
  <2>1. \A k : \A i \in 1..Len(<<>>) : <<>>[i] # k
    OBVIOUS
  <2>2. <<>> \in Seq(TokenKinds)
    BY KindsSeq
  <2> QED BY <2>1, <2>2, NumberNone DEF Plain
<1>2. ASSUME NEW k \in TokenKinds \ {"INDENT", "DEDENT"} PROVE Plain(<<k>>)
  <2>1. \A i \in 1..Len(<<k>>) : <<k>>[i] = k
    BY KindsSeq
  <2> QED BY <2>1, KindsSeq, NumberNone DEF Plain
<1>3. ASSUME NEW kinds \in Seq(ScanKinds) PROVE Plain(kinds)
  <2>1. \A i \in 1..Len(kinds) : kinds[i] \in ScanKinds
    OBVIOUS
  <2>2. "INDENT" \notin ScanKinds /\ "DEDENT" \notin ScanKinds
    BY DEF ScanKinds
  <2> QED BY <2>1, <2>2, KindsSeq, NumberNone DEF Plain
<1> QED BY <1>1, <1>2, <1>3

LEMMA PlainConcat ==
  ASSUME NEW s, NEW r, Plain(s), Plain(r)
  PROVE  Plain(s \o r)
BY NumberConcat DEF Plain

LEMMA DuePlain ==
  ASSUME TypeOK
  PROVE  Plain(SemicolonDue) /\ Plain(NewlineDue) /\ Plain(<<"EOF">>)
         /\ Plain(IF cfg.offside /\ lineHasSignificant THEN <<"NEWLINE">> ELSE <<>>)
<1>1. {"SEMI", "NEWLINE", "EOF"} \subseteq TokenKinds \ {"INDENT", "DEDENT"}
  BY DEF TokenKinds, ScanKinds
<1>2. Plain(<<"SEMI">>) /\ Plain(<<"NEWLINE">>) /\ Plain(<<"EOF">>) /\ Plain(<<>>)
  BY <1>1, PlainKinds
<1> QED BY <1>2 DEF SemicolonDue, NewlineDue

LEMMA EmitCounts ==
  ASSUME TypeOK, NEW kinds \in Seq(TokenKinds), NEW p \in Nat,
         NEW before, NEW after, NEW next,
         Emit(kinds, p, before, after, next), phase' # "failed"
  PROVE  /\ Count("INDENT")' = Count("INDENT") + Number(kinds, "INDENT")
         /\ Count("DEDENT")' = Count("DEDENT") + Number(kinds, "DEDENT")
         /\ Count("INDENT") \in Nat /\ Count("DEDENT") \in Nat
<1>1. tokens \in Seq(Token)
  BY DEF TypeOK, Token
<1>2. tokens' = tokens \o TokensAt(kinds, p)
  BY DEF Emit, PushAll, PushFails
<1> QED BY <1>1, <1>2, CountAfterPush

\* At every moment of every call, whatever the source and the limits, the
\* INDENTs pushed are the DEDENTs pushed plus one for each open level: the
\* pops of handle_offside_line_start, the equal-column close and the drain at
\* the end of the file together close each block exactly once.
THEOREM BlocksBalanced == Spec => []Balanced
<1>1. Init => Balanced
  <2> SUFFICES ASSUME Init PROVE Count("INDENT") = Count("DEDENT") + Level - 1
    BY DEF Balanced
  <2>1. {i \in 1..Len(tokens) : tokens[i].kind = "INDENT"} = {}
        /\ {i \in 1..Len(tokens) : tokens[i].kind = "DEDENT"} = {}
    BY DEF Init
  <2>2. Level = 1
    BY DEF Init, Level
  <2>3. Count("INDENT") = 0 /\ Count("DEDENT") = 0
    BY <2>1, FS_EmptySet DEF Count
  <2> QED BY <2>2, <2>3
<1>2. TypeOK /\ Balanced /\ [Next]_vars => Balanced'
  <2> SUFFICES ASSUME TypeOK, Balanced, [Next]_vars, phase' # "failed"
               PROVE  Count("INDENT")' = Count("DEDENT")' + Level' - 1
    BY DEF Balanced
  <2>t. /\ indentStack \in Seq(Nat) /\ Level \in Nat \ {0} /\ Level = Len(indentStack)
        /\ pos \in Nat
    BY ConstantsOK DEF TypeOK, Level
  <2>b. phase # "failed" => Count("INDENT") = Count("DEDENT") + Level - 1
    BY DEF Balanced
  <2>1. ASSUME UNCHANGED <<tokens, indentStack>>, phase # "failed"
        PROVE  Count("INDENT")' = Count("DEDENT")' + Level' - 1
    BY <2>1, <2>b DEF Count, Level
  <2>2. CASE OpenBlock
    <3>1. "INDENT" \in TokenKinds
      BY DEF TokenKinds
    <3>2. /\ <<"INDENT">> \in Seq(TokenKinds)
          /\ Number(<<"INDENT">>, "INDENT") = 1 /\ Number(<<"INDENT">>, "DEDENT") = 0
      <4>1. \A i \in 1..Len(<<"INDENT">>) : <<"INDENT">>[i] # "DEDENT"
        OBVIOUS
      <4> QED BY <3>1, <4>1, KindsSeq, NumberOne, NumberNone
    <3>3. /\ Count("INDENT")' = Count("INDENT") + 1
          /\ Count("DEDENT")' = Count("DEDENT") + 0
          /\ Count("INDENT") \in Nat /\ Count("DEDENT") \in Nat
      BY <2>2, <2>t, <3>2, EmitCounts DEF OpenBlock
    <3>4. Level' = Level + 1 /\ phase # "failed"
      BY <2>2, <2>t DEF OpenBlock, Measured, Level
    <3> QED BY <2>t, <2>b, <3>3, <3>4
  <2>3. CASE CloseBlocks
    <3> PICK k \in 1..Level :
           LET keep == IF ClosesEqual(k) THEN k - 1 ELSE k
           IN  /\ indentStack' = SubSeq(indentStack, 1, keep)
               /\ Emit(Dedents(Level - keep), pos, UnitReport,
                       IF Misaligned(k) THEN {<<"misaligned", pos>>} ELSE {}, "body")
      BY <2>3 DEF CloseBlocks
    <3> DEFINE keep == IF ClosesEqual(k) THEN k - 1 ELSE k
    <3>1. keep \in 1..Level
      BY <2>t DEF ClosesEqual
    <3>2. /\ indentStack' = SubSeq(indentStack, 1, keep)
          /\ Emit(Dedents(Level - keep), pos, UnitReport,
                  IF Misaligned(k) THEN {<<"misaligned", pos>>} ELSE {}, "body")
      OBVIOUS
    <3> HIDE DEF keep
    <3>3. Level - keep \in Nat /\ Level' = keep
      BY <2>t, <3>1, <3>2 DEF Level
    <3>4. /\ Dedents(Level - keep) \in Seq(TokenKinds)
          /\ Number(Dedents(Level - keep), "DEDENT") = Level - keep
          /\ Number(Dedents(Level - keep), "INDENT") = 0
      BY <3>3, DedentsType, NumberDedents
    <3>5. /\ Count("INDENT")' = Count("INDENT") + 0
          /\ Count("DEDENT")' = Count("DEDENT") + (Level - keep)
          /\ Count("INDENT") \in Nat /\ Count("DEDENT") \in Nat
      BY <2>t, <3>2, <3>4, EmitCounts
    <3>6. phase # "failed"
      BY <2>3 DEF CloseBlocks, Measured
    <3> QED BY <2>t, <2>b, <3>1, <3>3, <3>5, <3>6
  <2>4. ASSUME NEW kinds, NEW p \in Nat, NEW next, Plain(kinds),
               Emit(kinds, p, {}, {}, next), UNCHANGED indentStack, phase # "failed"
        PROVE  Count("INDENT")' = Count("DEDENT")' + Level' - 1
    <3>1. /\ Count("INDENT")' = Count("INDENT") + 0
          /\ Count("DEDENT")' = Count("DEDENT") + 0
          /\ Count("INDENT") \in Nat /\ Count("DEDENT") \in Nat
      BY <2>4, EmitCounts DEF Plain
    <3> QED BY <2>4, <2>t, <2>b, <3>1 DEF Level
  <2>5. CASE FinishPhysicalLine
    <3> PICK p \in pos..Len(src) : Emit(SemicolonDue \o NewlineDue, p, {}, {}, "top")
      BY <2>5 DEF FinishPhysicalLine
    <3>1. Plain(SemicolonDue \o NewlineDue) /\ p \in Nat
      BY DuePlain, PlainConcat DEF TypeOK
    <3>2. phase # "failed" /\ UNCHANGED indentStack
      BY <2>5 DEF FinishPhysicalLine
    <3> QED BY <2>4, <3>1, <3>2
  <2>6. CASE Scan
    <3> PICK p \in pos..Len(src) :
           \E kinds \in ScanEmits(src[p]) : Emit(kinds, p, {}, {}, "top")
      BY <2>6 DEF Scan
    <3> PICK kinds \in ScanEmits(src[p]) : Emit(kinds, p, {}, {}, "top")
      OBVIOUS
    <3>1. Plain(kinds) /\ p \in Nat
      BY ScanEmitsType, PlainKinds DEF TypeOK
    <3>2. phase # "failed" /\ UNCHANGED indentStack
      BY <2>6 DEF Scan
    <3> QED BY <2>4, <3>1, <3>2
  <2>7. CASE FinishStream
    <3>0. phase # "failed"
      BY <2>7 DEF FinishStream
    <3> DEFINE newline == IF cfg.offside /\ lineHasSignificant THEN <<"NEWLINE">> ELSE <<>>
               head == SemicolonDue \o newline
               drain == IF cfg.offside THEN Dedents(Level - 1) ELSE <<>>
               kinds == (IF NewlineAware THEN EofLayout ELSE <<>>) \o <<"EOF">>
    <3>1. Plain(head) /\ Plain(<<"EOF">>)
      BY DuePlain, PlainConcat
    <3>2. EofLayout = head \o drain
      BY DEF EofLayout
    <3>3. Emit(kinds, pos, {}, {}, "done")
      BY <2>7 DEF FinishStream
    <3>d. Level - 1 \in Nat
      BY <2>t
    <3>4. CASE cfg.offside
      <4>1. NewlineAware /\ drain = Dedents(Level - 1)
        BY <3>4 DEF NewlineAware
      <4>2. /\ drain \in Seq(TokenKinds)
            /\ Number(drain, "DEDENT") = Level - 1 /\ Number(drain, "INDENT") = 0
        BY <3>d, <4>1, DedentsType, NumberDedents
      <4>3. kinds = (head \o drain) \o <<"EOF">>
        BY <3>2, <4>1
      <4> HIDE DEF head, drain, kinds
      <4>4. /\ head \o drain \in Seq(TokenKinds)
            /\ Number(head \o drain, "DEDENT") = Level - 1
            /\ Number(head \o drain, "INDENT") = 0
        BY <2>t, <3>1, <4>2, NumberConcat DEF Plain
      <4>5. /\ kinds \in Seq(TokenKinds)
            /\ Number(kinds, "DEDENT") = Level - 1
            /\ Number(kinds, "INDENT") = 0
        <5>1. /\ <<"EOF">> \in Seq(TokenKinds)
              /\ Number(<<"EOF">>, "INDENT") = 0 /\ Number(<<"EOF">>, "DEDENT") = 0
          BY <3>1 DEF Plain
        <5>2. kinds \in Seq(TokenKinds)
          BY <4>3, <4>4, <5>1
        <5>3. \A k : Number((head \o drain) \o <<"EOF">>, k)
                       = Number(head \o drain, k) + Number(<<"EOF">>, k)
          BY <4>4, <5>1, NumberConcat, Zenon
        <5>4. /\ Number(kinds, "DEDENT") = (Level - 1) + 0
              /\ Number(kinds, "INDENT") = 0 + 0
          BY <4>3, <4>4, <5>1, <5>3
        <5> QED BY <2>t, <5>2, <5>4
      <4>6. /\ Count("INDENT")' = Count("INDENT") + 0
            /\ Count("DEDENT")' = Count("DEDENT") + (Level - 1)
            /\ Count("INDENT") \in Nat /\ Count("DEDENT") \in Nat
        BY <2>t, <3>3, <4>5, EmitCounts
      <4>7. Level' = 1
        BY <2>7, <3>4 DEF FinishStream, Level
      <4> QED BY <2>t, <2>b, <3>0, <4>6, <4>7
    <3>5. CASE ~cfg.offside
      <4>1. drain = <<>>
        BY <3>5
      <4>2. Plain(drain)
        BY <4>1, PlainKinds
      <4>3. Plain(head \o drain) /\ Plain(<<>>)
        BY <3>1, <4>2, PlainConcat, PlainKinds
      <4>4. Plain(IF NewlineAware THEN EofLayout ELSE <<>>)
        BY <3>2, <4>3
      <4>5. Plain(kinds)
        BY <3>1, <4>4, PlainConcat
      <4>6. UNCHANGED indentStack
        BY <2>7, <3>5 DEF FinishStream
      <4> HIDE DEF kinds
      <4> QED BY <2>4, <2>t, <3>0, <3>3, <4>5, <4>6
    <3> QED BY <3>4, <3>5
  <2>8. CASE UNCHANGED vars
    <3>1. phase # "failed" /\ UNCHANGED <<tokens, indentStack>>
      BY <2>8 DEF vars
    <3> QED BY <2>1, <3>1
  <2>9. CASE TruncateAtCeiling \/ BeginIteration \/ MeasureIndent \/ SkipLayout
             \/ IndentTooDeep \/ ReachEnd
    <3>1. phase # "failed" /\ UNCHANGED <<tokens, indentStack>>
      BY <2>9 DEF TruncateAtCeiling, BeginIteration, MeasureIndent, SkipLayout,
                  IndentTooDeep, ReachEnd, Measured
    <3> QED BY <2>1, <3>1
  <2> QED BY <2>2, <2>3, <2>5, <2>6, <2>7, <2>8, <2>9 DEF Next, Returned
<1> QED BY <1>1, <1>2, TypeCorrect, PTL DEF Spec
-----------------------------------------------------------------------------
(* The room kept below the token ceiling.                                  *)

LEMMA ConcatKinds ==
  ASSUME NEW s \in Seq(TokenKinds), NEW r \in Seq(TokenKinds)
  PROVE  s \o r \in Seq(TokenKinds) /\ Len(s \o r) = Len(s) + Len(r)
OBVIOUS

LEMMA EmitRoom ==
  ASSUME TypeOK, ~cfg.mayFail, NEW kinds \in Seq(TokenKinds), NEW p \in Nat,
         NEW before, NEW after, NEW next,
         Len(tokens) + Len(kinds) <= TokenLimit,
         Emit(kinds, p, before, after, next)
  PROVE  phase' = next /\ Len(tokens') = Len(tokens) + Len(kinds)
<1>1. tokens \in Seq(Token) /\ Len(tokens) \in Nat /\ Len(kinds) \in Nat
  BY DEF TypeOK, Token
<1>2. ~PushFails(kinds, p, before)
  <2> SUFFICES ASSUME PushFails(kinds, p, before) PROVE FALSE
    OBVIOUS
  <2>1. PICK n \in 0..Len(kinds) - 1 : Len(tokens) + n = TokenLimit
    BY DEF PushFails
  <2> QED BY <1>1, <2>1, ConstantsOK
<1>3. PushAll(kinds, p, before, after, next)
  BY <1>2 DEF Emit
<1>4. tokens' = tokens \o TokensAt(kinds, p) /\ phase' = next
  BY <1>3 DEF PushAll
<1>5. TokensAt(kinds, p) \in Seq(Token) /\ Len(TokensAt(kinds, p)) = Len(kinds)
  BY TokensAtType
<1>6. Len(tokens \o TokensAt(kinds, p)) = Len(tokens) + Len(TokensAt(kinds, p))
  BY ONLY <1>1, <1>5, Concatenation, Zenon
<1> QED BY <1>4, <1>5, <1>6, Zenon

\* A call keeps its source and its configuration.
LEMMA CallFixed == [Next]_vars => cfg' = cfg /\ src' = src
BY DEF Next, vars, TruncateAtCeiling, BeginIteration, MeasureIndent, SkipLayout,
       IndentTooDeep, OpenBlock, CloseBlocks, layoutUnchanged, ReachEnd,
       FinishPhysicalLine, Scan, FinishStream, Returned

\* The room needed to close the stream from here: a DEDENT for each open
\* level, a semicolon, a NEWLINE and EOF, and what the iteration may still add.
RoomLeft ==
  /\ phase \in {"top", "eof"} => Len(tokens) + Level <= TokenLimit - 2
  /\ phase = "indent" => Len(tokens) < TokenLimit - Headroom
  /\ phase = "body" => Len(tokens) + Level <= TokenLimit - 4
  /\ phase # "failed"

\* "the closing layout (drained DEDENTs + NEWLINE) and the final EOF token
\* always fit" (src/src/lexer.c:1138) is true when no scan emits more than
\* one token: the ceiling, tested once an iteration, then covers the line's
\* INDENT, the scan, and the drain of every level that can be open.
THEOREM RoomAtCeiling ==
  ASSUME \A kinds \in TemplateEmits : Len(kinds) <= 1
  PROVE  Spec => []CeilingLeavesRoom
<1> DEFINE Inv == ~cfg.mayFail => RoomLeft
<1>c. /\ MaxIndentDepth \in Nat \ {0} /\ TokenLimit \in Nat
      /\ TokenLimit > MaxIndentDepth + 4
  BY ConstantsOK
<1>1. Init => Inv
  <2> SUFFICES ASSUME Init PROVE RoomLeft
    OBVIOUS
  <2>1. Len(tokens) = 0 /\ Level = 1 /\ phase = "top"
    BY DEF Init, Level
  <2> QED BY <1>c, <2>1 DEF RoomLeft
<1>2. TypeOK /\ Inv /\ [Next]_vars => Inv'
  <2> SUFFICES ASSUME TypeOK, RoomLeft, ~cfg.mayFail, [Next]_vars PROVE RoomLeft'
    BY CallFixed
  <2>t. /\ Level \in 1..MaxIndentDepth /\ Level = Len(indentStack)
        /\ indentStack \in Seq(Nat)
        /\ Len(tokens) \in Nat /\ pos \in Nat
    BY DEF TypeOK, Level
  <2>h. Headroom = MaxIndentDepth + 4
    BY DEF Headroom
  <2>1. CASE TruncateAtCeiling
    BY <2>1 DEF TruncateAtCeiling, RoomLeft, Level
  <2>2. CASE BeginIteration
    <3>1. Len(tokens) < TokenLimit - Headroom /\ phase' \in {"indent", "body"}
      BY <2>2 DEF BeginIteration, BelowCeiling
    <3>2. UNCHANGED <<tokens, indentStack>>
      BY <2>2 DEF BeginIteration
    <3> QED BY <1>c, <2>t, <2>h, <3>1, <3>2 DEF RoomLeft, Level, Headroom
  <2>3. CASE MeasureIndent
    BY <2>3 DEF MeasureIndent, RoomLeft, Headroom, Level
  <2>4. CASE SkipLayout \/ IndentTooDeep
    <3>1. /\ UNCHANGED <<tokens, indentStack>> /\ phase' = "body"
          /\ Len(tokens) < TokenLimit - Headroom
      BY <2>4 DEF SkipLayout, IndentTooDeep, Measured, RoomLeft
    <3> QED BY <1>c, <2>t, <2>h, <3>1 DEF RoomLeft, Level
  <2>5. CASE OpenBlock
    <3>1. /\ Emit(<<"INDENT">>, pos, UnitReport, {}, "body")
          /\ indentStack' = Append(indentStack, col)
          /\ Level < MaxIndentDepth
          /\ Len(tokens) < TokenLimit - Headroom
      BY <1>c, <2>5, <2>t DEF OpenBlock, TooDeep, Measured, RoomLeft
    <3>2. <<"INDENT">> \in Seq(TokenKinds) /\ Len(<<"INDENT">>) = 1
      BY KindsSeq DEF TokenKinds
    <3>3. phase' = "body" /\ Len(tokens') = Len(tokens) + 1
      <4>1. Len(tokens) + Len(<<"INDENT">>) <= TokenLimit
        BY <1>c, <2>t, <2>h, <3>1, <3>2
      <4>2. phase' = "body" /\ Len(tokens') = Len(tokens) + Len(<<"INDENT">>)
        BY <2>t, <3>1, <3>2, <4>1, EmitRoom, Zenon
      <4> QED BY <3>2, <4>2
    <3>4. Level' = Level + 1
      BY <2>t, <3>1 DEF Level
    <3> QED BY <1>c, <2>t, <2>h, <3>1, <3>3, <3>4 DEF RoomLeft
  <2>6. CASE CloseBlocks
    <3> PICK k \in 1..Level :
           LET keep == IF ClosesEqual(k) THEN k - 1 ELSE k
           IN  /\ indentStack' = SubSeq(indentStack, 1, keep)
               /\ Emit(Dedents(Level - keep), pos, UnitReport,
                       IF Misaligned(k) THEN {<<"misaligned", pos>>} ELSE {}, "body")
      BY <2>6 DEF CloseBlocks
    <3> DEFINE keep == IF ClosesEqual(k) THEN k - 1 ELSE k
    <3>1. keep \in 1..Level
      BY <2>t DEF ClosesEqual
    <3>2. /\ indentStack' = SubSeq(indentStack, 1, keep)
          /\ Emit(Dedents(Level - keep), pos, UnitReport,
                  IF Misaligned(k) THEN {<<"misaligned", pos>>} ELSE {}, "body")
      OBVIOUS
    <3> HIDE DEF keep
    <3>3. Level - keep \in Nat /\ Level' = keep
      BY <2>t, <3>1, <3>2 DEF Level
    <3>4. Dedents(Level - keep) \in Seq(TokenKinds)
          /\ Len(Dedents(Level - keep)) = Level - keep
      BY <3>3, DedentsType
    <3>5. Len(tokens) < TokenLimit - Headroom
      BY <2>6 DEF CloseBlocks, Measured, RoomLeft
    <3>6. Len(tokens) + (Level - keep) <= TokenLimit
      BY <1>c, <2>t, <2>h, <3>1, <3>5
    <3>7. phase' = "body" /\ Len(tokens') = Len(tokens) + (Level - keep)
      BY <2>t, <3>2, <3>4, <3>6, EmitRoom
    <3> QED BY <1>c, <2>t, <2>h, <3>1, <3>3, <3>5, <3>7 DEF RoomLeft
  <2>7. CASE ReachEnd
    <3>1. phase = "body" /\ phase' = "eof" /\ UNCHANGED <<tokens, indentStack>>
      BY <2>7 DEF ReachEnd
    <3> QED BY <1>c, <2>t, <3>1 DEF RoomLeft, Level
  <2>8. CASE FinishPhysicalLine
    <3> PICK p \in pos..Len(src) : Emit(SemicolonDue \o NewlineDue, p, {}, {}, "top")
      BY <2>8 DEF FinishPhysicalLine
    <3>1. /\ SemicolonDue \o NewlineDue \in Seq(TokenKinds)
          /\ Len(SemicolonDue \o NewlineDue) <= 2
      <4>1. Len(SemicolonDue \o NewlineDue) = Len(SemicolonDue) + Len(NewlineDue)
            /\ SemicolonDue \o NewlineDue \in Seq(TokenKinds)
        BY DueTypes, ConcatKinds, Zenon
      <4> QED BY <4>1, DueTypes
    <3>2. Len(tokens) + Level <= TokenLimit - 4 /\ p \in Nat /\ UNCHANGED indentStack
      BY <2>8 DEF FinishPhysicalLine, RoomLeft, TypeOK
    <3>3. /\ phase' = "top"
          /\ Len(tokens') = Len(tokens) + Len(SemicolonDue \o NewlineDue)
      <4>1. Len(tokens) + Len(SemicolonDue \o NewlineDue) <= TokenLimit
        BY <1>c, <2>t, <3>1, <3>2
      <4> QED BY <3>1, <3>2, <4>1, EmitRoom, Zenon
    <3> QED BY <1>c, <2>t, <3>1, <3>2, <3>3 DEF RoomLeft, Level
  <2>9. CASE Scan
    <3> PICK p \in pos..Len(src) :
           \E kinds \in ScanEmits(src[p]) : Emit(kinds, p, {}, {}, "top")
      BY <2>9 DEF Scan
    <3> PICK kinds \in ScanEmits(src[p]) : Emit(kinds, p, {}, {}, "top")
      OBVIOUS
    <3>1. kinds \in Seq(TokenKinds) /\ Len(kinds) <= 1
      <4>1. kinds \in Seq(ScanKinds)
        BY ScanEmitsType
      <4>2. CASE kinds \in TemplateEmits
        <5>1. Len(kinds) <= 1
          BY <4>2
        <5> QED BY <4>1, <5>1, KindsSeq, Zenon
      <4>3. CASE kinds \notin TemplateEmits
        <5>1. \A symbol : /\ Len(<<TokenOf(symbol)>>) = 1
                          /\ Len(<<"COMMENT">>) = 1 /\ Len(<<>>) = 0
          OBVIOUS
        <5>2. \/ kinds = <<TokenOf(src[p])>>
              \/ kinds = <<"COMMENT">> \/ kinds = <<>>
          BY <4>3 DEF ScanEmits
        <5>3. Len(kinds) <= 1
          <6>1. CASE kinds = <<TokenOf(src[p])>>
            BY <5>1, <6>1
          <6>2. CASE kinds = <<"COMMENT">>
            BY <5>1, <6>2
          <6>3. CASE kinds = <<>>
            BY <5>1, <6>3
          <6> QED BY <5>2, <6>1, <6>2, <6>3
        <5> QED BY <4>1, <5>3, KindsSeq
      <4> QED BY <4>2, <4>3
    <3>2. Len(tokens) + Level <= TokenLimit - 4 /\ p \in Nat /\ UNCHANGED indentStack
      BY <2>9 DEF Scan, RoomLeft, TypeOK
    <3>3. phase' = "top" /\ Len(tokens') = Len(tokens) + Len(kinds)
      <4>1. Len(tokens) + Len(kinds) <= TokenLimit
        BY <1>c, <2>t, <3>1, <3>2
      <4> QED BY <3>1, <3>2, <4>1, EmitRoom, Zenon
    <3>4. Len(kinds) <= 1 /\ Level' = Level
      BY <3>1, <3>2 DEF Level
    <3>5. Len(tokens') + Level' <= TokenLimit - 2
      BY ONLY <1>c, <2>t, <3>2, <3>3, <3>4
    <3> QED BY <3>3, <3>5 DEF RoomLeft
  <2>10. CASE FinishStream
    <3> DEFINE kinds == (IF NewlineAware THEN EofLayout ELSE <<>>) \o <<"EOF">>
    <3>1. Emit(kinds, pos, {}, {}, "done") /\ Len(tokens) + Level <= TokenLimit - 2
      BY <2>10 DEF FinishStream, RoomLeft
    <3>2. EofLayout \in Seq(TokenKinds) /\ Len(EofLayout) <= Level + 1
      <4> DEFINE newline == IF cfg.offside /\ lineHasSignificant THEN <<"NEWLINE">>
                                                                ELSE <<>>
                 drain == IF cfg.offside THEN Dedents(Level - 1) ELSE <<>>
      <4>1. newline \in Seq(TokenKinds) /\ Len(newline) <= 1
        <5>1. /\ <<"NEWLINE">> \in Seq(TokenKinds) /\ Len(<<"NEWLINE">>) = 1
              /\ <<>> \in Seq(TokenKinds) /\ Len(<<>>) = 0
          BY KindsSeq DEF TokenKinds, ScanKinds
        <5>2. newline = <<"NEWLINE">> \/ newline = <<>>
          OBVIOUS
        <5> HIDE DEF newline
        <5>3. CASE newline = <<"NEWLINE">>
          BY <5>1, <5>3
        <5>4. CASE newline = <<>>
          BY <5>1, <5>4
        <5> QED BY <5>2, <5>3, <5>4
      <4>2. drain \in Seq(TokenKinds) /\ Len(drain) <= Level - 1
        <5>1. Level - 1 \in Nat
          BY <2>t
        <5>2. CASE cfg.offside
          BY <5>1, <5>2, DedentsType
        <5>3. CASE ~cfg.offside
          <6>1. drain = <<>>
            BY <5>3
          <6> HIDE DEF drain
          <6> QED BY <5>1, <6>1, KindsSeq
        <5> QED BY <5>2, <5>3
      <4>3. EofLayout = SemicolonDue \o newline \o drain
        BY DEF EofLayout
      <4> HIDE DEF newline, drain
      <4>4. SemicolonDue \in Seq(TokenKinds) /\ Len(SemicolonDue) <= 1
        BY DueTypes
      <4>5. /\ SemicolonDue \o newline \in Seq(TokenKinds)
            /\ Len(SemicolonDue \o newline) = Len(SemicolonDue) + Len(newline)
        BY <4>1, <4>4, ConcatKinds, Zenon
      <4>6. /\ EofLayout \in Seq(TokenKinds)
            /\ Len(EofLayout) = Len(SemicolonDue \o newline) + Len(drain)
        BY <4>2, <4>3, <4>5, ConcatKinds, Zenon
      <4> QED BY <2>t, <4>1, <4>2, <4>4, <4>5, <4>6
    <3>3. kinds \in Seq(TokenKinds) /\ Len(kinds) <= Level + 2
      <4>1. <<"EOF">> \in Seq(TokenKinds) /\ Len(<<"EOF">>) = 1
        BY KindsSeq DEF TokenKinds
      <4>2. CASE NewlineAware
        BY <2>t, <3>2, <4>1, <4>2
      <4>3. CASE ~NewlineAware
        BY <2>t, <4>1, <4>3, KindsSeq
      <4> QED BY <4>2, <4>3
    <3> HIDE DEF kinds
    <3>4. phase' = "done"
      BY <1>c, <2>t, <3>1, <3>3, EmitRoom
    <3> QED BY <3>4 DEF RoomLeft
  <2>11. CASE UNCHANGED vars
    BY <2>11 DEF vars, RoomLeft, Level, Headroom
  <2> QED BY <2>1, <2>2, <2>3, <2>4, <2>5, <2>6, <2>7, <2>8, <2>9, <2>10, <2>11
          DEF Next, Returned
<1>3. Inv => CeilingLeavesRoom
  BY DEF RoomLeft, CeilingLeavesRoom
<1> QED BY <1>1, <1>2, <1>3, TypeCorrect, PTL DEF Spec

-----------------------------------------------------------------------------
(* The end of the stream.                                                  *)

Endless(kinds) == kinds \in Seq(TokenKinds) /\ Number(kinds, "EOF") = 0

LEMMA EndlessKinds ==
  /\ Endless(<<>>)
  /\ \A k \in TokenKinds \ {"EOF"} : Endless(<<k>>)
  /\ \A kinds \in Seq(ScanKinds) : Endless(kinds)
  /\ \A n \in Nat : Endless(Dedents(n))
<1>1. Endless(<<>>)
  <2>1. \A i \in 1..Len(<<>>) : <<>>[i] # "EOF"
    OBVIOUS
  <2> QED BY <2>1, KindsSeq, NumberNone DEF Endless
<1>2. ASSUME NEW k \in TokenKinds \ {"EOF"} PROVE Endless(<<k>>)
  <2>1. \A i \in 1..Len(<<k>>) : <<k>>[i] = k
    BY KindsSeq
  <2> QED BY <2>1, KindsSeq, NumberNone DEF Endless
<1>3. ASSUME NEW kinds \in Seq(ScanKinds) PROVE Endless(kinds)
  <2>1. \A i \in 1..Len(kinds) : kinds[i] \in ScanKinds
    OBVIOUS
  <2>2. "EOF" \notin ScanKinds
    BY DEF ScanKinds
  <2> QED BY <2>1, <2>2, KindsSeq, NumberNone DEF Endless
<1>4. ASSUME NEW n \in Nat PROVE Endless(Dedents(n))
  <2>1. \A i \in 1..Len(Dedents(n)) : Dedents(n)[i] # "EOF"
    BY DedentsType
  <2> QED BY <2>1, DedentsType, NumberNone DEF Endless
<1> QED BY <1>1, <1>2, <1>3, <1>4

LEMMA EndlessConcat == ASSUME NEW s, NEW r, Endless(s), Endless(r) PROVE Endless(s \o r)
BY NumberConcat DEF Endless

LEMMA DueEndless ==
  ASSUME TypeOK
  PROVE  Endless(SemicolonDue) /\ Endless(NewlineDue) /\ Endless(EofLayout)
<1> DEFINE newline == IF cfg.offside /\ lineHasSignificant THEN <<"NEWLINE">> ELSE <<>>
           drain == IF cfg.offside THEN Dedents(Level - 1) ELSE <<>>
<1>1. {"SEMI", "NEWLINE"} \subseteq TokenKinds \ {"EOF"}
  BY DEF TokenKinds, ScanKinds
<1>2. Endless(<<"SEMI">>) /\ Endless(<<"NEWLINE">>) /\ Endless(<<>>)
  BY <1>1, EndlessKinds
<1>3. Endless(SemicolonDue) /\ Endless(NewlineDue) /\ Endless(newline)
  BY <1>2 DEF SemicolonDue, NewlineDue
<1>4. Level - 1 \in Nat
  BY ConstantsOK DEF TypeOK, Level
<1>5. Endless(drain)
  BY <1>2, <1>4, EndlessKinds
<1>6. EofLayout = SemicolonDue \o newline \o drain
  BY DEF EofLayout
<1> HIDE DEF newline, drain
<1> QED BY <1>3, <1>5, <1>6, EndlessConcat

LEMMA EmitPushes ==
  ASSUME TypeOK, NEW kinds \in Seq(TokenKinds), NEW p \in Nat,
         NEW before, NEW after, NEW next,
         Emit(kinds, p, before, after, next), phase' # "failed"
  PROVE  /\ phase' = next /\ tokens' = tokens \o TokensAt(kinds, p)
         /\ Count("EOF")' = Count("EOF") + Number(kinds, "EOF") /\ Count("EOF") \in Nat
<1>1. tokens \in Seq(Token)
  BY DEF TypeOK, Token
<1>2. tokens' = tokens \o TokensAt(kinds, p) /\ phase' = next
  BY DEF Emit, PushAll, PushFails
<1> QED BY <1>1, <1>2, CountAfterPush

\* EOF is pushed by the last step only, and that step drains the stack; without
\* the offside rule no level is ever opened.
EofLast ==
  /\ phase \notin {"done", "failed"} => Count("EOF") = 0
  /\ phase = "done" => /\ Count("EOF") = 1 /\ Level = 1
                       /\ Len(tokens) > 0 /\ tokens[Len(tokens)].kind = "EOF"
  /\ ~cfg.offside => Level = 1 /\ phase # "indent"

LEMMA EofStays ==
  ASSUME EofLast, UNCHANGED <<tokens, indentStack, cfg>>,
         phase \notin {"done", "failed"}, phase' # "done", cfg.offside \/ phase' # "indent"
  PROVE  EofLast'
BY DEF EofLast, Count, Level

LEMMA EofAfterPush ==
  ASSUME TypeOK, EofLast, NEW kinds, NEW p \in Nat, NEW before, NEW after, NEW next,
         Endless(kinds), Emit(kinds, p, before, after, next), cfg' = cfg,
         phase \notin {"done", "failed"}, next \notin {"done", "indent"},
         cfg.offside \/ indentStack' = indentStack
  PROVE  EofLast'
<1>1. ~cfg.offside => Level' = 1
  BY DEF EofLast, Level
<1>2. CASE phase' = "failed"
  BY <1>1, <1>2 DEF EofLast
<1>3. CASE phase' # "failed"
  <2>1. phase' = next /\ Count("EOF")' = Count("EOF") + Number(kinds, "EOF")
    BY <1>3, EmitPushes DEF Endless
  <2>2. Count("EOF")' = 0
    BY <2>1 DEF EofLast, Endless
  <2> QED BY <1>1, <2>1, <2>2 DEF EofLast
<1> QED BY <1>2, <1>3

LEMMA EofAtEnd == ASSUME TypeOK, EofLast, FinishStream PROVE EofLast'
<1> DEFINE pre == IF NewlineAware THEN EofLayout ELSE <<>>
           eof == <<"EOF">>
           kinds == pre \o eof
           new == TokensAt(kinds, pos)
<1>1. /\ Emit(kinds, pos, {}, {}, "done") /\ cfg' = cfg /\ phase = "eof"
      /\ indentStack' = IF cfg.offside THEN <<indentStack[1]>> ELSE indentStack
  BY DEF FinishStream
<1>2. Endless(pre)
  BY DueEndless, EndlessKinds
<1>3. eof \in Seq(TokenKinds) /\ Len(eof) = 1 /\ eof[1] = "EOF" /\ Number(eof, "EOF") = 1
  BY KindsSeq, NumberOne DEF TokenKinds
<1>4. /\ tokens \in Seq(Token) /\ pos \in Nat /\ Len(tokens) \in Nat
      /\ pre \in Seq(TokenKinds) /\ Len(pre) \in Nat
  BY <1>2 DEF TypeOK, Token, Endless
<1> HIDE DEF pre, eof
<1>5. /\ kinds \in Seq(TokenKinds) /\ Len(kinds) = Len(pre) + 1 /\ kinds[Len(pre) + 1] = "EOF"
      /\ Number(kinds, "EOF") = 1
  <2>1. /\ Len(pre \o eof) = Len(pre) + Len(eof)
        /\ \A i \in Len(pre) + 1..Len(pre) + Len(eof) : (pre \o eof)[i] = eof[i - Len(pre)]
    BY ONLY <1>3, <1>4, Concatenation, Zenon
  <2>2. Len(pre) + 1 \in Len(pre) + 1..Len(pre) + Len(eof) /\ Len(pre) + 1 - Len(pre) = 1
    BY <1>3, <1>4
  <2>3. (pre \o eof)[Len(pre) + 1] = eof[Len(pre) + 1 - Len(pre)]
    BY <2>1, <2>2
  <2>4. Number(pre \o eof, "EOF") = Number(pre, "EOF") + Number(eof, "EOF")
    BY <1>3, <1>4, NumberConcat
  <2>5. pre \o eof \in Seq(TokenKinds)
    BY <1>3, <1>4, ConcatKinds
  <2> QED BY <1>2, <1>3, <2>1, <2>2, <2>3, <2>4, <2>5 DEF Endless
<1> HIDE DEF kinds
<1>6. Level' = 1
  BY <1>1 DEF EofLast, Level
<1>7. CASE phase' = "failed"
  BY <1>6, <1>7 DEF EofLast
<1>8. CASE phase' # "failed"
  <2>1. /\ phase' = "done" /\ tokens' = tokens \o new
        /\ Count("EOF")' = Count("EOF") + Number(kinds, "EOF")
    BY <1>1, <1>4, <1>5, <1>8, EmitPushes
  <2>2. Count("EOF")' = 1
    BY <1>1, <1>5, <2>1 DEF EofLast
  <2>3. new \in Seq(Token) /\ Len(new) = Len(kinds) /\ new[Len(kinds)].kind = "EOF"
    <3>1. Len(kinds) \in 1..Len(kinds)
      BY <1>4, <1>5
    <3> QED BY <1>4, <1>5, <3>1, TokensAtType
  <2> HIDE DEF new
  <2> DEFINE m == Len(tokens) + Len(kinds)
  <2>4. Len(tokens') = m /\ tokens'[m] = new[Len(kinds)] /\ m > 0
    <3>1. /\ Len(tokens \o new) = Len(tokens) + Len(new)
          /\ \A i \in Len(tokens) + 1..Len(tokens) + Len(new) :
               (tokens \o new)[i] = new[i - Len(tokens)]
      BY ONLY <1>4, <2>3, Concatenation, Zenon
    <3>2. m \in Len(tokens) + 1..Len(tokens) + Len(new) /\ m - Len(tokens) = Len(kinds) /\ m > 0
      BY <1>4, <1>5, <2>3
    <3> HIDE DEF m
    <3> QED BY <2>1, <2>3, <3>1, <3>2 DEF m
  <2> HIDE DEF m
  <2> QED BY <1>1, <1>6, <2>1, <2>2, <2>3, <2>4 DEF EofLast
<1> QED BY <1>7, <1>8

\* A call that returns 0 has pushed EOF exactly once, as its last token, and
\* the INDENTs and DEDENTs of the whole stream pair up, with and without the
\* offside rule (finish_eof_layout and the EOF anchor, src/src/lexer.c:1099).
THEOREM StreamAlwaysComplete == Spec => []StreamComplete
<1>1. Init => EofLast
  <2> SUFFICES ASSUME Init PROVE EofLast
    OBVIOUS
  <2>1. {i \in 1..Len(tokens) : tokens[i].kind = "EOF"} = {} /\ Level = 1 /\ phase = "top"
    BY DEF Init, Level
  <2> QED BY <2>1, FS_EmptySet DEF EofLast, Count
<1>2. TypeOK /\ EofLast /\ [Next]_vars => EofLast'
  <2> SUFFICES ASSUME TypeOK, EofLast, [Next]_vars PROVE EofLast'
    OBVIOUS
  <2>1. cfg' = cfg /\ pos \in Nat
    BY CallFixed DEF TypeOK
  <2>2. CASE TruncateAtCeiling \/ BeginIteration \/ MeasureIndent \/ SkipLayout
             \/ IndentTooDeep \/ ReachEnd
    <3>1. CASE TruncateAtCeiling \/ IndentTooDeep
      <4>1. phase \in {"top", "indent"} /\ phase' \in {"eof", "body"}
        BY <3>1, Zenon DEF TruncateAtCeiling, IndentTooDeep, Measured
      <4>2. UNCHANGED <<tokens, indentStack>>
        BY <3>1, Zenon DEF TruncateAtCeiling, IndentTooDeep
      <4> QED BY <2>1, <4>1, <4>2, EofStays
    <3>2. CASE BeginIteration \/ MeasureIndent \/ SkipLayout \/ ReachEnd
      <4>1. /\ UNCHANGED <<tokens, indentStack, cfg>>
            /\ phase \notin {"done", "failed"} /\ phase' # "done"
            /\ cfg.offside \/ phase' # "indent"
        BY <3>2 DEF BeginIteration, MeasureIndent, SkipLayout, ReachEnd, Measured,
                    layoutUnchanged, EofLast
      <4> QED BY <4>1, EofStays
    <3> QED BY <2>2, <3>1, <3>2
  <2>3. CASE OpenBlock \/ CloseBlocks
    <3>1. phase = "indent" /\ cfg.offside
      BY <2>3 DEF OpenBlock, CloseBlocks, Measured, EofLast
    <3>2. ASSUME OpenBlock PROVE EofLast'
      <4>1. Endless(<<"INDENT">>)
        BY EndlessKinds DEF TokenKinds
      <4>2. Emit(<<"INDENT">>, pos, UnitReport, {}, "body")
        BY <3>2 DEF OpenBlock
      <4> QED BY <2>1, <3>1, <4>1, <4>2, EofAfterPush
    <3>3. ASSUME CloseBlocks PROVE EofLast'
      <4>1. PICK k \in 1..Level :
              LET keep == IF ClosesEqual(k) THEN k - 1 ELSE k
              IN  Emit(Dedents(Level - keep), pos, UnitReport,
                       IF Misaligned(k) THEN {<<"misaligned", pos>>} ELSE {}, "body")
        BY <3>3 DEF CloseBlocks
      <4> DEFINE keep == IF ClosesEqual(k) THEN k - 1 ELSE k
                 after == IF Misaligned(k) THEN {<<"misaligned", pos>>} ELSE {}
      <4>2. Level - keep \in Nat
        BY DEF TypeOK, Level, ClosesEqual
      <4>3. Emit(Dedents(Level - keep), pos, UnitReport, after, "body")
        BY <4>1
      <4> HIDE DEF keep, after
      <4>4. Endless(Dedents(Level - keep))
        BY <4>2, EndlessKinds
      <4> QED BY <2>1, <3>1, <4>3, <4>4, EofAfterPush
    <3> QED BY <2>3, <3>2, <3>3
  <2>4. CASE FinishPhysicalLine
    <3> PICK p \in pos..Len(src) : Emit(SemicolonDue \o NewlineDue, p, {}, {}, "top")
      BY <2>4 DEF FinishPhysicalLine
    <3>1. Endless(SemicolonDue \o NewlineDue) /\ p \in Nat
      BY <2>1, DueEndless, EndlessConcat
    <3>2. phase = "body" /\ UNCHANGED indentStack
      BY <2>4 DEF FinishPhysicalLine
    <3> QED BY <2>1, <3>1, <3>2, EofAfterPush
  <2>5. CASE Scan
    <3> PICK p \in pos..Len(src) :
           \E kinds \in ScanEmits(src[p]) : Emit(kinds, p, {}, {}, "top")
      BY <2>5 DEF Scan
    <3> PICK kinds \in ScanEmits(src[p]) : Emit(kinds, p, {}, {}, "top")
      OBVIOUS
    <3>1. Endless(kinds) /\ p \in Nat
      BY <2>1, ScanEmitsType, EndlessKinds
    <3>2. phase = "body" /\ UNCHANGED indentStack
      BY <2>5 DEF Scan
    <3> QED BY <2>1, <3>1, <3>2, EofAfterPush
  <2>6. CASE FinishStream
    BY <2>6, EofAtEnd
  <2>7. CASE UNCHANGED vars
    BY <2>7 DEF vars, EofLast, Count, Level
  <2> QED BY <2>2, <2>3, <2>4, <2>5, <2>6, <2>7 DEF Next, Returned
<1>3. TypeOK /\ EofLast /\ Balanced => StreamComplete
  <2> SUFFICES ASSUME TypeOK, EofLast, Balanced, phase = "done"
               PROVE  /\ {i \in 1..Len(tokens) : tokens[i].kind = "EOF"} = {Len(tokens)}
                      /\ Count("INDENT") = Count("DEDENT")
    BY DEF StreamComplete
  <2> DEFINE E == {i \in 1..Len(tokens) : tokens[i].kind = "EOF"}
  <2>0. Len(tokens) \in Nat /\ Len(tokens) > 0 /\ tokens[Len(tokens)].kind = "EOF"
    <3>1. Len(tokens) \in Nat
      BY DEF TypeOK
    <3> QED BY <3>1 DEF EofLast
  <2>1. Len(tokens) \in E /\ IsFiniteSet(1..Len(tokens)) /\ E \subseteq 1..Len(tokens)
    <3>1. IsFiniteSet(1..Len(tokens))
      BY <2>0, FS_Interval
    <3>2. Len(tokens) \in 1..Len(tokens)
      BY <2>0
    <3> QED BY <2>0, <3>1, <3>2
  <2>2. Cardinality(E) = 1 /\ IsFiniteSet(E)
    BY <2>1, FS_Subset DEF EofLast, Count
  <2> HIDE DEF E
  <2>3. \E x : E = {x}
    BY <2>2, FS_Singleton
  <2>4. E = {Len(tokens)}
    BY <2>1, <2>3
  <2>5. Count("INDENT") = Count("DEDENT")
    <3>1. Level = 1 /\ Count("INDENT") = Count("DEDENT") + Level - 1
      BY DEF EofLast, Balanced
    <3>2. Count("DEDENT") \in Nat
      <4>1. IsFiniteSet({i \in 1..Len(tokens) : tokens[i].kind = "DEDENT"})
        BY <2>1, FS_Subset
      <4> QED BY <4>1, FS_CardinalityType DEF Count
    <3> QED BY <3>1, <3>2
  <2> QED BY <2>4, <2>5 DEF E
<1> QED BY <1>1, <1>2, <1>3, TypeCorrect, BlocksBalanced, PTL DEF Spec
=============================================================================
