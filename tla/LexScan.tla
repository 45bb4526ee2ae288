------------------------------- MODULE LexScan -------------------------------
(***************************************************************************)
(* The token scanners of src/src/lexer.c (comments, strings and templates, *)
(* numbers, identifiers, operators) and the mutual recursion between the   *)
(* string scanner and the scanners of interpolated code.                   *)
(*                                                                         *)
(* A source is a sequence of characters; "sp" stands for inline white      *)
(* space, "nl" for a newline, "under" for an underscore (and for a style   *)
(* that has them between digits), "bad" for a byte that UTF-8 does not     *)
(* have and "lead" for one that announces a second byte; no scanner claims *)
(* those two.  Spellings in the configuration are sequences of characters  *)
(* too.  Offsets start at 1 and a token covers [from, to).                 *)
(*                                                                         *)
(* `stack` holds the live activations of try_scan_string ("string") and    *)
(* scan_interpolation_expression ("interp"), outermost first; when it is   *)
(* empty the loop of kavak_lex is scanning code.  An INVALID token is      *)
(* named by the message of the diagnostic that goes with it; keyword and   *)
(* operator ids are left out of the tokens' v.                             *)
(***************************************************************************)
EXTENDS Integers, Sequences, FiniteSets

CONSTANTS
  Calls,          \* the calls of kavak_lex: pairs of a source and a configuration
  MaxInterpDepth  \* KAVAK_MAX_INTERP_DEPTH, 64

ASSUME DepthOK == MaxInterpDepth \in Nat \ {0}

\* No opener, operator or suffix that is empty ever matches (src/src/lexer.c:402,
\* 520, 854, 908), nor does an empty end of a literal (756), and comments have an end.
Spelling == Seq(STRING) \ {<<>>}
StringRule ==
  [open : Spelling, close : Spelling, raw : BOOLEAN, multiline : BOOLEAN,
   kind : {"STRING", "CHAR", "IDENT"}, escapes : SUBSET STRING,
   interpOpen : Seq(STRING), interpClose : Seq(STRING), marked : BOOLEAN]
CommentRule == [open : Spelling, close : Spelling, nest : BOOLEAN, kept : BOOLEAN]

ASSUME CallsOK ==
  \A call \in Calls :
    /\ call[1] \in Seq(STRING)
    /\ call[2].strings \subseteq StringRule /\ call[2].comments \subseteq CommentRule
    /\ call[2].operators \subseteq Spelling /\ call[2].suffixes \subseteq Spelling

Invalids == {"unterminated string", "unterminated interpolation", "too deep",
             "expected identifier", "unknown character", "malformed number",
             "unterminated comment"}
\* FRAG, OPEN, CLOSE and BARE are the kinds a marked string rule asks for.
Kinds == Invalids \cup
  {"IDENT", "KEYWORD", "INT", "FLOAT", "STRING", "CHAR", "OP", "PUNCT", "COMMENT",
   "NEWLINE", "FRAG", "OPEN", "CLOSE", "BARE", "EOF"}

VARIABLES
  src, cfg,     \* the source and the configuration
  phase,        \* "run", "done" when kavak_lex returned 0, "failed" when it returned -1
  pos,          \* lex.pos
  stack,        \* the live activations of the string and interpolation scanners
  interpDepth,  \* lex.interp_depth
  tokens,
  notes         \* diagnostics that come without a token

vars == <<src, cfg, phase, pos, stack, interpDepth, tokens, notes>>

Token == [kind : Kinds, from : Nat, to : Nat, v : 0..3]

Top  == stack[Len(stack)]
Rest == SubSeq(stack, 1, Len(stack) - 1)

\* The activations of scan_interpolation_expression that are live.
Interps == {i \in DOMAIN stack : stack[i].is = "interp"}

TypeOK ==
  /\ phase \in {"run", "done", "failed"}
  /\ pos \in 1..Len(src) + 1
  /\ tokens \in Seq(Token)
  /\ \A i \in DOMAIN tokens : tokens[i].from <= tokens[i].to /\ tokens[i].to <= pos
  /\ interpDepth \in 0..MaxInterpDepth
  /\ interpDepth = Cardinality(Interps)
-----------------------------------------------------------------------------
(* The scanner substrate.                                                  *)

Digits     == {"0", "1", "8"}
Letters    == {"a", "b", "e", "o", "u", "x", "z"}
IdentStart == Letters \cup {"under"}
IdentCont  == IdentStart \cup Digits
Puncts     == {"(", ")", "[", "]", "{", "}", ",", ";", ":", "."}

At(p) == IF p <= Len(src) THEN src[p] ELSE "eof"

\* match_lit_at
Matches(lit, p) == p + Len(lit) - 1 <= Len(src) /\ SubSeq(src, p, p + Len(lit) - 1) = lit

\* The rules, each with a spelling `open`, whose spelling is the longest at p.
Longest(rules, p) ==
  LET hits == {r \in rules : Matches(r.open, p)}
  IN  {r \in hits : \A s \in hits : Len(s.open) <= Len(r.open)}

\* The end of the run of characters of S that starts at p.
RunEnd(S, p) ==
  CHOOSE e \in p..Len(src) + 1 : At(e) \notin S /\ \A i \in p..e - 1 : src[i] \in S

Made(kind, to) == <<[kind |-> kind, from |-> pos, to |-> to, v |-> 0]>>
MadeFrom(kind, from, to, v) == <<[kind |-> kind, from |-> from, to |-> to, v |-> v]>>

\* Push these tokens and go on with these activations; or a push fails, and
\* every live activation returns the failure, giving its depth back.
Step(made, stackAfter, depthAfter) ==
  \/ /\ tokens' = tokens \o made
     /\ stack' = stackAfter
     /\ interpDepth' = depthAfter
     /\ UNCHANGED phase
  \/ /\ cfg.mayFail
     /\ \E n \in 0..Len(made) - 1 : tokens' = tokens \o SubSeq(made, 1, n)
     /\ stack' = <<>>
     /\ interpDepth' = interpDepth - Cardinality(Interps)
     /\ phase' = "failed"

fixed == <<src, cfg>>
-----------------------------------------------------------------------------
(* Scanning code: the loop of kavak_lex and that of an interpolation.      *)

InCode  == phase = "run" /\ (stack # <<>> => Top.is = "interp")
AtBlank == At(pos) \in {"sp", "nl"}

\* Wrong: the closing delimiter is looked for at any depth of brackets.
M_AtClose == stack # <<>> /\ Matches(Top.close, pos)
AtClose == stack # <<>> /\ Top.pairs = 0 /\ Matches(Top.close, pos)

\* skip_whitespace, finish_physical_line and skip_interpolation_whitespace.
SkipBlank ==
  /\ InCode
  /\ AtBlank
  /\ Step(IF At(pos) = "nl" /\ cfg.emitNewlines THEN Made("NEWLINE", pos + 1) ELSE <<>>,
          stack, interpDepth)
  /\ pos' = pos + 1
  /\ UNCHANGED <<fixed, notes>>

AtToken == InCode /\ ~AtBlank /\ pos <= Len(src) /\ ~AtClose

PairedOpen(close) ==
  IF close = <<"}">> THEN <<"{">> ELSE IF close = <<")">> THEN <<"(">>
  ELSE IF close = <<"]">> THEN <<"[">> ELSE <<>>

\* The activations once the token at pos is scanned: the interpolation around
\* it counts the brackets that pair with its closing delimiter.
Counted ==
  IF stack = <<>> THEN <<>>
  ELSE LET opener == PairedOpen(Top.close)
           pairs  == IF opener # <<>> /\ Matches(opener, pos) THEN Top.pairs + 1
                     ELSE IF Top.pairs > 0 /\ Matches(Top.close, pos) THEN Top.pairs - 1
                     ELSE Top.pairs
       IN  Append(Rest, [Top EXCEPT !.pairs = pairs])

\* Wrong: a scanner that makes no token does not advance.
M_Claim(made, to) ==
  /\ Step(made, Counted, interpDepth)
  /\ pos' = IF made = <<>> THEN pos ELSE to
  /\ UNCHANGED <<fixed, notes>>
\* A scanner claims the text up to `to` and makes these tokens.
Claim(made, to) ==
  /\ Step(made, Counted, interpDepth)
  /\ pos' = to
  /\ UNCHANGED <<fixed, notes>>
-----------------------------------------------------------------------------
(* Comments.                                                               *)

CommentsHere == Longest(cfg.comments, pos)

\* Where a block comment that opened before `from` ends, and whether it is closed.
BlockEnd(rule, from) ==
  LET end[at \in Nat \X (Nat \ {0})] ==
        LET p == at[1]
            d == at[2]
        IN  IF p > Len(src) THEN [to |-> p, closed |-> FALSE]
            ELSE IF rule.nest /\ Matches(rule.open, p) THEN end[<<p + Len(rule.open), d + 1>>]
            ELSE IF Matches(rule.close, p)
                 THEN IF d = 1 THEN [to |-> p + Len(rule.close), closed |-> TRUE]
                               ELSE end[<<p + Len(rule.close), d - 1>>]
            ELSE end[<<p + 1, d>>]
  IN  end[<<from, 1>>]

\* Where a line comment whose text starts at `from` ends.
LineEnd(from) ==
  CHOOSE e \in from..Len(src) + 1 :
    At(e) \in {"nl", "eof"} /\ \A i \in from..e - 1 : src[i] # "nl"

ScanComment ==
  /\ AtToken
  /\ \E rule \in CommentsHere :
       LET body == pos + Len(rule.open)
           line == rule.close = <<"nl">>
           end  == IF line THEN [to |-> LineEnd(body), closed |-> TRUE]
                   ELSE BlockEnd(rule, body)
       IN  Claim(IF ~end.closed THEN Made("unterminated comment", end.to)
                 ELSE IF rule.kept THEN Made("COMMENT", end.to) ELSE <<>>, end.to)
-----------------------------------------------------------------------------
(* Numbers.                                                                *)

Flag(f) == f \in cfg.numbers

DigitValue(c) ==
  CASE c = "0" -> 0 [] c = "1" -> 1 [] c = "8" -> 8 [] c = "a" -> 10
    [] c = "b" -> 11 [] c = "e" -> 14 [] OTHER -> 99
IsDigit(p, base) == p <= Len(src) /\ DigitValue(src[p]) < base

\* Wrong: a run of underscores is consumed whatever follows it.
M_ScanDigits(from, base) ==
  RunEnd({c \in IdentCont : DigitValue(c) < base} \cup (IF Flag("under") THEN {"under"} ELSE {}), from)
\* scan_digits: underscores are consumed between digits only.
ScanDigits(from, base) ==
  LET end[p \in Nat] ==
        IF IsDigit(p, base) THEN end[p + 1]
        ELSE IF At(p) = "under" /\ Flag("under") /\ p > from /\ IsDigit(RunEnd({"under"}, p), base)
             THEN end[RunEnd({"under"}, p)]
        ELSE p
  IN  end[from]

Fraction(p) ==
  IF Flag("float") /\ At(p) = "." /\ IsDigit(p + 1, 10) THEN ScanDigits(p + 1, 10) ELSE p
Exponent(p) ==
  LET sign == IF At(p + 1) \in {"+", "-"} THEN p + 2 ELSE p + 1
  IN  IF Flag("exponent") /\ At(p) = "e" /\ IsDigit(sign, 10) THEN ScanDigits(sign, 10) ELSE p

\* consume_number_suffix
Suffixed(p) ==
  LET best == Longest({[open |-> s] : s \in cfg.suffixes}, p)
  IN  IF best = {} THEN p
      ELSE LET after == p + Len((CHOOSE s \in best : TRUE).open)
           IN  IF Flag("boundary") /\ At(after) \in IdentCont THEN p ELSE after

\* The base of a prefix "0x", "0o" or "0b" that is enabled, or 10.
BaseHere ==
  IF At(pos) # "0" THEN 10
  ELSE IF At(pos + 1) = "x" /\ Flag("hex") THEN 16
  ELSE IF At(pos + 1) = "o" /\ Flag("oct") THEN 8
  ELSE IF At(pos + 1) = "b" /\ Flag("bin") THEN 2 ELSE 10

LeadingDot == Flag("dot") /\ Flag("float") /\ At(pos) = "." /\ IsDigit(pos + 1, 10)
NumberHere == LeadingDot \/ IsDigit(pos, 10)

\* emit_number
ClaimNumber(kind, core) ==
  LET to == Suffixed(core)
  IN  IF Flag("strict") /\ At(to) \in IdentCont
      THEN LET run == RunEnd(IdentCont, to) IN Claim(Made("malformed number", run), run)
      ELSE Claim(Made(kind, to), to)

ScanNumber ==
  /\ AtToken
  /\ CommentsHere = {} /\ Longest(cfg.strings, pos) = {}
  /\ NumberHere
  /\ IF BaseHere # 10
     THEN LET end == ScanDigits(pos + 2, BaseHere)
          IN  IF end = pos + 2 THEN Claim(Made("malformed number", end), end)
              ELSE ClaimNumber("INT", end)
     ELSE LET whole == IF LeadingDot THEN pos ELSE ScanDigits(pos, 10)
              end   == Exponent(Fraction(whole))
          IN  ClaimNumber(IF end > whole THEN "FLOAT" ELSE "INT", end)
-----------------------------------------------------------------------------
(* Identifiers, operators, and what no scanner claims.                     *)

\* A keyword keeps its kind unless it is a soft one.
IdentKind(from, to) ==
  IF SubSeq(src, from, to - 1) \in cfg.keywords \ cfg.softKeywords THEN "KEYWORD" ELSE "IDENT"

ScanIdentifier ==
  /\ AtToken
  /\ CommentsHere = {} /\ Longest(cfg.strings, pos) = {}
  /\ At(pos) \in IdentStart
  /\ LET to == RunEnd(IdentCont, pos) IN Claim(Made(IdentKind(pos, to), to), to)

Unclaimed == /\ CommentsHere = {} /\ Longest(cfg.strings, pos) = {}
             /\ ~NumberHere /\ At(pos) \notin IdentStart
OperatorsHere == Longest({[open |-> op] : op \in cfg.operators}, pos)

ScanOperator ==
  /\ AtToken
  /\ Unclaimed
  /\ \/ \E op \in OperatorsHere : Claim(Made("OP", pos + Len(op.open)), pos + Len(op.open))
     \/ /\ OperatorsHere = {} /\ At(pos) \in Puncts
        /\ Claim(Made("PUNCT", pos + 1), pos + 1)

\* Both loops: an unclaimed byte is skipped, and counts as no bracket.
ScanUnknown ==
  /\ AtToken
  /\ Unclaimed /\ OperatorsHere = {} /\ At(pos) \notin Puncts
  /\ Step(Made("unknown character", pos + 1), stack, interpDepth)
  /\ pos' = pos + 1
  /\ UNCHANGED <<fixed, notes>>
-----------------------------------------------------------------------------
(* try_scan_string.                                                        *)

StringFrame(rule) ==
  [is |-> "string", rule |-> rule, start |-> pos, fragment |-> pos, had |-> FALSE,
   close |-> <<>>, pairs |-> 0]

OpenString ==
  /\ AtToken
  /\ CommentsHere = {}
  /\ \E rule \in Longest(cfg.strings, pos) :
       /\ Step(<<>>, Append(Counted, StringFrame(rule)), interpDepth)
       /\ pos' = pos + Len(rule.open)
  /\ UNCHANGED <<fixed, notes>>

InString  == phase = "run" /\ stack # <<>> /\ Top.is = "string"
Rule      == Top.rule
Cut(p)    == At(p) = "eof" \/ (At(p) = "nl" /\ ~Rule.multiline)
AtEscape  == At(pos) = "\\" /\ ~Rule.raw
Template  == Rule.interpOpen # <<>>
AfterOpen == pos + Len(Rule.interpOpen)

\* interp_marker_starts_interpolation
AtInterp ==
  /\ Template
  /\ Matches(Rule.interpOpen, pos)
  /\ Rule.interpClose # <<>> \/ At(AfterOpen) = "{" \/ At(AfterOpen) \in IdentStart
AtStringClose == Matches(Rule.close, pos)
AtText == InString /\ ~Cut(pos) /\ ~AtStringClose

\* The literal ends with this token, from the last fragment on.
EndString(kind, v, to) ==
  /\ Step(MadeFrom(kind, Top.fragment, to, v), Rest, interpDepth)
  /\ pos' = to
  /\ UNCHANGED <<fixed, notes>>

CutString ==
  /\ InString
  /\ \/ /\ Cut(pos)
        /\ EndString("unterminated string", 0, pos)
     \/ /\ AtText /\ ~AtInterp /\ AtEscape /\ Cut(pos + 1)
        /\ EndString("unterminated string", 0, pos + 1)

Tagged == Rule.marked /\ Top.had

CloseString ==
  /\ InString /\ ~Cut(pos)
  /\ AtStringClose
  /\ EndString(IF Tagged THEN "FRAG" ELSE Rule.kind, IF Tagged THEN 3 ELSE 0,
               pos + Len(Rule.close))

Undecodable == {"bad", "lead"}
\* utf8_recovery_len: what is left of what the byte announces.
RecoveryLen(p) == IF At(p) = "lead" /\ p < Len(src) THEN 2 ELSE 1

\* One character of text, or one escape, which hides what follows it.
Text ==
  /\ AtText
  /\ ~AtInterp
  /\ ~(AtEscape /\ Cut(pos + 1))
  /\ pos' = IF AtEscape THEN pos + 1 + RecoveryLen(pos + 1) ELSE pos + 1
  /\ notes' = notes \cup
       (IF AtEscape
        THEN (IF At(pos + 1) \in Undecodable THEN {<<"UTF-8", pos + 1>>} ELSE {})
               \cup (IF At(pos + 1) \in Rule.escapes THEN {} ELSE {<<"escape", pos>>})
        ELSE IF At(pos) \in Undecodable THEN {<<"UTF-8", pos>>} ELSE {})
  /\ UNCHANGED <<fixed, phase, stack, interpDepth, tokens>>
-----------------------------------------------------------------------------
(* Interpolations.                                                         *)

\* The text since the last fragment: 1 for the head of the literal, 2 inside it.
FragmentBefore ==
  IF Top.fragment = pos THEN <<>>
  ELSE IF Rule.marked
       THEN MadeFrom("FRAG", Top.fragment, pos, IF Top.fragment = Top.start THEN 1 ELSE 2)
  ELSE MadeFrom("STRING", Top.fragment, pos, 0)

\* The two openers that are followed by code: an explicit one, and "${".
DualBrace   == Rule.interpClose = <<>> /\ Rule.interpOpen = <<"$">> /\ At(AfterOpen) = "{"
Delimited   == Rule.interpClose # <<>> \/ DualBrace
InterpClose == IF DualBrace THEN <<"}">> ELSE Rule.interpClose
BodyStart   == IF DualBrace THEN AfterOpen + 1 ELSE AfterOpen
OpenMarker  == IF Rule.marked THEN Made("OPEN", BodyStart) ELSE <<>>

\* The string's activation once its interpolation is over at `to`.
Resumed(to) == [Top EXCEPT !.had = TRUE, !.fragment = to]

EnterInterpolation ==
  /\ AtText /\ AtInterp
  /\ Delimited
  /\ interpDepth < MaxInterpDepth
  /\ Step(FragmentBefore \o OpenMarker,
          Rest \o <<[Top EXCEPT !.had = TRUE],
                    [Top EXCEPT !.is = "interp", !.start = pos, !.close = InterpClose]>>,
          interpDepth + 1)
  /\ pos' = BodyStart
  /\ UNCHANGED <<fixed, notes>>

\* The rest of the literal is then scanned as the code around it.
InterpolationTooDeep ==
  /\ AtText /\ AtInterp
  /\ Delimited
  /\ interpDepth >= MaxInterpDepth
  /\ Step(FragmentBefore \o OpenMarker \o Made("too deep", BodyStart), Rest, interpDepth)
  /\ pos' = BodyStart
  /\ UNCHANGED <<fixed, notes>>

\* scan_bare_interpolation_identifier; the marker of another shape than "$"
\* does not enter the braces it announced.
BareInterpolation ==
  /\ AtText /\ AtInterp
  /\ ~Delimited
  /\ LET to == RunEnd(IdentCont, AfterOpen)
     IN  IF At(AfterOpen) \in IdentStart
         THEN /\ Step(FragmentBefore \o
                        (IF Rule.marked THEN Made("BARE", to)
                         ELSE MadeFrom(IdentKind(AfterOpen, to), AfterOpen, to, 0)),
                      Append(Rest, Resumed(to)), interpDepth)
              /\ pos' = to
         ELSE /\ Step(FragmentBefore \o Made("expected identifier", AfterOpen), Rest, interpDepth)
              /\ pos' = AfterOpen
  /\ UNCHANGED <<fixed, notes>>

InInterp == InCode /\ stack # <<>> /\ ~AtBlank

\* Wrong: the literal goes on at the closing delimiter.
M_ResumeAt == pos
ResumeAt == pos + Len(Top.close)

CloseInterpolation ==
  /\ InInterp
  /\ AtClose
  /\ Step(IF Rule.marked THEN Made("CLOSE", pos + Len(Top.close)) ELSE <<>>,
          Append(SubSeq(stack, 1, Len(stack) - 2),
                 [stack[Len(stack) - 1] EXCEPT !.fragment = ResumeAt]),
          interpDepth - 1)
  /\ pos' = pos + Len(Top.close)
  /\ UNCHANGED <<fixed, notes>>

\* Wrong: the depth is not given back.
M_DepthAfterCut == interpDepth
DepthAfterCut == interpDepth - 1

\* The end of the source ends the interpolation and the literal around it.
CutInterpolation ==
  /\ InInterp
  /\ pos > Len(src)
  /\ Step(MadeFrom("unterminated interpolation", Top.start, pos, 0),
          SubSeq(stack, 1, Len(stack) - 2), DepthAfterCut)
  /\ UNCHANGED <<fixed, pos, notes>>
-----------------------------------------------------------------------------
Finish ==
  /\ phase = "run" /\ stack = <<>> /\ pos > Len(src)
  /\ \/ tokens' = tokens \o Made("EOF", pos) /\ phase' = "done"
     \/ cfg.mayFail /\ UNCHANGED tokens /\ phase' = "failed"
  /\ UNCHANGED <<fixed, pos, stack, interpDepth, notes>>

Returned == phase # "run" /\ UNCHANGED vars

Init ==
  /\ \E call \in Calls : src = call[1] /\ cfg = call[2]
  /\ phase = "run"
  /\ pos = 1
  /\ stack = <<>>
  /\ interpDepth = 0
  /\ tokens = <<>>
  /\ notes = {}

Next ==
  \/ SkipBlank
  \/ ScanComment \/ OpenString \/ ScanNumber \/ ScanIdentifier \/ ScanOperator \/ ScanUnknown
  \/ CutString \/ CloseString \/ Text
  \/ EnterInterpolation \/ InterpolationTooDeep \/ BareInterpolation
  \/ CloseInterpolation \/ CutInterpolation
  \/ Finish \/ Returned

Spec == Init /\ [][Next]_vars
\* kavak_lex is one sequential call: it runs until it returns.
FairSpec == Spec /\ WF_vars(Next)
=============================================================================
