----------------------------- MODULE LexScanRef ------------------------------
(***************************************************************************)
(* What the scanners of LexScan must produce, said of the source alone:    *)
(* the tokens that a grammar of templates derives together with the text,  *)
(* the spellings that are numbers, and how the tokens cover the source.    *)
(***************************************************************************)
EXTENDS LexScan

\* Texts of well-formed templates, each with the kinds (and v) of its tokens.
CONSTANT Derivations

WellFormed == {d.call : d \in Derivations}
KindsOf(ts) == [i \in DOMAIN ts |-> <<ts[i].kind, ts[i].v>>]

(* A well-formed text gives exactly the tokens its derivation gives:       *)
(* fragments numbered head, interior and tail, markers around the code of  *)
(* each balanced interpolation, and code inside it, strings, brackets and  *)
(* comments included, as at the top level (include/kavak.h:631 "`$` / NULL *)
(* for balanced `${...}`, or `\(` / `)` for parenthesized interpolation",  *)
(* :646 fragment_kind).                                                    *)
DerivesTemplates ==
  phase = "done" /\ <<src, cfg>> \in WellFormed =>
    [call |-> <<src, cfg>>, kinds |-> KindsOf(SubSeq(tokens, 1, Len(tokens) - 1))] \in Derivations
-----------------------------------------------------------------------------
\* The tokens that cover text of their own: a cut or too deep interpolation covers
\* its tokens, or its marker, once more.
Proper == {i \in DOMAIN tokens :
             tokens[i].kind \notin {"unterminated interpolation", "too deep"}}
KeepsAll == (\A r \in cfg.strings : r.marked) /\ (\A c \in cfg.comments : c.kept)
NumberOf(kinds) == Cardinality({i \in DOMAIN tokens : tokens[i].kind \in kinds})
Progress == IF stack # <<>> /\ Top.is = "string" THEN Top.fragment ELSE pos

(* Whatever the source, the tokens lie in source order and apart, and with *)
(* markers and comments kept they leave out nothing but white space        *)
(* (include/kavak.h:772 "Bad bytes produce a KAVAK_TOK_INVALID token over  *)
(* the offending span and a diag, then the lexer advances and keeps        *)
(* going"), in damaged literals and too deep nests as well; and every OPEN *)
(* has its CLOSE, is still open, or was reported.                          *)
TokensTile ==
  /\ \A i, j \in Proper : i < j => tokens[i].to <= tokens[j].from
  /\ KeepsAll /\ phase # "failed" =>
       /\ \A p \in 1..Progress - 1 :
            src[p] \in {"sp", "nl"}
              \/ \E i \in DOMAIN tokens : p \in tokens[i].from..tokens[i].to - 1
       /\ NumberOf({"OPEN"})
            = NumberOf({"CLOSE", "unterminated interpolation", "too deep"})
              + Cardinality(Interps)
-----------------------------------------------------------------------------
Slice(i, j) == SubSeq(src, i, j - 1)

\* Digits, with underscores only between two of them where the style has them.
IsDigits(i, j, base) ==
  /\ i < j
  /\ IsDigit(i, base) /\ IsDigit(j - 1, base)
  /\ \A p \in i..j - 1 : IsDigit(p, base) \/ (src[p] = "under" /\ Flag("under"))

\* A base prefix that the style has, and the base it announces.
Bases == {<<"x", "hex">>, <<"o", "oct">>, <<"b", "bin">>}
Prefixed(i) == src[i] = "0" /\ \E m \in Bases : At(i + 1) = m[1] /\ Flag(m[2])
PrefixBase(i) == IF At(i + 1) = "x" THEN 16 ELSE IF At(i + 1) = "o" THEN 8 ELSE 2

\* Digits with a fraction, an exponent or both, the digits ending at a.
IsDecimal(i, a, j) ==
  \E b \in a..j :
    /\ IsDigits(i, a, 10) \/ (a = i /\ a < b /\ Flag("dot"))
    /\ b = a \/ (Flag("float") /\ src[a] = "." /\ IsDigits(a + 1, b, 10))
    /\ b = j \/ /\ Flag("exponent") /\ src[b] = "e"
                /\ IsDigits(IF At(b + 1) \in {"+", "-"} THEN b + 2 ELSE b + 1, j, 10)

\* The text from i to j is a number of this kind, without its suffix.
IsCore(kind, i, j) ==
  IF Prefixed(i) THEN kind = "INT" /\ IsDigits(i + 2, j, PrefixBase(i))
  ELSE \E a \in i..j : IsDecimal(i, a, j) /\ kind = IF j = a THEN "INT" ELSE "FLOAT"

Beyond(i)    == i + 1..Len(src) + 1
LongestOf(S) == {j \in S : \A k \in S : k <= j}
Cores(i)     == {j \in Beyond(i) : \E kind \in {"INT", "FLOAT"} : IsCore(kind, i, j)}

\* Where a number ends whose digits end at `core`: behind the longest suffix,
\* unless the style has it stand apart from a name and it does not.
NumberEnds(core) ==
  LET longest == LongestOf({j \in Beyond(core) : Slice(core, j) \in cfg.suffixes})
      free    == {j \in longest : Flag("boundary") => At(j) \notin IdentCont}
  IN  IF free = {} THEN {core} ELSE free

IsNumber(kind, i, j) ==
  \E core \in LongestOf(Cores(i)) : IsCore(kind, i, core) /\ j \in NumberEnds(core)

Scanned(t) ==
  /\ IsNumber(t.kind, t.from, t.to)
  /\ Flag("strict") => At(t.to) \notin IdentCont
Rejected(t) ==
  IF Cores(t.from) = {} THEN Prefixed(t.from) /\ t.to = t.from + 2
  ELSE /\ Flag("strict") /\ At(t.to) \notin IdentCont
       /\ \E j \in t.from + 1..t.to - 1 :
            /\ \E kind \in {"INT", "FLOAT"} : IsNumber(kind, t.from, j)
            /\ \A p \in j..t.to - 1 : src[p] \in IdentCont

Malformed == "malformed number"
NumberToken(t) ==
  /\ t.kind \in {"INT", "FLOAT"} => Scanned(t)
  /\ t.kind = Malformed => Rejected(t)

(* A number token is the longest text at its place that the style's        *)
(* grammar of digits, separators, fraction, exponent and base prefix makes *)
(* a number of its kind, with the longest suffix that may follow it        *)
(* (include/kavak.h:565 to 600); a malformed one is a prefix without       *)
(* digits, or, where the style is strict, a number that runs into an       *)
(* identifier, to its end.                                                 *)
NumbersMaximal == \A i \in DOMAIN tokens : NumberToken(tokens[i])

(* kavak_lex returns, whatever the source.                                 *)
Returns == <>(phase # "run")
=============================================================================
