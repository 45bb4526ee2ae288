----------------------------- MODULE MCLexScan ------------------------------
(* The configurations and sources on which TLC checks LexScan: texts of a  *)
(* grammar of templates with the tokens they derive, strings of any        *)
(* delimiters, and strings of the pieces of numbers.                       *)
EXTENDS LexScanRef, SequencesExt

Strings(symbols, n) == UNION {[1..k -> symbols] : k \in 0..n}
Concats(pieces, n)  == {FlattenSeq(s) : s \in Strings(pieces, n)}

\* The dual form `$name` and `${...}`, and the explicit form `\(...)`.
Dual(marked, multiline) ==
  [open |-> <<"q">>, close |-> <<"q">>, raw |-> FALSE, multiline |-> multiline,
   kind |-> "STRING", escapes |-> {"$", "q"}, interpOpen |-> <<"$">>,
   interpClose |-> <<>>, marked |-> marked]
Paren(marked) ==
  [Dual(marked, FALSE) EXCEPT !.interpOpen = <<"\\", "(">>, !.interpClose = <<")">>]
\* A longer opener, raw, and an opener that announces braces it does not enter.
Raw == [Dual(TRUE, TRUE) EXCEPT !.open = <<"q", "q", "q">>, !.close = <<"q", "q", "q">>,
                                !.raw = TRUE]
Hash == [Dual(TRUE, FALSE) EXCEPT !.interpOpen = <<"#">>]

Line(kept)  == [open |-> <<"/", "/">>, close |-> <<"nl">>, nest |-> FALSE, kept |-> kept]
Block(kept) == [open |-> <<"/", "*">>, close |-> <<"*", "/">>, nest |-> TRUE, kept |-> kept]

Config(strings, comments) ==
  [strings |-> strings, comments |-> comments, operators |-> {<<"+">>, <<"+", "+">>},
   keywords |-> {<<"b">>, <<"z">>}, softKeywords |-> {<<"z">>}, numbers |-> {},
   suffixes |-> {}, emitNewlines |-> TRUE, mayFail |-> FALSE]

DualConfig(m)  == Config({Dual(m, FALSE)}, {Line(m), Block(m)})
ParenConfig(m) == Config({Paren(m)}, {Line(m), Block(m)})
-----------------------------------------------------------------------------
(* A grammar of templates: every phrase is a text with the tokens it owes. *)

Phrase(text, kinds) == [text |-> text, kinds |-> kinds]
Seq2(a, b) == Phrase(a.text \o b.text, a.kinds \o b.kinds)
Tok(kind) == <<kind, 0>>

Atoms(m) ==
  { Phrase(<<"a">>, <<Tok("IDENT")>>), Phrase(<<"sp", "b">>, <<Tok("KEYWORD")>>),
    Phrase(<<"+", "+">>, <<Tok("OP")>>), Phrase(<<"nl">>, <<Tok("NEWLINE")>>),
    Phrase(<<"{", "{", "}", "a", "}">>,
           <<Tok("PUNCT"), Tok("PUNCT"), Tok("PUNCT"), Tok("IDENT"), Tok("PUNCT")>>),
    Phrase(<<"(", "(", ")", ")">>, [i \in 1..4 |-> Tok("PUNCT")]),
    Phrase(<<"/", "*", "}", "/", "*", "*", "/", "q", ")", "*", "/">>,
           IF m THEN <<Tok("COMMENT")>> ELSE <<>>) }

Code(m, literals) ==
  Atoms(m) \cup literals \cup {Seq2(x, y) : x \in Atoms(m), y \in literals}
           \cup {Seq2(x, y) : x \in literals, y \in literals}

\* The text between interpolations: escapes, lone markers, closing brackets.
Texts(form) ==
  { <<>>, <<"a">>, <<"\\", "q">>, <<"}">>, <<")">> }
    \cup (IF form = "dual" THEN {<<"\\", "$", "{">>, <<"$", "sp">>} ELSE {})

Braced(m, form, code) ==
  LET open  == IF form = "dual" THEN <<"$", "{">> ELSE <<"\\", "(">>
      close == IF form = "dual" THEN <<"}">> ELSE <<")">>
  IN  Phrase(open \o code.text \o close,
             IF m THEN <<Tok("OPEN")>> \o code.kinds \o <<Tok("CLOSE")>> ELSE code.kinds)
\* A bare name ends at a blank, which belongs to the text after it.
Bare(m) == Phrase(<<"$", "a", "sp">>, <<Tok(IF m THEN "BARE" ELSE "IDENT")>>)

\* A literal without interpolations, with one, and with two.
Plain(t) == Phrase(<<"q">> \o t \o <<"q">>, <<Tok("STRING")>>)
Frag(m, v) == IF m THEN <<"FRAG", v>> ELSE Tok("STRING")
One(m, t, i, u) ==
  Phrase(<<"q">> \o t \o i.text \o u \o <<"q">>, <<Frag(m, 1)>> \o i.kinds \o <<Frag(m, 3)>>)
Two(m, i, t, j) ==
  Phrase(<<"q">> \o i.text \o t \o j.text \o <<"q">>,
         <<Frag(m, 1)>> \o i.kinds \o (IF t = <<>> THEN <<>> ELSE <<Frag(m, 2)>>)
           \o j.kinds \o <<Frag(m, 3)>>)

Flat(form) == {Plain(t) : t \in Texts(form)}
Holes(m, form, literals) ==
  {Braced(m, form, c) : c \in Code(m, literals)}
    \cup (IF form = "dual" THEN {Bare(m)} ELSE {})

Literals1(m, form) ==
  LET holes == Holes(m, form, {Plain(<<>>), Plain(<<"}">>), Plain(<<")">>)})
      few   == {Braced(m, form, c) : c \in {Phrase(<<>>, <<>>), Plain(<<")", "}">>)}}
  IN  {One(m, t, i, u) : t \in Texts(form), i \in holes, u \in {<<>>, <<"}">>}}
        \cup {Two(m, i, t, j) : i \in few, t \in Texts(form) \ {<<"$", "sp">>}, j \in few}
Literals2(m, form) ==
  {One(m, t, i, <<"a">>) :
     t \in {<<>>, <<"a">>},
     i \in Holes(m, form, {l \in Literals1(m, form) : Len(l.text) <= 6})}

ConfigOf(m, form) == IF form = "dual" THEN DualConfig(m) ELSE ParenConfig(m)
Templates(m, form) ==
  Literals1(m, form) \cup Literals2(m, form)
    \cup {Seq2(l, x) : l \in Flat(form), x \in Atoms(m)}

Owed(pairs) == {[call |-> <<p[1].text, p[2]>>, kinds |-> p[1].kinds] : p \in pairs}
TemplateDerivations ==
  Owed(UNION {Templates(m, form) \X {ConfigOf(m, form)} : m \in BOOLEAN, form \in {"dual", "paren"}})
-----------------------------------------------------------------------------
(* Any text.                                                               *)

Delimiters == {"q", "$", "{", "}", "a", "\\", "nl"}
Noise ==
  (Strings(Delimiters, 5) \X {DualConfig(TRUE)})
    \cup (Strings(Delimiters, 3) \X
            {[DualConfig(m) EXCEPT !.mayFail = TRUE] : m \in BOOLEAN})
    \cup (Strings({"q", "$", "{", "}", "bad"}, 4) \X
            {Config({Raw, Dual(TRUE, TRUE)}, {Line(TRUE)}), Config({Hash}, {})})
    \cup (Strings({"q", "\\", "lead", "bad", "nl"}, 4)
            \X {DualConfig(TRUE), Config({Raw, Dual(TRUE, TRUE)}, {})})
    \cup (Strings({"q", "#", "{", "a"}, 4) \X {Config({Hash}, {})})
    \cup (Strings({"/", "*", "nl"}, 5) \X {DualConfig(TRUE), ParenConfig(FALSE)})
\* Interpolations nested past the limit, cut or closed.
Deep ==
  {FlattenSeq([i \in 1..3 |-> <<"q", "$", "{">>]) \o t : t \in Strings({"q", "}", "a"}, 4)}
    \X {DualConfig(m) : m \in BOOLEAN}

\* Numbers of every style.
Pieces == { <<"0", "x">>, <<"0", "b">>, <<"1">>, <<"8">>, <<"under">>, <<".">>, <<"e">>,
            <<"e", "+">>, <<"u">>, <<"u", "z">>, <<"a">> }
Rich   == {"under", "float", "dot", "exponent", "hex", "oct", "bin"}
Styles == { {}, Rich \ {"dot"}, {"float", "dot", "boundary", "hex"} }
NumberStyle(style) ==
  [Config({}, {}) EXCEPT !.numbers = style, !.suffixes = {<<"u">>, <<"u", "z">>}]
NumberCalls ==
  (Concats(Pieces, 4) \X {NumberStyle(Rich \cup {"strict"})})
    \cup (Concats(Pieces, 3) \X {NumberStyle(s) : s \in Styles})

TemplateCalls == {d.call : d \in TemplateDerivations} \cup Noise \cup Deep \cup NumberCalls

\* A comment that opens with the bracket that pairs with the closing delimiter.
Star == [open |-> <<"(", "*">>, close |-> <<"*", ")">>, nest |-> TRUE, kept |-> TRUE]
StarConfig == Config({Paren(TRUE)}, {Star})
StarPhrases ==
  { Phrase(<<"a", "(", "*", "b", "*", ")">>, <<Tok("IDENT"), Tok("COMMENT")>>),
    Phrase(<<"(", "a", ")">>, <<Tok("PUNCT"), Tok("IDENT"), Tok("PUNCT")>>) }
StarDerivations ==
  Owed({One(TRUE, t, Braced(TRUE, "paren", c), u) :
          t \in Texts("paren"), u \in Texts("paren"), c \in StarPhrases} \X {StarConfig})
StarCalls == {d.call : d \in StarDerivations}
=============================================================================
