------------------------------- MODULE MCPratt --------------------------------
(* The operator tables and token streams on which TLC checks Pratt.        *)
EXTENDS PrattRef

Op(symbol, prec, assoc, roles) ==
  [symbol |-> symbol, prec |-> prec, assoc |-> assoc, roles |-> roles]

\* One operator of each associativity; a sign and a weak negation; a postfix
\* mark; a selector that binds tightest.
Table ==
  << Op("=", 1, "right", {"infix"}), Op("<", 3, "none", {"infix"}),
     Op("+", 4, "left", {"infix"}), Op("*", 5, "left", {"infix"}),
     Op("+", 6, "left", {"prefix"}), Op("~", 2, "right", {"prefix"}),
     Op("!", 4, "left", {"postfix"}), Op(".", 7, "left", {"infix", "selector"}) >>

Strings(symbols, n) == UNION {[1..k -> symbols] : k \in 0..n}
Ended(strings) == {Append(s, "eof") : s \in strings}

\* Two or three operands, with prefix and postfix operators of their own, and
\* four plain ones.
Operands == { <<"id">>, <<"+", "id">>, <<"~", "id">>, <<"id", "!">>, <<"id", ".", "id">> }
Joins    == {"=", "<", "+", "*"}
Joined2(left, right) == {a \o <<o>> \o b : a \in left, b \in right, o \in Joins}
Chains == Joined2(Operands, Joined2(Operands, Operands))
Plain  == Joined2({<<"id">>}, Joined2({<<"id">>}, Joined2({<<"id">>}, {<<"id">>})))

\* Any tokens at all, brackets and commas among them.
Noise == Strings({"id", "(", ")", ",", ";", "+", "."}, 3) \cup Strings({"id", "(", ")", ","}, 4)

GrammarPrograms == Ended(Chains \cup Plain \cup Noise)

\* Short streams of any tokens, and a few that nest calls, groups and lists.
Nested == { <<"id", "(", "id", ",", "+", "id", ")">>, <<"(", "id", "+", "id", ")", "!">>,
            <<"id", "(", ")", "(", "id", ",", ")">>, <<"id", ".", "id", "+", "id">>,
            <<"id", "<", "id", "<", "id">>, <<"id", ".", "(", "id">>,
            <<"+", "(", "+", "id">> }
AllocPrograms == Ended(Nested \cup Strings({"id", "(", ",", ")", "+", "!"}, 2))
StallPrograms == Ended(Strings({"id", "+", ";"}, 3))

NoPrograms == {}

Targets == { {";"}, {";", ",", ")"} }
=============================================================================
