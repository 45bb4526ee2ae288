----------------------------- MODULE MCSession -----------------------------
(* A language with a parser and one without, a text of two lines and one   *)
(* that is too long; for the client's own source every text of three       *)
(* pieces out of the newlines and their fragments, and texts of many lines.*)
EXTENDS Session

Default == {}
TwoLanguages == {[flags |-> Default, parses |-> TRUE], [flags |-> {"LF"}, parses |-> FALSE]}
SomeTexts == {<<10, 97>>, [i \in 1..13 |-> 97]}

Pieces ==
  {<<10>>, <<13>>, <<97>>, <<194, 133>>, <<226, 128, 168>>, <<226, 128, 169>>, <<194>>,
   <<226, 128>>, <<133>>, <<237, 160, 133>>, <<224, 130, 133>>, <<240, 144, 128, 168>>}
OwnChoices == {x \o y \o z : x \in Pieces, y \in Pieces, z \in Pieces}
                \cup {[i \in 1..n |-> 10] : n \in 1..12}
Policies == {Default, {"CR", "UNICODE"}, {"LF", "CRLF"}, {"CRLF", "UNICODE"},
             {"LF", "CRLF", "CR", "UNICODE"}}
=============================================================================
