-------------------------------- MODULE MCSema --------------------------------
(* The trees and narrowings on which TLC checks Sema: a root over a few    *)
(* statements.                                                             *)
EXTENDS SemaRef

N(kind, type, size) == [kind |-> kind, name |-> "x", type |-> type, size |-> size]
Use == N("ident", "A", 1)
Y(node) == <<[node EXCEPT !.name = "y"]>>
\* A node over these statements.
Over(kind, type, body) == <<N(kind, type, Len(body) + 1)>> \o body

Leaves == { <<Use>>, Over("let", "A", <<>>), Over("let", "B", <<Use>>),
            Over("fn", "C", <<>>), Over("guard", "D", <<Use>>) }
Nested == { Over("block", "A", s \o <<Use>>) : s \in Leaves }
            \cup { Over("branch", "B", <<Use>>), Over("group", "A", <<Use>>),
                   Over("branch", "D", Over("block", "A", Over("let", "C", <<>>) \o <<Use>>)),
                   Over("group", "A", Over("group", "A", <<Use>>)),
                   Over("block", "A", Y(N("let", "D", 1)) \o <<Use>> \o Y(Use)) }
Statements == Leaves \cup Nested

Roots(programs) == {Over(kind, "A", b) : kind \in {"group", "block"}, b \in programs}
PostTrees    == {Over("group", "A", a \o Over("let", "A", <<>>)) :
                   a \in {Over("fn", "C", <<>>), Over("guard", "D", <<Use>>)}}
SemaTrees    == PostTrees \cup Roots({a \o b \o c : a, b, c \in Statements})
SmallTrees   == Roots({a \o b : a, b \in Statements})

List(ts) == [i \in 1..Len(ts) |-> [name |-> "x", type |-> ts[i]]]
Lists == { List(<<>>), List(<<"A">>), List(<<"B", "D">>), List(<<"A", Unknown>>) }
=============================================================================
