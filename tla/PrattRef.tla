------------------------------- MODULE PrattRef -------------------------------
(***************************************************************************)
(* What the parser of Pratt must do over several calls: what it makes when *)
(* an attempt is repeated, and that it gets on.                            *)
(***************************************************************************)
EXTENDS PrattTree

RECURSIVE SameTree(_, _)
SameTree(a, b) ==
  IF a = 0 \/ b = 0 THEN a = b
  ELSE /\ nodes[a].kind = nodes[b].kind
       /\ nodes[a].tok = nodes[b].tok
       /\ nodes[a].span = nodes[b].span
       /\ KidCount(a) = KidCount(b)
       /\ \A i \in 1..KidCount(a) : SameTree(Kid(a, i), Kid(b, i))

(* A rewound attempt leaves no trace: parsing again from the checkpoint    *)
(* gives the same tree, cursor and diagnostics (src/src/parser.c:312).     *)
RetryIsIdentical ==
  Finishing /\ attempt.made /\ ~mayFail =>
    attempt.pos = pos /\ attempt.diags = diags /\ SameTree(attempt.root, ret)

(* "so an outer descriptor parse loop always makes progress"               *)
(* (src/src/parser.c:481): every call consumes a token.                    *)
ExpressionAdvances == Finishing => pos > start.pos

\* Without allocation failures every statement ends and the loop reaches the
\* end of the file.
ReachesEnd == ~mayFail => <>AtEnd
=============================================================================
