------------------------------- MODULE PrattTree -------------------------------
(***************************************************************************)
(* What a tree of Pratt must be, said of the finished nodes and the tokens *)
(* alone: which tokens it derives and which operator binds which operand.  *)
(* Both are said node by node: the span of a node names the tokens it      *)
(* stands on, so a tree whose every node is derived from the spans of its  *)
(* children derives its tokens.                                            *)
(*                                                                         *)
(* The operators read the tokens t and the arena g; n and m are nodes.     *)
(***************************************************************************)
EXTENDS Pratt

\* A unary node is prefix when its operator stands before its operand.
IsPrefix(n)  == n.kind = "unary" /\ n.tok = n.span.start + 1
IsPostfix(n) == n.kind = "unary" /\ ~IsPrefix(n)

Takes(n)  == n.kind = "binary" \/ IsPrefix(n)   \* has an operand on its right
Joined(n) == n.kind \in {"binary", "selector"} \/ IsPostfix(n)

KidsOf(n)  == {n.kids[i] : i \in 1..Len(n.kids)}
\* The operand that ends (begins) where the node does.
RightOf(n) == IF Takes(n) THEN {n.kids[Len(n.kids)]} ELSE {}
LeftOf(n)  == IF Joined(n) \/ n.kind = "call" THEN {n.kids[1]} ELSE {}

\* The nodes reached from id in the arena g, from each to those in next.
Reached(g, id, next) ==
  LET upto[k \in 0..Len(g)] ==
        IF k = 0 THEN {id}
        ELSE LET before == upto[k - 1] IN before \cup UNION {next[n] : n \in before}
  IN  upto[Len(g)]

\* The nodes of the tree, and those whose last (first) token is the tree's.
Below(g, id)     == Reached(g, id, [n \in DOMAIN g |-> KidsOf(g[n])])
RightEdge(g, id) == Reached(g, id, [n \in DOMAIN g |-> RightOf(g[n])])
LeftEdge(g, id)  == Reached(g, id, [n \in DOMAIN g |-> LeftOf(g[n])])
-----------------------------------------------------------------------------
(* The grammar.                                                            *)

\* A span is the tokens from b to e - 1.
Fills(s, b, e) == b < e /\ s.start = b - 1 /\ SpanEnd(s) = e - 1

\* Argument k of a call, its operand counting as the first, ends before a
\* separator, and the next one begins behind that.
Behind(g, n, k) == IF k = 1 THEN n.tok + 1 ELSE SpanEnd(g[n.kids[k]].span) + 2

Separator == ","
\* The arguments of a call stand apart by separators.
Listed(t, g, n) ==
  \A k \in 2..Len(n.kids) :
    /\ Fills(g[n.kids[k]].span, Behind(g, n, k - 1), Behind(g, n, k) - 1)
    /\ k < Len(n.kids) => t[Behind(g, n, k) - 1] = Separator
\* The call closes at e, the last separator being optional.
Closed(t, g, n, e) ==
  LET last == Behind(g, n, Len(n.kids))
  IN  \/ e = last /\ (Len(n.kids) > 1 => t[last - 1] = Separator)
      \/ e = last - 1 /\ Len(n.kids) > 1

\* The node is what the grammar makes of its tokens and its children's spans.
Derived(t, g, n) ==
  LET first == n.span.start + 1
      last  == SpanEnd(n.span)
      one   == Len(n.kids) = 1
      Kid1(b, e) == Fills(g[n.kids[1]].span, b, e + 1)
      Kid2(b, e) == Fills(g[n.kids[2]].span, b, e + 1)
  IN  /\ first <= last
      /\ \/ n.kind = "ident"    /\ n.tok = first /\ first = last /\ t[first] = "id"
                                /\ n.kids = <<>>
         \/ n.kind = "literal"  /\ n.tok = first /\ first = last /\ t[first] = "lit"
                                /\ n.kids = <<>>
         \/ n.kind = "group"    /\ one /\ n.tok = first /\ t[first] = "(" /\ t[last] = ")"
                                /\ Kid1(first + 1, last - 1)
         \/ IsPrefix(n)         /\ one /\ IsOperator(t[first], "prefix") /\ Kid1(first + 1, last)
         \/ IsPostfix(n)        /\ one /\ n.tok = last /\ IsOperator(t[last], "postfix")
                                /\ Kid1(first, last - 1)
         \/ n.kind = "selector" /\ one /\ n.tok = last /\ t[last] = "id"
                                /\ IsOperator(t[last - 1], "selector") /\ Kid1(first, last - 2)
         \/ n.kind = "binary"   /\ Len(n.kids) = 2 /\ IsOperator(t[n.tok], "infix")
                                /\ Kid1(first, n.tok - 1) /\ Kid2(n.tok + 1, last)
         \/ n.kind = "call"     /\ n.kids # <<>> /\ t[n.tok] = "(" /\ t[last] = ")"
                                /\ Kid1(first, n.tok - 1)
                                /\ Listed(t, g, n) /\ Closed(t, g, n, last)

(* An expression parsed without a diagnostic derives exactly the tokens it *)
(* consumed, every bracket, comma, operator and operand in its place: what *)
(* the table-driven loop, the groups and the calls build together          *)
(* (src/src/parser.c:404 kavak_parse_expression).                          *)
DerivesItsTokens ==
  Clean => /\ ret # 0 /\ Fills(nodes[ret].span, start.pos, pos)
           /\ \A id \in Below(nodes, ret) : Derived(toks, nodes, nodes[id])
-----------------------------------------------------------------------------
(* Precedence and associativity.                                           *)

OpOf(t, n) ==
  IF IsPrefix(n) THEN OperatorFor(t[n.tok], "prefix")
  ELSE IF IsPostfix(n) THEN OperatorFor(t[n.tok], "postfix")
  ELSE OperatorFor(t[IF n.kind = "selector" THEN n.tok - 1 ELSE n.tok], "infix")

\* The weakest operator that an operator's right operand may be made with.
RightMin(t, n) ==
  IF IsPrefix(n) \/ OpOf(t, n).assoc = "right" THEN OpOf(t, n).prec ELSE OpOf(t, n).prec + 1

\* An infix operator after one of the same precedence that does not associate.
Chain(t, m, n) ==
  /\ m.kind = "binary" /\ OpOf(t, m).assoc = "none"
  /\ n.kind \in {"binary", "selector"} /\ OpOf(t, n).prec = OpOf(t, m).prec

\* With m at the end of its left operand n has not taken what was m's.
BindsLeft(t, g, n) ==
  \A l \in LeftOf(n) : \A m \in RightEdge(g, l) :
    Takes(g[m]) => /\ n.kind # "call"
                   /\ OpOf(t, n).prec < RightMin(t, g[m])
                   /\ ~Chain(t, g[m], n)
\* No operator asks for more on its right than the greatest precedence:
\* NextMin does not saturate.
NoClamp ==
  \A i \in DOMAIN Operators :
    "infix" \in Operators[i].roles /\ Operators[i].prec = MaxPrec =>
      Operators[i].assoc = "right"
\* What stands at the beginning of its right operand binds tightly enough.
BindsRight(t, g, n) ==
  \A r \in RightOf(n) : \A m \in LeftEdge(g, r) :
    Joined(g[m]) => OpOf(t, g[m]).prec >= RightMin(t, n)

(* "binding power (higher = tighter)" and associativity                    *)
(* (src/include/kavak.h:549): in a tree parsed without a diagnostic no     *)
(* operator on the right edge of a left operand would have bound the       *)
(* operator that follows, every operator on the left edge of a right       *)
(* operand binds at least as tightly as its side demands, and operators    *)
(* that do not associate are not chained.                                  *)
BindsAsDeclared ==
  Clean => \A id \in Below(nodes, ret) :
             BindsLeft(toks, nodes, nodes[id]) /\ BindsRight(toks, nodes, nodes[id])
=============================================================================
