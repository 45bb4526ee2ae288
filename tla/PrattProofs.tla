----------------------------- MODULE PrattProofs -----------------------------
(***************************************************************************)
(* The expression parser, for every token stream, operator table and       *)
(* limit, allocation failures included: its recursion guard is exact, its  *)
(* variables keep their ranges, its nodes form a forest, its recovery      *)
(* stops outside brackets, the spans of its nodes nest, and its trees      *)
(* derive their tokens and bind as the operator table declares.            *)
(*                                                                         *)
(* None of the first three is inductive by itself.  That an activation     *)
(* that leaves was there to leave takes what each step knows of the stack; *)
(* that the cursor stays on the tokens takes that an operator is never     *)
(* EOF; and that no node is adopted twice takes an order.  An inner        *)
(* activation allocates after the outer ones, so the nodes the frames of   *)
(* the stack have still to place grow from the bottom to the top, what was *)
(* returned is above them all, and no two of them can be the same.         *)
(* ParserInv says all of this.                                             *)
(*                                                                         *)
(* Spans take more: where each activation began, which no variable holds   *)
(* but the frame below it tells, that all it has made lies on the tokens   *)
(* from there to the cursor, and that without a report none of them is     *)
(* left out.  SpansInv says this.                                          *)
(*                                                                         *)
(* Trees take what a walk over one could not tell while it is being built: *)
(* the set of the nodes that are finished, each of them derived from the   *)
(* spans of its children and each with its edges.  What ends where a node  *)
(* does has left the token that follows to others (Free), what begins      *)
(* where it does was taken by a loop of some minimum (Grips), and the      *)
(* frames tell which minimum, so that the operator a loop takes next may   *)
(* be put over the one and under the other.  TreesInv says this.           *)
(***************************************************************************)
EXTENDS PrattTree, Induction, TLAPS, SequenceTheorems, FiniteSetTheorems

(* A prefix of a sequence is a sequence (src/src/parser.c:316, 512).       *)
LEMMA Prefix ==
  ASSUME NEW F, NEW s \in Seq(F), NEW n \in Nat, n <= Len(s)
  PROVE  SubSeq(s, 1, n) \in Seq(F) /\ Len(SubSeq(s, 1, n)) = n
  OBVIOUS
-----------------------------------------------------------------------------
(* Tokens, spans, nodes and diagnostics.                                   *)

(* The tokens of a statement loop end in their only EOF.                   *)
TokensOK ==
  /\ toks \in Seq(STRING) /\ toks # <<>>
  /\ \A i \in 1..Len(toks) : toks[i] = "eof" <=> i = Len(toks)

\* The cursor never leaves the tokens (src/src/parser.c:148 parser_advance).
LEMMA TokensLen == ASSUME TokensOK PROVE Len(toks) \in Nat \ {0}
  BY LenProperties, EmptySeq DEF TokensOK

LEMMA NotEof ==
  ASSUME TokensOK, NEW p \in 1..Len(toks), toks[p] # "eof"
  PROVE  p + 1 \in 1..Len(toks)
<1>1. p # Len(toks)
  BY DEF TokensOK
<1> QED BY <1>1, TokensLen

LEMMA AdvanceOK ==
  ASSUME TokensOK, NEW p \in 1..Len(toks)
  PROVE  Advance(p) \in 1..Len(toks)
  BY NotEof DEF Advance

(* Spans are spans (src/src/span.c, src/src/parser.c:267).                 *)
LEMMA SpanOfOK ==
  ASSUME NEW i \in Nat \ {0}
  PROVE  SpanOf(i) \in Span
<1> DEFINE lo == i - 1
           n  == IF toks[i] = "eof" THEN 0 ELSE 1
<1>1. lo \in Nat /\ n \in Nat
  OBVIOUS
<1>2. SpanOf(i) = [start |-> lo, len |-> n]
  BY DEF SpanOf
<1> HIDE DEF lo, n
<1> QED BY <1>1, <1>2 DEF Span

LEMMA SpanUnionOK ==
  ASSUME NEW a \in Span, NEW b \in Span
  PROVE  SpanUnion(a, b) \in Span
<1> DEFINE from == IF a.start < b.start THEN a.start ELSE b.start
           endA == a.start + a.len
           endB == b.start + b.len
           n    == (IF endA > endB THEN endA ELSE endB) - from
<1>1. /\ a.start \in Nat /\ a.len \in Nat
      /\ b.start \in Nat /\ b.len \in Nat
  BY DEF Span
<1>2. from \in Nat /\ n \in Nat
  BY <1>1
<1>3. SpanUnion(a, b) = IF a.len = 0 THEN b ELSE IF b.len = 0 THEN a
                        ELSE [start |-> from, len |-> n]
  BY DEF SpanUnion
<1> HIDE DEF from, n
<1>4. [start |-> from, len |-> n] \in Span
  BY <1>2 DEF Span
<1> QED BY <1>3, <1>4

LEMMA NoSpanOK == NoSpan \in Span
  BY DEF NoSpan, Span

LEMMA SpanInOK ==
  ASSUME nodes \in Seq(Node), NEW id \in 0..Len(nodes)
  PROVE  SpanIn(id) \in Span
<1>1. CASE id = 0
  BY <1>1, NoSpanOK DEF SpanIn
<1>2. CASE id # 0
  <2>1. id \in 1..Len(nodes)
    BY <1>2, LenProperties
  <2>2. nodes[id] \in Node
    BY <2>1, ElementOfSeq
  <2> QED BY <1>2, <2>2 DEF SpanIn, Node
<1> QED BY <1>1, <1>2

LEMMA MakeNodeOK ==
  ASSUME NEW kind \in Kinds, NEW tok \in Nat, NEW span \in Span, NEW kids \in Seq(Nat)
  PROVE  MakeNode(kind, tok, span, kids) \in Node /\ MakeNode(kind, tok, span, kids).kids = kids
  BY DEF MakeNode, Node

\* A child list holds nodes of the arena.
KidsIn(kids, n) == kids \in Seq(Nat) /\ \A i \in 1..Len(kids) : kids[i] \in 1..n

(* The node's own span with the last token consumed, unless that precedes  *)
(* it (src/src/parser.c:267).                                              *)
OwnSpan(node, p) ==
  IF p > 1 /\ SpanOf(p - 1).start >= node.span.start
  THEN SpanUnion(node.span, SpanOf(p - 1)) ELSE node.span

(* The unions that finish a node, one per child                            *)
(* (src/src/parser.c:274 kavak_parser_finish_node).                        *)
LEMMA FinishedUnions ==
  ASSUME nodes \in Seq(Node), NEW node \in Node, NEW p \in Nat \ {0},
         KidsIn(node.kids, Len(nodes))
  PROVE  \E f \in [0..Len(node.kids) -> Span] :
           /\ f[0] = OwnSpan(node, p)
           /\ \A i \in 1..Len(node.kids) : f[i] = SpanUnion(f[i - 1], SpanIn(node.kids[i]))
           /\ Finished(node, p) = [node EXCEPT !.span = f[Len(node.kids)]]
<1> DEFINE kids  == node.kids
           n     == Len(node.kids)
           own   == IF p > 1 /\ SpanOf(p - 1).start >= node.span.start
                    THEN SpanUnion(node.span, SpanOf(p - 1)) ELSE node.span
           Go(i, v) == SpanUnion(v, SpanIn(node.kids[i]))
           go    == [i \in 1..n |-> [v \in Span |-> Go(i, v)]]
           Moved(f) == f = [i \in 0..Len(node.kids) |->
                              IF i = 0 THEN own
                              ELSE SpanUnion(f[i - 1], SpanIn(node.kids[i]))]
           found == CHOOSE f : Moved(f)
<1>1. n \in Nat /\ \A i \in 1..n : node.kids[i] \in 0..Len(nodes)
  <2>1. n \in Nat /\ Len(nodes) \in Nat
    BY LenProperties DEF KidsIn
  <2>2. \A i \in 1..n : node.kids[i] \in 1..Len(nodes)
    BY DEF KidsIn
  <2> HIDE DEF n
  <2> QED BY <2>1, <2>2
<1>2. own \in Span
  <2>1. node.span \in Span
    BY DEF Node
  <2>2. CASE p > 1
    <3>1. p - 1 \in Nat \ {0}
      BY <2>2
    <3>2. SpanOf(p - 1) \in Span
      BY <3>1, SpanOfOK
    <3>3. SpanUnion(node.span, SpanOf(p - 1)) \in Span
      BY <2>1, <3>2, SpanUnionOK
    <3> QED BY <2>1, <3>3
  <2>3. CASE ~(p > 1)
    BY <2>1, <2>3
  <2> QED BY <2>2, <2>3
<1> HIDE DEF own
<1>3. \A i \in 1..n, v \in Span : Go(i, v) \in Span
  BY <1>1, SpanInOK, SpanUnionOK
<1>4. StaysIn(Span, n, own, go)
  <2>1. go \in [1..n -> [Span -> Span]]
    <3> HIDE DEF Go
    <3> QED BY <1>3
  <2> HIDE DEF go
  <2> QED BY <1>2, <2>1 DEF StaysIn
<1>5. \E f : Moved(f) /\ f \in [0..n -> Span]
  <2>1. PICK f : Follows(f, Span, n, own, go)
    <3> HIDE DEF go, n
    <3> QED BY <1>1, <1>4, RecursionExists
  <2> HIDE DEF Go
  <2>2. f \in [0..n -> Span] /\ \A i \in 1..n : f[i - 1] \in Span
    <3> HIDE DEF go
    <3>1. f \in [0..n -> Span]
      BY <2>1 DEF Follows
    <3>2. \A i \in 1..n : i - 1 \in 0..n
      BY <1>1
    <3> HIDE DEF n
    <3> QED BY <3>1, <3>2
  <2>3. f[0] = own /\ \A i \in 1..n : f[i] = Go(i, f[i - 1])
    <3>1. \A i \in 1..n : go[i][f[i - 1]] = Go(i, f[i - 1])
      BY <2>2
    <3> HIDE DEF go
    <3> QED BY <2>1, <3>1 DEF Follows
  <2>4. f = [i \in 0..n |-> IF i = 0 THEN own ELSE Go(i, f[i - 1])]
    <3>1. \A i \in 0..n : f[i] = IF i = 0 THEN own ELSE Go(i, f[i - 1])
      BY <1>1, <2>3
    <3> QED BY <2>2, <3>1
  <2> QED BY <2>2, <2>4 DEF Go
<1>6. Moved(found)
  <2> HIDE DEF Moved
  <2> QED BY <1>5
<1>7. Finished(node, p) = [node EXCEPT !.span = found[n]]
  BY DEF Finished, own
<1>8. found[0] = own /\ \A i \in 1..n : found[i] = Go(i, found[i - 1])
  <2>1. found = [i \in 0..n |-> IF i = 0 THEN own ELSE Go(i, found[i - 1])]
    <3> HIDE DEF found
    <3> QED BY <1>6
  <2> HIDE DEF found, n, Go
  <2> QED BY <1>1, <2>1
<1> HIDE DEF found, Go
<1> DEFINE S == {i \in 0..n : found[i] \in Span}
<1>9. 0 \in S
  BY <1>1, <1>2, <1>8
<1>10. ASSUME NEW i \in 0..n - 1, i \in S PROVE i + 1 \in S
  <2>1. i + 1 \in 1..n /\ i + 1 - 1 = i
    BY <1>1
  <2> QED BY <1>3, <1>8, <1>10, <2>1
<1>11. found \in [0..n -> Span]
  <2> HIDE DEF n
  <2>1. 0..n \subseteq S
    <3> HIDE DEF S
    <3> QED BY <1>1, <1>9, <1>10, BoundedInduction
  <2>2. found = [i \in 0..n |-> IF i = 0 THEN own
                                ELSE SpanUnion(found[i - 1], SpanIn(node.kids[i]))]
    BY <1>6 DEF n
  <2> DEFINE Val(i) == IF i = 0 THEN own ELSE SpanUnion(found[i - 1], SpanIn(node.kids[i]))
  <2>3. found = [i \in 0..n |-> Val(i)]
    BY <2>2
  <2> HIDE DEF Val
  <2> QED BY <2>1, <2>3
<1>12. own = OwnSpan(node, p)
  BY DEF own, OwnSpan
<1>13. \A i \in 1..n : found[i] = SpanUnion(found[i - 1], SpanIn(node.kids[i]))
  BY <1>8 DEF Go
<1> HIDE DEF own
<1> QED BY <1>7, <1>8, <1>11, <1>12, <1>13

(* Finishing a node moves its span and nothing else.                       *)
LEMMA FinishedOK ==
  ASSUME nodes \in Seq(Node), NEW node \in Node, NEW p \in Nat \ {0},
         KidsIn(node.kids, Len(nodes))
  PROVE  Finished(node, p) \in Node /\ Finished(node, p).kids = node.kids
<1>1. PICK f \in [0..Len(node.kids) -> Span] :
        Finished(node, p) = [node EXCEPT !.span = f[Len(node.kids)]]
  BY FinishedUnions
<1>2. Len(node.kids) \in Nat
  BY LenProperties DEF Node
<1> DEFINE last == f[Len(node.kids)]
<1>3. last \in Span
  BY <1>2
<1> HIDE DEF last
<1>4. Finished(node, p) = [node EXCEPT !.span = last]
  BY <1>1 DEF last
<1> QED BY <1>3, <1>4 DEF Node

(* Appending a child, or none (src/src/ast.c:27 kavak_ast_append_child).   *)
LEMMA WithKidOK ==
  ASSUME NEW n \in Nat, NEW kids, KidsIn(kids, n), NEW id \in 0..n
  PROVE  /\ KidsIn(WithKid(kids, id), n)
         /\ Len(kids) \in Nat
         /\ Len(WithKid(kids, id)) = IF id = 0 THEN Len(kids) ELSE Len(kids) + 1
         /\ \A i \in 1..Len(kids) : WithKid(kids, id)[i] = kids[i]
         /\ id # 0 => WithKid(kids, id)[Len(kids) + 1] = id
<1>1. kids \in Seq(Nat) /\ Len(kids) \in Nat
  BY LenProperties DEF KidsIn
<1>2. CASE id = 0
  BY <1>1, <1>2 DEF WithKid
<1>3. CASE id # 0
  <2>1. id \in Nat /\ id \in 1..n /\ WithKid(kids, id) = Append(kids, id)
    BY <1>3 DEF WithKid
  <2>2. /\ Append(kids, id) \in Seq(Nat) /\ Len(Append(kids, id)) = Len(kids) + 1
        /\ \A i \in 1..Len(kids) : Append(kids, id)[i] = kids[i]
        /\ Append(kids, id)[Len(kids) + 1] = id
    BY <1>1, <2>1, AppendProperties
  <2>3. \A i \in 1..Len(kids) + 1 : Append(kids, id)[i] \in 1..n
    <3> TAKE i \in 1..Len(kids) + 1
    <3>1. CASE i \in 1..Len(kids)
      BY <2>2, <3>1 DEF KidsIn
    <3>2. CASE i = Len(kids) + 1
      BY <2>1, <2>2, <3>2
    <3> QED BY <1>1, <3>1, <3>2
  <2> HIDE DEF KidsIn
  <2>4. KidsIn(Append(kids, id), n)
    BY <2>2, <2>3 DEF KidsIn
  <2> QED BY <1>1, <1>3, <2>1, <2>2, <2>4
<1> QED BY <1>2, <1>3

(* What parser_diag leaves is a list of diagnostics, no shorter            *)
(* (src/src/parser.c:28 parser_diag).                                      *)
LEMMA ReportedOK ==
  ASSUME NEW ds \in Seq(Diag), NEW msg \in Messages, NEW p \in Nat,
         NEW after \in Reported(ds, msg, p)
  PROVE  after \in Seq(Diag) /\ Len(ds) <= Len(after)
<1> DEFINE d == <<msg, p>>
<1>1. d \in Diag
  BY DEF Diag
<1> HIDE DEF d
<1>2. /\ Append(ds, d) \in Seq(Diag) /\ Len(Append(ds, d)) = Len(ds) + 1
      /\ Len(ds) \in Nat
  BY <1>1, AppendProperties, LenProperties
<1>3. after = Append(ds, d) \/ after = ds
  BY DEF Reported, d
<1> QED BY <1>2, <1>3

(* The cursor and diagnostics after an expected token, found or not        *)
(* (src/src/parser.c:177 kavak_parser_expect_text).                        *)
LEMMA ExpectingOK ==
  ASSUME TokensOK, pos \in 1..Len(toks), diags \in Seq(Diag),
         NEW symbol, symbol # "eof", NEW msg \in Messages,
         NEW after \in Expecting(symbol, msg)
  PROVE  /\ after.pos \in 1..Len(toks)
         /\ after.diags \in Seq(Diag) /\ Len(diags) <= Len(after.diags)
<1>1. Len(diags) \in Nat
  BY LenProperties
<1>2. CASE toks[pos] = symbol
  <2>1. after = [pos |-> pos + 1, diags |-> diags]
    BY <1>2 DEF Expecting
  <2>2. pos + 1 \in 1..Len(toks)
    BY <1>2, NotEof
  <2> QED BY <1>1, <2>1, <2>2
<1>3. CASE toks[pos] # symbol
  <2>1. PICK ds \in Reported(diags, msg, pos) : after = [pos |-> pos, diags |-> ds]
    BY <1>3 DEF Expecting
  <2>2. pos \in Nat
    OBVIOUS
  <2>3. ds \in Seq(Diag) /\ Len(diags) <= Len(ds)
    BY <2>1, <2>2, ReportedOK
  <2> QED BY <2>1, <2>3
<1> QED BY <1>2, <1>3

(* Operators of the table, in a role; EOF is none of them                  *)
(* (src/src/parser.c:47 operator_for_token).                               *)
LEMMA OperatorForOK ==
  ASSUME NEW symbol, NEW role, IsOperator(symbol, role)
  PROVE  OperatorFor(symbol, role).prec \in 0..MaxPrec /\ symbol # "eof"
<1> DEFINE E == Entries(symbol, role)
           first == CHOOSE i \in E : \A j \in E : i <= j
<1>1. /\ E # {} /\ E \subseteq DOMAIN Operators
      /\ \A i \in E : Operators[i].symbol = symbol
  BY DEF IsOperator, Entries
<1>2. Operators \in Seq(Operator) /\ DOMAIN Operators = 1..Len(Operators)
  BY ConstantsOK, LenProperties
<1>3. E \in SUBSET Nat
  BY <1>1, <1>2
<1> HIDE DEF E
<1>4. \E i \in E : \A j \in E : i <= j
  BY <1>1, <1>3, LeastNumber
<1>5. first \in E
  BY <1>4
<1>6. OperatorFor(symbol, role) = Operators[first]
  BY DEF OperatorFor, E
<1> HIDE DEF first
<1>7. first \in 1..Len(Operators)
  BY <1>1, <1>2, <1>5
<1>8. Operators[first] \in Operator
  BY <1>2, <1>7, ElementOfSeq
<1>9. Operators[first].symbol = symbol
  BY <1>1, <1>5
<1> QED BY <1>6, <1>8, <1>9 DEF Operator, Fixed

LEMMA NextMinOK ==
  ASSUME NEW op, op.prec \in 0..MaxPrec
  PROVE  NextMin(op) \in 0..MaxPrec
  BY ConstantsOK DEF NextMin

(* Recovery stops on a token: EOF at the latest                            *)
(* (src/src/parser.c:244 kavak_parser_recover_to_targets).                 *)
LEMMA RecoverToOK ==
  ASSUME TokensOK, NEW from \in 1..Len(toks), NEW targets
  PROVE  RecoverTo(from, targets) \in from..Len(toks)
<1> DEFINE inside[i \in from..Len(toks)] ==
             IF i = from THEN 0 ELSE DepthAfter(toks[i - 1], inside[i - 1])
           stops == {i \in from..Len(toks) :
                       \/ toks[i] = "eof"
                       \/ inside[i] = 0 /\ toks[i] \in targets \ {"("}}
           first == CHOOSE i \in stops : \A j \in stops : i <= j
<1>1. RecoverTo(from, targets) = first
  BY DEF RecoverTo
<1> HIDE DEF inside
<1>2. Len(toks) \in from..Len(toks) /\ toks[Len(toks)] = "eof"
  BY TokensLen DEF TokensOK
<1>3. Len(toks) \in stops /\ stops \in SUBSET Nat /\ stops \subseteq from..Len(toks)
  BY <1>2
<1> HIDE DEF stops
<1>4. \E i \in stops : \A j \in stops : i <= j
  BY <1>3, LeastNumber
<1>5. first \in stops
  BY <1>4
<1> QED BY <1>1, <1>3, <1>5
-----------------------------------------------------------------------------
(* Recovery counts brackets against a depth that never falls below 0.  The *)
(* depth at a token is the most brackets any suffix of the tokens passed   *)
(* leaves open, so it is 0 exactly where no bracket is open.               *)

\* One token more is one occurrence more, or none.
LEMMA OccurrencesStep ==
  ASSUME NEW symbol, NEW i \in Nat, NEW j \in Nat, i <= j + 1
  PROVE  /\ Occurrences(symbol, i, j) \in Nat
         /\ Occurrences(symbol, i, j + 1) =
              IF toks[j + 1] = symbol THEN Occurrences(symbol, i, j) + 1
                                      ELSE Occurrences(symbol, i, j)
<1> DEFINE Places(n) == {k \in i..n : toks[k] = symbol}
<1>1. IsFiniteSet(Places(j))
  <2>1. IsFiniteSet(i..j)
    BY FS_Interval
  <2>2. Places(j) \in SUBSET (i..j)
    OBVIOUS
  <2> QED BY <2>1, <2>2, FS_Subset
<1>2. Cardinality(Places(j)) \in Nat
  <2> HIDE DEF Places
  <2> QED BY <1>1, FS_CardinalityType
<1>3. i..j + 1 = (i..j) \cup {j + 1} /\ j + 1 \notin i..j
  OBVIOUS
<1>4. CASE toks[j + 1] = symbol
  <2>1. Places(j + 1) = Places(j) \cup {j + 1} /\ j + 1 \notin Places(j)
    BY <1>3, <1>4, Zenon
  <2>2. Cardinality(Places(j) \cup {j + 1}) = Cardinality(Places(j)) + 1
    <3> HIDE DEF Places
    <3> QED BY <1>1, <2>1, FS_AddElement, Zenon
  <2> QED BY <1>2, <1>4, <2>1, <2>2, Zenon DEF Occurrences
<1>5. CASE toks[j + 1] # symbol
  <2>1. Places(j + 1) = Places(j)
    BY <1>3, <1>5, Zenon
  <2> QED BY <1>2, <1>5, <2>1, Zenon DEF Occurrences
<1> QED BY <1>4, <1>5

\* No token has no occurrence.
LEMMA OccurrencesNone ==
  ASSUME NEW symbol, NEW i \in Nat \ {0}
  PROVE  Occurrences(symbol, i, i - 1) = 0
<1>1. {k \in i..i - 1 : toks[k] = symbol} = {}
  OBVIOUS
<1> QED BY <1>1, FS_EmptySet, Zenon DEF Occurrences

\* The brackets the tokens k..i - 1 open and do not close.
Net(k, i) == Occurrences("(", k, i - 1) - Occurrences(")", k, i - 1)
Outside(from, i) ==
  \A k \in from..i - 1 : Occurrences("(", k, i - 1) <= Occurrences(")", k, i - 1)
\* inside[i] of RecoverTo, defined by its recursion.
Depths(f, from) ==
  f = [i \in from..Len(toks) |-> IF i = from THEN 0 ELSE DepthAfter(toks[i - 1], f[i - 1])]

LEMMA NetStep ==
  ASSUME NEW i \in Nat \ {0}, NEW k \in 1..i
  PROVE  /\ Net(k, i) \in Int /\ Net(i, i) = 0
         /\ toks[i] = "(" => Net(k, i + 1) = Net(k, i) + 1
         /\ toks[i] = ")" => Net(k, i + 1) = Net(k, i) - 1
         /\ toks[i] \notin {"(", ")"} => Net(k, i + 1) = Net(k, i)
<1>1. i - 1 \in Nat /\ k \in Nat /\ k <= i - 1 + 1 /\ i - 1 + 1 = i /\ i + 1 - 1 = i
  OBVIOUS
<1>2. /\ Occurrences("(", k, i - 1) \in Nat
      /\ Occurrences("(", k, i) = IF toks[i] = "(" THEN Occurrences("(", k, i - 1) + 1
                                                  ELSE Occurrences("(", k, i - 1)
  BY <1>1, OccurrencesStep
<1>3. /\ Occurrences(")", k, i - 1) \in Nat
      /\ Occurrences(")", k, i) = IF toks[i] = ")" THEN Occurrences(")", k, i - 1) + 1
                                                  ELSE Occurrences(")", k, i - 1)
  BY <1>1, OccurrencesStep
<1>4. Net(i, i) = 0
  BY OccurrencesNone DEF Net
<1>5. Net(k, i) \in Int /\ Net(k, i + 1) = Occurrences("(", k, i) - Occurrences(")", k, i)
  BY <1>1, <1>2, <1>3 DEF Net
<1>6. "(" # ")"
  OBVIOUS
<1>7. CASE toks[i] = "("
  BY <1>2, <1>3, <1>4, <1>5, <1>7 DEF Net
<1>8. CASE toks[i] = ")"
  BY <1>2, <1>3, <1>4, <1>5, <1>8 DEF Net
<1>9. CASE toks[i] \notin {"(", ")"}
  BY <1>2, <1>3, <1>4, <1>5, <1>9 DEF Net
<1> QED BY <1>7, <1>8, <1>9

LEMMA DepthsExist ==
  ASSUME TokensOK, NEW from \in 1..Len(toks)
  PROVE  \E f : Depths(f, from)
<1> DEFINE m  == Len(toks) - from
           go == [i \in 1..m |-> [d \in Nat |-> DepthAfter(toks[from + i - 1], d)]]
<1>1. m \in Nat /\ Len(toks) \in Nat /\ from \in Nat
  BY TokensLen
<1>2. \A symbol, d : d \in Nat => DepthAfter(symbol, d) \in Nat
  BY DEF DepthAfter
<1>3. StaysIn(Nat, m, 0, go)
  <2> HIDE DEF m
  <2>1. go \in [1..m -> [Nat -> Nat]]
    BY <1>2
  <2> QED BY <2>1 DEF StaysIn
<1>4. PICK g : Follows(g, Nat, m, 0, go)
  <2> HIDE DEF m, go
  <2> QED BY <1>1, <1>3, RecursionExists
<1>5. g \in [0..m -> Nat] /\ g[0] = 0
  BY <1>4 DEF Follows
<1>6. \A i \in 1..m : g[i] = DepthAfter(toks[from + i - 1], g[i - 1])
  <2> HIDE DEF m
  <2>1. \A i \in 1..m : i - 1 \in 0..m
    BY <1>1
  <2>2. \A i \in 1..m : g[i - 1] \in Nat
    BY <1>5, <2>1
  <2>3. \A i \in 1..m : go[i][g[i - 1]] = DepthAfter(toks[from + i - 1], g[i - 1])
    BY <2>2
  <2> HIDE DEF go
  <2> QED BY <1>4, <2>3 DEF Follows
<1> DEFINE f == [i \in from..Len(toks) |-> g[i - from]]
<1>7. ASSUME NEW i \in from..Len(toks)
      PROVE  f[i] = IF i = from THEN 0 ELSE DepthAfter(toks[i - 1], f[i - 1])
  <2>1. CASE i = from
    BY <1>1, <1>5, <2>1
  <2>2. CASE i # from
    <3>1. /\ i - from \in 1..m /\ from + (i - from) - 1 = i - 1
          /\ i - from - 1 = i - 1 - from /\ i - 1 \in from..Len(toks)
      BY <1>1, <2>2
    <3>2. g[i - from] = DepthAfter(toks[i - 1], g[i - 1 - from])
      <4> HIDE DEF m
      <4> QED BY <1>6, <3>1
    <3> QED BY <2>2, <3>1, <3>2
  <2> QED BY <2>1, <2>2
<1>8. f = [i \in from..Len(toks) |-> IF i = from THEN 0 ELSE DepthAfter(toks[i - 1], f[i - 1])]
  <2>1. f = [i \in from..Len(toks) |-> f[i]]
    OBVIOUS
  <2> HIDE DEF f
  <2> QED BY <1>7, <2>1
<1> HIDE DEF f
<1> QED BY <1>8 DEF Depths

\* The depth is the most brackets a suffix leaves open.
Deepest(d, from, i) ==
  /\ d \in Nat
  /\ \A k \in from..i : Net(k, i) <= d
  /\ \E k \in from..i : Net(k, i) = d

LEMMA DeepestStep ==
  ASSUME NEW from \in Nat \ {0}, NEW i \in Nat, from <= i, NEW d, Deepest(d, from, i)
  PROVE  Deepest(DepthAfter(toks[i], d), from, i + 1)
<1> DEFINE e == DepthAfter(toks[i], d)
<1>1. d \in Nat /\ i \in Nat \ {0} /\ i + 1 \in Nat \ {0}
  BY DEF Deepest
<1>2. Net(i + 1, i + 1) = 0
  BY <1>1, NetStep
<1>3. ASSUME NEW k \in from..i
      PROVE  /\ Net(k, i) \in Int /\ Net(k, i) <= d
             /\ toks[i] = "(" => Net(k, i + 1) = Net(k, i) + 1
             /\ toks[i] = ")" => Net(k, i + 1) = Net(k, i) - 1
             /\ toks[i] \notin {"(", ")"} => Net(k, i + 1) = Net(k, i)
  <2>1. k \in 1..i
    BY <1>1
  <2> QED BY <1>1, <2>1, NetStep DEF Deepest
<1>4. PICK k \in from..i : Net(k, i) = d
  BY DEF Deepest
<1>5. \A x \in from..i + 1 : x \in from..i \/ x = i + 1
  BY <1>1
<1>6. from..i \subseteq from..i + 1 /\ i + 1 \in from..i + 1
  BY <1>1
<1>7. CASE toks[i] = "("
  <2>1. e = d + 1
    BY <1>7 DEF DepthAfter
  <2>2. \A x \in from..i : Net(x, i + 1) <= d + 1
    BY <1>1, <1>3, <1>7
  <2>3. Net(k, i + 1) = d + 1
    BY <1>3, <1>4, <1>7
  <2> HIDE DEF e
  <2>4. Deepest(e, from, i + 1)
    BY <1>1, <1>2, <1>5, <1>6, <2>1, <2>2, <2>3 DEF Deepest
  <2> QED BY <2>4 DEF e
<1>8. CASE toks[i] = ")" /\ d # 0
  <2>1. e = d - 1
    BY <1>8 DEF DepthAfter
  <2>2. \A x \in from..i : Net(x, i + 1) <= d - 1
    BY <1>1, <1>3, <1>8
  <2>3. Net(k, i + 1) = d - 1
    BY <1>3, <1>4, <1>8
  <2> HIDE DEF e
  <2>4. Deepest(e, from, i + 1)
    BY <1>1, <1>2, <1>5, <1>6, <1>8, <2>1, <2>2, <2>3 DEF Deepest
  <2> QED BY <2>4 DEF e
<1>9. CASE toks[i] = ")" /\ d = 0
  <2>1. e = 0
    BY <1>9 DEF DepthAfter
  <2>2. \A x \in from..i : Net(x, i + 1) <= 0
    BY <1>1, <1>3, <1>9
  <2> HIDE DEF e
  <2>3. Deepest(e, from, i + 1)
    BY <1>1, <1>2, <1>5, <1>6, <2>1, <2>2 DEF Deepest
  <2> QED BY <2>3 DEF e
<1>10. CASE toks[i] \notin {"(", ")"}
  <2>1. e = d
    BY <1>10 DEF DepthAfter
  <2>2. \A x \in from..i : Net(x, i + 1) <= d
    BY <1>1, <1>3, <1>10
  <2>3. Net(k, i + 1) = d
    BY <1>3, <1>4, <1>10
  <2> HIDE DEF e
  <2>4. Deepest(e, from, i + 1)
    BY <1>1, <1>2, <1>5, <1>6, <2>1, <2>2, <2>3 DEF Deepest
  <2> QED BY <2>4 DEF e
<1> QED BY <1>7, <1>8, <1>9, <1>10

LEMMA DepthZero ==
  ASSUME TokensOK, NEW from \in 1..Len(toks), NEW f, Depths(f, from),
         NEW i \in from..Len(toks)
  PROVE  f[i] = 0 <=> Outside(from, i)
<1> DEFINE m == Len(toks) - from
           S == {n \in 0..m : Deepest(f[from + n], from, from + n)}
<1>1. m \in Nat /\ Len(toks) \in Nat /\ from \in Nat \ {0} /\ i \in Nat \ {0}
  BY TokensLen
<1>2. f[from] = 0
  BY <1>1 DEF Depths
<1>3. ASSUME NEW j \in from..Len(toks), j # from PROVE f[j] = DepthAfter(toks[j - 1], f[j - 1])
  BY <1>3, Zenon DEF Depths
<1>4. 0 \in S
  <2>1. from \in from..from /\ \A k \in from..from : k = from
    BY <1>1
  <2>2. Net(from, from) = 0
    BY <1>1, NetStep
  <2>3. Deepest(0, from, from)
    BY <2>1, <2>2 DEF Deepest
  <2> QED BY <1>1, <1>2, <2>3
<1>5. ASSUME NEW n \in 0..m - 1, n \in S PROVE n + 1 \in S
  <2>1. /\ from + (n + 1) \in from..Len(toks) /\ from + (n + 1) # from
        /\ from + (n + 1) - 1 = from + n /\ from + n + 1 = from + (n + 1)
        /\ from + n \in Nat /\ from <= from + n /\ n + 1 \in 0..m
    BY <1>1
  <2>2. f[from + (n + 1)] = DepthAfter(toks[from + n], f[from + n])
    BY <1>3, <2>1
  <2>3. Deepest(f[from + n], from, from + n)
    BY <1>5
  <2>4. Deepest(f[from + (n + 1)], from, from + (n + 1))
    <3>1. Deepest(DepthAfter(toks[from + n], f[from + n]), from, from + n + 1)
      BY <1>1, <2>1, <2>3, DeepestStep
    <3> QED BY <2>1, <2>2, <3>1, Zenon
  <2> QED BY <2>1, <2>4
<1>6. i - from \in S
  <2>1. i - from \in 0..m
    BY <1>1
  <2> HIDE DEF m, S
  <2> QED BY <1>1, <1>4, <1>5, <2>1, BoundedInduction
<1>7. Deepest(f[i], from, i)
  <2>1. from + (i - from) = i
    BY <1>1
  <2> QED BY <1>6, <2>1
<1>8. ASSUME NEW k \in from..i
      PROVE  /\ Occurrences("(", k, i - 1) \in Nat /\ Occurrences(")", k, i - 1) \in Nat
             /\ k = i => Net(k, i) = 0
  <2>1. k \in Nat /\ i - 1 \in Nat /\ k <= i - 1 + 1
    BY <1>1
  <2> QED BY <1>1, <2>1, OccurrencesStep, NetStep
<1>9. ASSUME f[i] = 0 PROVE Outside(from, i)
  <2> SUFFICES ASSUME NEW k \in from..i - 1
               PROVE  Occurrences("(", k, i - 1) <= Occurrences(")", k, i - 1)
    BY DEF Outside
  <2>1. k \in from..i
    BY <1>1
  <2> QED BY <1>7, <1>8, <1>9, <2>1 DEF Deepest, Net
<1>10. ASSUME Outside(from, i) PROVE f[i] = 0
  <2>1. PICK k \in from..i : Net(k, i) = f[i]
    BY <1>7 DEF Deepest
  <2>2. k = i \/ k \in from..i - 1
    BY <1>1
  <2>3. k \in from..i - 1 => Occurrences("(", k, i - 1) <= Occurrences(")", k, i - 1)
    BY <1>10 DEF Outside
  <2>4. Net(k, i) <= 0
    BY <1>8, <2>2, <2>3 DEF Net
  <2> QED BY <1>7, <2>1, <2>4 DEF Deepest
<1> QED BY <1>9, <1>10

(* What kavak_parser_recover_to returns (src/src/parser.c:216): a place    *)
(* that fits, and no place before it does.                                 *)
LEMMA RecoverToOutside ==
  ASSUME TokensOK, NEW from \in 1..Len(toks), NEW targets
  PROVE  LET Fits(i) == \/ toks[i] = "eof"
                        \/ toks[i] \in targets \ {"("} /\ Outside(from, i)
             stop == RecoverTo(from, targets)
         IN  Fits(stop) /\ \A i \in from..stop - 1 : ~Fits(i)
<1> DEFINE inside == CHOOSE f : Depths(f, from)
           Fits(i) == toks[i] = "eof" \/ (toks[i] \in targets \ {"("} /\ Outside(from, i))
           stops == {i \in from..Len(toks) :
                       \/ toks[i] = "eof"
                       \/ inside[i] = 0 /\ toks[i] \in targets \ {"("}}
           first == CHOOSE i \in stops : \A j \in stops : i <= j
<1>1. RecoverTo(from, targets) = first
  BY DEF RecoverTo, Depths
<1>2. Depths(inside, from)
  BY DepthsExist
<1> HIDE DEF inside
<1>3. \A i \in from..Len(toks) : i \in stops <=> Fits(i)
  <2>1. \A i \in from..Len(toks) : inside[i] = 0 <=> Outside(from, i)
    BY <1>2, DepthZero
  <2> QED BY <2>1, Zenon
<1>4. Len(toks) \in stops /\ stops \in SUBSET Nat /\ stops \subseteq from..Len(toks)
  BY TokensLen DEF TokensOK
<1> HIDE DEF stops
<1>5. \E i \in stops : \A j \in stops : i <= j
  BY <1>4, LeastNumber
<1>6. first \in stops /\ \A j \in stops : first <= j
  BY <1>5
<1> HIDE DEF first, Fits
<1>7. Fits(first)
  BY <1>3, <1>4, <1>6
<1>8. ASSUME NEW i \in from..first - 1 PROVE ~Fits(i)
  <2>1. i \in from..Len(toks) /\ ~(first <= i)
    BY <1>4, <1>6, TokensLen
  <2> QED BY <1>3, <1>6, <2>1
<1> QED BY <1>1, <1>7, <1>8 DEF Fits
-----------------------------------------------------------------------------
(* The arena as a forest.                                                  *)

\* x is child i of node m of the arena ns.
Child(ns, m, i, x) ==
  m \in 1..Len(ns) /\ i \in 1..Len(ns[m].kids) /\ ns[m].kids[i] = x

\* Every child is a node, and hangs in one place.
Forest(ns) ==
  /\ ns \in Seq(Node)
  /\ \A m, i, x : Child(ns, m, i, x) => x \in 1..Len(ns)
  /\ \A m, n, i, j, x : Child(ns, m, i, x) /\ Child(ns, n, j, x) => m = n /\ i = j
\* x hangs nowhere.
Orphan(ns, x) == \A m, i : ~Child(ns, m, i, x)

\* The arena ns became next, where only the nodes in K found a place.
Placed(ns, next, K) ==
  /\ Len(ns) <= Len(next)
  /\ \A x : Orphan(ns, x) /\ x \notin K => Orphan(next, x)

(* A forest stays one when orphans are hung in one place each.             *)
LEMMA PlacedOnce ==
  ASSUME NEW ns, Forest(ns), NEW next \in Seq(Node), Len(ns) <= Len(next), NEW K,
         \A m, i, x : Child(next, m, i, x) => Child(ns, m, i, x) \/ x \in K,
         \A x \in K : x \in 1..Len(next) /\ Orphan(ns, x),
         \A x \in K : \A m, n, i, j :
           Child(next, m, i, x) /\ Child(next, n, j, x) => m = n /\ i = j
  PROVE  Forest(next) /\ Placed(ns, next, K)
<1>1. Len(ns) \in Nat /\ Len(next) \in Nat
  BY LenProperties DEF Forest
<1>2. ASSUME NEW m, NEW i, NEW x, Child(next, m, i, x) PROVE x \in 1..Len(next)
  <2>1. CASE Child(ns, m, i, x)
    <3>1. x \in 1..Len(ns)
      BY <2>1 DEF Forest
    <3> QED BY <1>1, <3>1
  <2>2. CASE x \in K
    BY <2>2
  <2> QED BY <1>2, <2>1, <2>2
<1>3. ASSUME NEW m, NEW n, NEW i, NEW j, NEW x, Child(next, m, i, x), Child(next, n, j, x)
      PROVE  m = n /\ i = j
  <2>1. CASE x \in K
    BY <1>3, <2>1
  <2>2. CASE x \notin K
    <3>1. Child(ns, m, i, x) /\ Child(ns, n, j, x)
      BY <1>3, <2>2
    <3> QED BY <3>1 DEF Forest
  <2> QED BY <2>1, <2>2
<1>4. ASSUME NEW x, Orphan(ns, x), x \notin K PROVE Orphan(next, x)
  BY <1>4 DEF Orphan
<1>5. Forest(next)
  BY <1>2, <1>3 DEF Forest
<1> QED BY <1>4, <1>5 DEF Placed

(* A fresh node adopts its children; nobody has adopted it                 *)
(* (src/src/parser.c:257 parser_make_node_at).                             *)
LEMMA AppendPlaced ==
  ASSUME NEW ns, Forest(ns), NEW node \in Node, KidsIn(node.kids, Len(ns)),
         \A i \in 1..Len(node.kids) : Orphan(ns, node.kids[i]),
         \A i, j \in 1..Len(node.kids) : node.kids[i] = node.kids[j] => i = j
  PROVE  /\ Forest(Append(ns, node))
         /\ Placed(ns, Append(ns, node), {node.kids[i] : i \in 1..Len(node.kids)})
         /\ Len(Append(ns, node)) = Len(ns) + 1
         /\ Orphan(Append(ns, node), Len(ns) + 1)
<1> DEFINE next == Append(ns, node)
           K    == {node.kids[i] : i \in 1..Len(node.kids)}
<1>1. /\ next \in Seq(Node) /\ Len(next) = Len(ns) + 1 /\ Len(ns) \in Nat
      /\ \A m \in 1..Len(ns) : next[m] = ns[m]
      /\ next[Len(ns) + 1] = node
  BY AppendProperties, LenProperties DEF Forest
<1> HIDE DEF next
<1>2. ASSUME NEW m, NEW i, NEW x, Child(next, m, i, x)
      PROVE  \/ Child(ns, m, i, x)
             \/ m = Len(ns) + 1 /\ i \in 1..Len(node.kids) /\ node.kids[i] = x
  <2>1. m \in 1..Len(next) /\ i \in 1..Len(next[m].kids) /\ next[m].kids[i] = x
    BY <1>2 DEF Child
  <2>2. CASE m \in 1..Len(ns)
    <3>1. next[m] = ns[m]
      BY <1>1, <2>2
    <3> QED BY <2>1, <2>2, <3>1 DEF Child
  <2>3. CASE m = Len(ns) + 1
    <3>1. next[m] = node
      BY <1>1, <2>3
    <3> QED BY <2>1, <2>3, <3>1
  <2> QED BY <1>1, <2>1, <2>2, <2>3
<1>3. \A m, i, x : Child(next, m, i, x) => Child(ns, m, i, x) \/ x \in K
  BY <1>2
<1>4. \A x \in K : x \in 1..Len(ns) /\ Orphan(ns, x)
  BY DEF KidsIn
<1>5. ASSUME NEW x \in K, NEW m, NEW n, NEW i, NEW j, Child(next, m, i, x), Child(next, n, j, x)
      PROVE  m = n /\ i = j
  <2>1. ~Child(ns, m, i, x) /\ ~Child(ns, n, j, x)
    BY <1>4 DEF Orphan
  <2>2. /\ m = Len(ns) + 1 /\ i \in 1..Len(node.kids) /\ node.kids[i] = x
        /\ n = Len(ns) + 1 /\ j \in 1..Len(node.kids) /\ node.kids[j] = x
    BY <1>2, <1>5, <2>1
  <2> QED BY <2>2
<1> HIDE DEF K
<1>6. \A x \in K : x \in 1..Len(next) /\ Orphan(ns, x)
  BY <1>1, <1>4
<1>7. Len(ns) <= Len(next)
  BY <1>1
<1>8. Forest(next) /\ Placed(ns, next, K)
  BY <1>1, <1>3, <1>5, <1>6, <1>7, PlacedOnce
<1>9. Orphan(next, Len(ns) + 1)
  <2>1. Len(ns) + 1 \notin K
    BY <1>1, <1>4
  <2>2. ASSUME NEW m, NEW i, Child(next, m, i, Len(ns) + 1) PROVE FALSE
    <3>1. Child(ns, m, i, Len(ns) + 1)
      BY <1>3, <2>1, <2>2
    <3>2. Len(ns) + 1 \in 1..Len(ns)
      BY <3>1 DEF Forest
    <3> QED BY <1>1, <3>2
  <2> QED BY <2>2 DEF Orphan
<1> QED BY <1>1, <1>8, <1>9 DEF next, K

\* The arena ns became next: node m was rewritten.
Rewritten(ns, next, m, node) == next = [ns EXCEPT ![m] = node]

LEMMA RewrittenOK ==
  ASSUME NEW ns \in Seq(Node), NEW m \in 1..Len(ns), NEW node \in Node,
         NEW next, Rewritten(ns, next, m, node)
  PROVE  /\ next \in Seq(Node) /\ Len(next) = Len(ns)
         /\ next[m] = node
         /\ \A n \in 1..Len(ns) : n # m => next[n] = ns[n]
  BY ExceptSeq DEF Rewritten

(* A node is rewritten with some of its first children and an orphan, or   *)
(* none, after them (src/src/parser.c:374, 389, 532).                      *)
LEMMA GrowPlaced ==
  ASSUME NEW ns, Forest(ns), NEW m \in 1..Len(ns), NEW node \in Node,
         NEW kids, KidsIn(kids, Len(ns)), NEW id \in 0..Len(ns),
         node.kids = WithKid(kids, id),
         Len(kids) <= Len(ns[m].kids),
         \A i \in 1..Len(kids) : kids[i] = ns[m].kids[i],
         id # 0 => Orphan(ns, id),
         NEW next, Rewritten(ns, next, m, node)
  PROVE  Forest(next) /\ Placed(ns, next, {id} \ {0}) /\ Len(next) = Len(ns)
<1> DEFINE K == {id} \ {0}
<1>1. /\ next \in Seq(Node) /\ Len(next) = Len(ns) /\ Len(ns) \in Nat
      /\ next[m] = node /\ \A n \in 1..Len(ns) : n # m => next[n] = ns[n]
  BY RewrittenOK, LenProperties DEF Forest
<1>2. /\ Len(kids) \in Nat
      /\ Len(node.kids) = IF id = 0 THEN Len(kids) ELSE Len(kids) + 1
      /\ \A i \in 1..Len(kids) : node.kids[i] = kids[i]
      /\ id # 0 => node.kids[Len(kids) + 1] = id
  BY <1>1, WithKidOK
<1>3. ns[m] \in Node /\ Len(ns[m].kids) \in Nat
  <2>1. ns[m] \in Node
    BY ElementOfSeq DEF Forest
  <2> QED BY <2>1, LenProperties DEF Node
<1>4. ASSUME NEW n, NEW i, NEW x, Child(next, n, i, x)
      PROVE  \/ Child(ns, n, i, x)
             \/ n = m /\ i = Len(kids) + 1 /\ x = id /\ id # 0
  <2>1. n \in 1..Len(ns) /\ i \in 1..Len(next[n].kids) /\ next[n].kids[i] = x
    BY <1>1, <1>4 DEF Child
  <2>2. CASE n # m
    <3>1. next[n] = ns[n]
      BY <1>1, <2>1, <2>2
    <3> QED BY <2>1, <3>1, Zenon DEF Child
  <2>3. CASE n = m
    <3>1. next[n] = node
      BY <1>1, <2>3
    <3>2. i \in 1..Len(node.kids) /\ node.kids[i] = x
      BY <2>1, <3>1
    <3>3. CASE i \in 1..Len(kids)
      <4>1. i \in 1..Len(ns[m].kids) /\ ns[m].kids[i] = x
        BY <1>2, <1>3, <3>2, <3>3
      <4>2. Child(ns, m, i, x)
        BY <4>1 DEF Child
      <4> QED BY <2>3, <4>2, Zenon
    <3>4. CASE i \notin 1..Len(kids)
      <4>1. id # 0 /\ i = Len(kids) + 1
        BY <1>2, <3>2, <3>4
      <4> QED BY <1>2, <2>3, <3>2, <4>1
    <3> QED BY <3>3, <3>4
  <2> QED BY <2>2, <2>3
<1>5. \A n, i, x : Child(next, n, i, x) => Child(ns, n, i, x) \/ x \in K
  BY <1>4
<1>6. \A x \in K : x = id /\ id # 0
  OBVIOUS
<1> HIDE DEF K
<1>7. \A x \in K : x \in 1..Len(next) /\ Orphan(ns, x)
  BY <1>1, <1>6
<1>8. ASSUME NEW x \in K, NEW n, NEW o, NEW i, NEW j, Child(next, n, i, x), Child(next, o, j, x)
      PROVE  n = o /\ i = j
  <2>1. ~Child(ns, n, i, x) /\ ~Child(ns, o, j, x)
    BY <1>7 DEF Orphan
  <2> QED BY <1>4, <1>8, <2>1
<1>9. Len(ns) <= Len(next)
  BY <1>1
<1>10. Forest(next) /\ Placed(ns, next, K)
  BY <1>1, <1>5, <1>7, <1>8, <1>9, PlacedOnce
<1> QED BY <1>1, <1>10 DEF K

-----------------------------------------------------------------------------
(* The activations and what they hold.                                     *)

\* The node an activation has still to place: its group, unary or call node
\* while it waits for what goes below that, its left-hand side otherwise.
Held(f) == IF f.wait \in {"group", "prefix", "argument"} THEN f.node ELSE f.lhs

\* x is still to be placed, and younger than all that the frames of stk hold.
Over(stk, ns, x) ==
  x # 0 => Orphan(ns, x) /\ \A j \in 1..Len(stk) : Held(stk[j]) < x

FrameOK(f, n, t) ==
  /\ f.lhs \in 0..n /\ f.node \in 0..n /\ f.op \in 0..t
  /\ f.wait # "none" => f.op # 0
  /\ f.wait \in {"group", "prefix"} => f.lhs = 0
  /\ f.wait \in {"infix", "argument"} => f.lhs # 0
  /\ f.wait = "argument" => f.node # 0

\* An inner activation allocates after the outer ones: the nodes that the
\* frames hold grow from the bottom of the stack to its top.
StackGood(stk, ns, t) ==
  /\ stk \in Seq(Frame)
  /\ \A i \in 1..Len(stk) : FrameOK(stk[i], Len(ns), t)
  /\ \A i \in 1..Len(stk) : Held(stk[i]) # 0 =>
       /\ Orphan(ns, Held(stk[i]))
       /\ \A j \in 1..i - 1 : Held(stk[j]) < Held(stk[i])

LEMMA HeldIn ==
  ASSUME NEW t, NEW f, NEW n \in Nat, FrameOK(f, n, t)
  PROVE  Held(f) \in 0..n
  BY DEF FrameOK, Held

LEMMA FrameGrows ==
  ASSUME NEW t, NEW f, NEW n \in Nat, NEW m \in Nat, n <= m, FrameOK(f, n, t)
  PROVE  FrameOK(f, m, t)
  BY DEF FrameOK

(* Popping the top activation: it holds what is younger than all below it. *)
LEMMA PopGood ==
  ASSUME NEW t, NEW ns, NEW stk, StackGood(stk, ns, t), stk # <<>>
  PROVE  LET rest == SubSeq(stk, 1, Len(stk) - 1)
             top  == stk[Len(stk)]
         IN  /\ StackGood(rest, ns, t)
             /\ Len(rest) = Len(stk) - 1 /\ Len(stk) \in Nat \ {0}
             /\ top \in Frame /\ FrameOK(top, Len(ns), t)
             /\ Over(rest, ns, Held(top))
             /\ \A x : Over(stk, ns, x) => Over(rest, ns, x) /\ (x # 0 => Held(top) < x)
<1> DEFINE rest == SubSeq(stk, 1, Len(stk) - 1)
           n == Len(stk)
<1>1. stk \in Seq(Frame)
  BY DEF StackGood
<1>2. n \in Nat \ {0}
  BY <1>1, LenProperties, EmptySeq
<1>3. rest \in Seq(Frame) /\ Len(rest) = n - 1 /\ \A i \in 1..n - 1 : rest[i] = stk[i]
  <2>1. n - 1 \in Nat /\ n - 1 <= Len(stk)
    BY <1>2
  <2>2. rest \in Seq(Frame) /\ Len(rest) = n - 1
    BY <1>1, <2>1, Prefix
  <2>3. \A i \in 1..n - 1 : rest[i] = stk[i]
    BY <1>1, <1>2
  <2> QED BY <2>2, <2>3
<1> HIDE DEF rest
<1>4. /\ \A i \in 1..n : FrameOK(stk[i], Len(ns), t)
      /\ \A i \in 1..n : Held(stk[i]) # 0 =>
           /\ Orphan(ns, Held(stk[i]))
           /\ \A j \in 1..i - 1 : Held(stk[j]) < Held(stk[i])
  BY DEF StackGood
<1>5. stk[n] \in Frame /\ n \in 1..n
  <2>1. n \in 1..n
    BY <1>2
  <2> QED BY <1>1, <2>1, ElementOfSeq
<1> HIDE DEF n
<1>6. \A i \in 1..n - 1 : i \in 1..n /\ rest[i] = stk[i] /\ \A j \in 1..i - 1 : rest[j] = stk[j]
  BY <1>2, <1>3
<1>7. StackGood(rest, ns, t)
  <2>1. \A i \in 1..Len(rest) : FrameOK(rest[i], Len(ns), t)
    BY <1>3, <1>4, <1>6
  <2>2. ASSUME NEW i \in 1..Len(rest), Held(rest[i]) # 0
        PROVE  /\ Orphan(ns, Held(rest[i]))
               /\ \A j \in 1..i - 1 : Held(rest[j]) < Held(rest[i])
    <3>1. i \in 1..n - 1
      BY <1>3
    <3>2. rest[i] = stk[i] /\ i \in 1..n /\ \A j \in 1..i - 1 : rest[j] = stk[j]
      BY <1>6, <3>1
    <3> QED BY <1>4, <2>2, <3>2
  <2> QED BY <1>3, <2>1, <2>2 DEF StackGood
<1>8. Over(rest, ns, Held(stk[n]))
  <2> SUFFICES ASSUME Held(stk[n]) # 0
               PROVE  /\ Orphan(ns, Held(stk[n]))
                      /\ \A j \in 1..Len(rest) : Held(rest[j]) < Held(stk[n])
    BY DEF Over
  <2>1. Orphan(ns, Held(stk[n])) /\ \A j \in 1..n - 1 : Held(stk[j]) < Held(stk[n])
    BY <1>4, <1>5
  <2> QED BY <1>3, <1>6, <2>1
<1>9. ASSUME NEW x, Over(stk, ns, x)
      PROVE  Over(rest, ns, x) /\ (x # 0 => Held(stk[n]) < x)
  <2> SUFFICES ASSUME x # 0
               PROVE  /\ Orphan(ns, x) /\ \A j \in 1..Len(rest) : Held(rest[j]) < x
                      /\ Held(stk[n]) < x
    BY DEF Over
  <2>1. Orphan(ns, x) /\ \A j \in 1..n : Held(stk[j]) < x
    BY <1>9 DEF Over, n
  <2> QED BY <1>3, <1>5, <1>6, <2>1
<1> QED BY <1>2, <1>3, <1>4, <1>5, <1>7, <1>8, <1>9 DEF n, rest

(* Pushing one that holds what is younger than all below it.               *)
LEMMA PushGood ==
  ASSUME NEW t, NEW ns, NEW rest, StackGood(rest, ns, t), NEW f \in Frame, FrameOK(f, Len(ns), t),
         Over(rest, ns, Held(f))
  PROVE  /\ StackGood(Append(rest, f), ns, t)
         /\ Len(Append(rest, f)) = Len(rest) + 1
         /\ Append(rest, f)[Len(Append(rest, f))] = f
         /\ Append(rest, f) # <<>>
<1> DEFINE stk == Append(rest, f)
           n == Len(rest)
<1>1. rest \in Seq(Frame) /\ n \in Nat
  BY LenProperties DEF StackGood
<1>2. /\ stk \in Seq(Frame) /\ Len(stk) = n + 1
      /\ \A i \in 1..n : stk[i] = rest[i]
      /\ stk[n + 1] = f
  BY <1>1, AppendProperties
<1> HIDE DEF stk
<1>3. /\ \A i \in 1..n : FrameOK(rest[i], Len(ns), t)
      /\ \A i \in 1..n : Held(rest[i]) # 0 =>
           /\ Orphan(ns, Held(rest[i]))
           /\ \A j \in 1..i - 1 : Held(rest[j]) < Held(rest[i])
  BY DEF StackGood
<1>4. Held(f) # 0 => Orphan(ns, Held(f)) /\ \A j \in 1..n : Held(rest[j]) < Held(f)
  BY DEF Over
<1> HIDE DEF n
<1>5. ASSUME NEW i \in 1..n + 1
      PROVE  /\ FrameOK(stk[i], Len(ns), t)
             /\ Held(stk[i]) # 0 => /\ Orphan(ns, Held(stk[i]))
                                    /\ \A j \in 1..i - 1 : Held(stk[j]) < Held(stk[i])
  <2>1. CASE i \in 1..n
    <3>1. stk[i] = rest[i] /\ \A j \in 1..i - 1 : stk[j] = rest[j]
      BY <1>1, <1>2, <2>1
    <3> QED BY <1>3, <2>1, <3>1
  <2>2. CASE i = n + 1
    <3>1. stk[i] = f /\ \A j \in 1..i - 1 : j \in 1..n /\ stk[j] = rest[j]
      BY <1>1, <1>2, <2>2
    <3> QED BY <1>4, <3>1
  <2> QED BY <1>1, <2>1, <2>2
<1>6. StackGood(stk, ns, t)
  BY <1>2, <1>5 DEF StackGood
<1>7. stk # <<>> /\ stk[Len(stk)] = f
  BY <1>1, <1>2, EmptySeq
<1> QED BY <1>2, <1>6, <1>7 DEF stk, n

(* The stack is none the worse when only nodes younger than all it holds   *)
(* find a place.                                                           *)
LEMMA MoveGood ==
  ASSUME NEW t, NEW ns, NEW next, NEW stk, StackGood(stk, ns, t), NEW K, Placed(ns, next, K),
         Len(ns) \in Nat, Len(next) \in Nat,
         \A x \in K : x \in Nat /\ x # 0 /\ Over(stk, ns, x)
  PROVE  /\ StackGood(stk, next, t)
         /\ \A x : x \notin K /\ Over(stk, ns, x) => Over(stk, next, x)
<1>1. Len(ns) <= Len(next) /\ \A x : Orphan(ns, x) /\ x \notin K => Orphan(next, x)
  BY DEF Placed
<1>2. \A i \in 1..Len(stk) : FrameOK(stk[i], Len(ns), t)
  BY DEF StackGood
<1>3. \A i \in 1..Len(stk) : FrameOK(stk[i], Len(next), t)
  BY <1>1, <1>2, FrameGrows
<1>4. ASSUME NEW i \in 1..Len(stk), Held(stk[i]) # 0
      PROVE  /\ Orphan(next, Held(stk[i]))
             /\ \A j \in 1..i - 1 : Held(stk[j]) < Held(stk[i])
  <2>1. /\ Orphan(ns, Held(stk[i]))
        /\ \A j \in 1..i - 1 : Held(stk[j]) < Held(stk[i])
    BY <1>4 DEF StackGood
  <2>2. Held(stk[i]) \in 0..Len(ns)
    BY <1>2, HeldIn
  <2>3. ASSUME Held(stk[i]) \in K PROVE FALSE
    <3>1. Held(stk[i]) < Held(stk[i])
      BY <1>4, <2>3 DEF Over
    <3> QED BY <2>2, <3>1
  <2> QED BY <1>1, <2>1, <2>3
<1>5. StackGood(stk, next, t)
  BY <1>3, <1>4 DEF StackGood
<1>6. \A x : x \notin K /\ Over(stk, ns, x) => Over(stk, next, x)
  BY <1>1 DEF Over
<1> QED BY <1>5, <1>6

(* A fresh node is younger than all the stack holds.                       *)
LEMMA FreshOver ==
  ASSUME NEW t, NEW ns, NEW next, NEW stk, StackGood(stk, ns, t), Len(ns) \in Nat,
         Orphan(next, Len(ns) + 1)
  PROVE  Over(stk, next, Len(ns) + 1)
<1>1. ASSUME NEW j \in 1..Len(stk) PROVE Held(stk[j]) < Len(ns) + 1
  <2>1. FrameOK(stk[j], Len(ns), t)
    BY DEF StackGood
  <2>2. Held(stk[j]) \in 0..Len(ns)
    BY <2>1, HeldIn
  <2> QED BY <2>2
<1> QED BY <1>1 DEF Over

-----------------------------------------------------------------------------
(* The parser's inductive invariant: what it reads and reports, and what   *)
(* its activations hold.                                                   *)

InputOK ==
  /\ TokensOK
  /\ mayFail \in BOOLEAN
  /\ pos \in 1..Len(toks)
  /\ diags \in Seq(Diag)
  /\ start \in [pos : 1..Len(toks), diags : Nat]
  /\ start.diags <= Len(diags)
  /\ attempt \in Attempt

\* A prefix expression and an operator loop run in an activation that waits
\* for nothing; the loop has a left-hand side, the prefix expression none yet.
\* The node an activation returned is one its callers can still place.
StepOK ==
  /\ step \in {"idle", "enter", "prefix", "loop", "return"}
  /\ step \in {"prefix", "loop"} => stack # <<>> /\ Top.wait = "none"
  /\ step = "prefix" => Top.lhs = 0
  /\ step = "loop" => Top.lhs # 0
  /\ step = "return" => Over(stack, nodes, ret)

ControlOK ==
  /\ Forest(nodes)
  /\ StackGood(stack, nodes, Len(toks))
  /\ DepthCounts
  /\ minArg \in 0..MaxPrec
  /\ ret \in 0..Len(nodes)
  /\ StepOK

ParserInv == InputOK /\ ControlOK

LEMMA NodesLen == ASSUME ControlOK PROVE nodes \in Seq(Node) /\ Len(nodes) \in Nat
  BY LenProperties DEF ControlOK, Forest

(* The top activation, and those below it.                                 *)
LEMMA TopGood ==
  ASSUME ControlOK, stack # <<>>
  PROVE  /\ StackGood(Rest, nodes, Len(toks))
         /\ Len(Rest) = Len(stack) - 1 /\ Len(stack) \in Nat \ {0}
         /\ Top \in Frame /\ FrameOK(Top, Len(nodes), Len(toks))
         /\ Over(Rest, nodes, Held(Top))
         /\ \A x : Over(stack, nodes, x) => Over(Rest, nodes, x) /\ (x # 0 => Held(Top) < x)
<1>1. StackGood(stack, nodes, Len(toks))
  BY DEF ControlOK
<1> QED BY <1>1, PopGood DEF Rest, Top

(* An activation leaves with a node its caller can place                   *)
(* (src/src/parser.c:413, 512).                                            *)
LEMMA LeaveGood ==
  ASSUME ControlOK, stack # <<>>, toks' = toks, Forest(nodes'), StackGood(Rest, nodes', Len(toks)),
         NEW id \in 0..Len(nodes'), Over(Rest, nodes', id), Leave(id)
  PROVE  ControlOK'
<1>1. Len(Rest) = Len(stack) - 1 /\ Len(stack) \in Nat \ {0}
  BY TopGood
<1>2. stack' = Rest /\ depth' = depth - 1 /\ ret' = id /\ step' = "return" /\ minArg' = minArg
  BY DEF Leave
<1>3. DepthCounts'
  BY <1>1, <1>2, ConstantsOK DEF ControlOK, DepthCounts
<1>4. StackGood(stack', nodes', Len(toks)) /\ Over(stack', nodes', ret')
  BY <1>2
<1>5. StepOK'
  BY <1>2, <1>4 DEF StepOK
<1> QED BY <1>2, <1>3, <1>4, <1>5 DEF ControlOK

(* The top frame is replaced, the count of activations untouched.          *)
LEMMA TopReplaced ==
  ASSUME ControlOK, stack # <<>>, StackGood(Rest, nodes', Len(toks)),
         NEW f \in Frame, FrameOK(f, Len(nodes'), Len(toks)), Over(Rest, nodes', Held(f)),
         toks' = toks, stack' = Append(Rest, f), depth' = depth
  PROVE  /\ StackGood(stack', nodes', Len(toks))
         /\ DepthCounts'
         /\ stack' # <<>> /\ Top' = f
<1>1. Len(Rest) = Len(stack) - 1 /\ Len(stack) \in Nat \ {0}
  BY TopGood
<1>2. /\ StackGood(Append(Rest, f), nodes', Len(toks))
      /\ Len(Append(Rest, f)) = Len(Rest) + 1
      /\ Append(Rest, f)[Len(Append(Rest, f))] = f
      /\ Append(Rest, f) # <<>>
  BY PushGood
<1>3. Top' = f
  BY <1>2 DEF Top
<1>4. DepthCounts'
  BY <1>1, <1>2 DEF ControlOK, DepthCounts
<1> QED BY <1>2, <1>3, <1>4

(* The operator loop goes on with a node it may place                      *)
(* (src/src/parser.c:425, 450, 473, 502).                                  *)
LEMMA ContinueGood ==
  ASSUME ControlOK, stack # <<>>, toks' = toks, Forest(nodes'),
         StackGood(Rest, nodes', Len(toks)), Len(nodes) <= Len(nodes'),
         NEW id \in 1..Len(nodes'), Over(Rest, nodes', id), Continue(id)
  PROVE  ControlOK'
<1> DEFINE f == [Top EXCEPT !.lhs = id, !.wait = "none"]
<1>1. Top \in Frame /\ FrameOK(Top, Len(nodes), Len(toks))
  BY TopGood
<1>2. Len(nodes') \in Nat /\ Len(nodes) \in Nat
  BY NodesLen, LenProperties DEF Forest
<1>3. /\ f \in Frame /\ f.lhs = id /\ f.wait = "none"
      /\ f.node = Top.node /\ f.op = Top.op
  <2>1. id \in Nat
    BY <1>2
  <2> QED BY <1>1, <2>1 DEF Frame, Waits
<1>4. /\ stack' = Append(Rest, f) /\ depth' = depth
      /\ step' = "loop" /\ minArg' = minArg /\ ret' = ret
  BY DEF Continue
<1> HIDE DEF f
<1>5. FrameOK(f, Len(nodes'), Len(toks)) /\ Held(f) = id
  BY <1>1, <1>2, <1>3 DEF FrameOK, Held
<1>6. /\ StackGood(stack', nodes', Len(toks))
      /\ DepthCounts'
      /\ stack' # <<>> /\ Top' = f
  BY <1>3, <1>4, <1>5, TopReplaced
<1>7. StepOK'
  BY <1>3, <1>4, <1>6 DEF StepOK
<1>8. ret' \in 0..Len(nodes')
  BY <1>2, <1>4 DEF ControlOK
<1> QED BY <1>4, <1>6, <1>7, <1>8 DEF ControlOK

(* A prefix expression, or NULL, ends one way or the other                 *)
(* (src/src/parser.c:412).                                                 *)
LEMMA HavePrefixGood ==
  ASSUME ControlOK, stack # <<>>, toks' = toks, Forest(nodes'),
         StackGood(Rest, nodes', Len(toks)), Len(nodes) <= Len(nodes'),
         NEW id \in 0..Len(nodes'), Over(Rest, nodes', id), HavePrefix(id)
  PROVE  ControlOK'
<1>1. Len(nodes') \in Nat
  BY LenProperties DEF Forest
<1>2. CASE id = 0
  <2>1. Leave(id)
    BY <1>2 DEF HavePrefix
  <2> QED BY <2>1, LeaveGood
<1>3. CASE id # 0
  <2>1. Continue(id) /\ id \in 1..Len(nodes')
    BY <1>1, <1>3 DEF HavePrefix
  <2> QED BY <2>1, ContinueGood
<1> QED BY <1>2, <1>3

(* An activation calls the one above it (src/src/parser.c:373, 385, 491).  *)
LEMMA CallGood ==
  ASSUME ControlOK, stack # <<>>, toks' = toks, Forest(nodes'),
         StackGood(Rest, nodes', Len(toks)), Len(nodes) <= Len(nodes'),
         NEW f \in Frame, FrameOK(f, Len(nodes'), Len(toks)), Over(Rest, nodes', Held(f)),
         NEW min \in 0..MaxPrec, Call(f, min)
  PROVE  ControlOK'
<1>1. Len(nodes') \in Nat /\ Len(nodes) \in Nat
  BY NodesLen, LenProperties DEF Forest
<1>2. /\ stack' = Append(Rest, f) /\ depth' = depth
      /\ step' = "enter" /\ minArg' = min /\ ret' = ret
  BY DEF Call
<1>3. /\ StackGood(stack', nodes', Len(toks))
      /\ DepthCounts'
  BY <1>2, TopReplaced
<1>4. StepOK'
  BY <1>2 DEF StepOK
<1>5. ret' \in 0..Len(nodes')
  BY <1>1, <1>2 DEF ControlOK
<1> QED BY <1>2, <1>3, <1>4, <1>5 DEF ControlOK

(* A node is allocated, or not, over children that are still to be placed  *)
(* (src/src/parser.c:257, 332).                                            *)
LEMMA StoreGood ==
  ASSUME Forest(nodes), NEW below, StackGood(below, nodes, Len(toks)),
         NEW id \in Allocated, NEW node \in Node, KidsIn(node.kids, Len(nodes)),
         \A i \in 1..Len(node.kids) : Over(below, nodes, node.kids[i]),
         \A i, j \in 1..Len(node.kids) : node.kids[i] = node.kids[j] => i = j,
         nodes' = Store(id, node)
  PROVE  /\ Forest(nodes') /\ Len(nodes) <= Len(nodes')
         /\ StackGood(below, nodes', Len(toks))
         /\ id \in 0..Len(nodes') /\ Over(below, nodes', id)
<1>1. Len(nodes) \in Nat
  BY LenProperties DEF Forest
<1>2. id = 0 \/ id = Len(nodes) + 1
  BY DEF Allocated
<1>3. CASE id = 0
  <2>1. nodes' = nodes
    BY <1>3 DEF Store
  <2> QED BY <1>1, <1>3, <2>1 DEF Over
<1>4. CASE id = Len(nodes) + 1
  <2> DEFINE next == Append(nodes, node)
             K == {node.kids[i] : i \in 1..Len(node.kids)}
  <2>1. nodes' = next
    BY <1>1, <1>4 DEF Store
  <2>2. \A i \in 1..Len(node.kids) : Orphan(nodes, node.kids[i])
    BY DEF Over, KidsIn
  <2>3. Forest(next) /\ Placed(nodes, next, K) /\ Len(next) = Len(nodes) + 1
        /\ Orphan(next, Len(nodes) + 1)
    BY <2>2, AppendPlaced
  <2>4. \A x \in K : x \in Nat /\ x # 0 /\ Over(below, nodes, x)
    BY <1>1 DEF KidsIn
  <2> HIDE DEF next, K
  <2>5. StackGood(below, next, Len(toks))
    BY <1>1, <2>3, <2>4, MoveGood
  <2>6. Over(below, next, Len(nodes) + 1)
    BY <1>1, <2>3, FreshOver
  <2> QED BY <1>1, <1>4, <2>1, <2>3, <2>5, <2>6
<1> QED BY <1>2, <1>3, <1>4

(* The node the top activation holds gets what was returned as its last    *)
(* child, or nothing (src/src/parser.c:374, 389, 532).                     *)
LEMMA GrowGood ==
  ASSUME ControlOK, stack # <<>>, step = "return", Held(Top) # 0,
         NEW node \in Node, NEW kids, KidsIn(kids, Len(nodes)),
         node.kids = WithKid(kids, ret),
         Len(kids) <= Len(nodes[Held(Top)].kids),
         \A i \in 1..Len(kids) : kids[i] = nodes[Held(Top)].kids[i],
         Rewritten(nodes, nodes', Held(Top), node)
  PROVE  /\ Forest(nodes') /\ Len(nodes) <= Len(nodes')
         /\ StackGood(Rest, nodes', Len(toks))
         /\ Held(Top) \in 1..Len(nodes') /\ Over(Rest, nodes', Held(Top))
<1> DEFINE m == Held(Top)
           K == {ret} \ {0}
<1>1. Forest(nodes) /\ Len(nodes) \in Nat
  BY NodesLen DEF ControlOK
<1>2. /\ StackGood(Rest, nodes, Len(toks))
      /\ FrameOK(Top, Len(nodes), Len(toks))
      /\ Over(Rest, nodes, m)
      /\ \A x : Over(stack, nodes, x) => Over(Rest, nodes, x) /\ (x # 0 => m < x)
  BY TopGood
<1>3. m \in 1..Len(nodes)
  <2>1. m \in 0..Len(nodes)
    BY <1>1, <1>2, HeldIn
  <2> QED BY <1>1, <2>1
<1>4. ret \in 0..Len(nodes) /\ Over(stack, nodes, ret)
  BY DEF ControlOK, StepOK
<1>5. ret # 0 => Orphan(nodes, ret)
  BY <1>4 DEF Over
<1>6. Rewritten(nodes, nodes', m, node)
  OBVIOUS
<1> HIDE DEF m
<1>7. Len(kids) <= Len(nodes[m].kids) /\ \A i \in 1..Len(kids) : kids[i] = nodes[m].kids[i]
  BY DEF m
<1>8. Forest(nodes') /\ Placed(nodes, nodes', K) /\ Len(nodes') = Len(nodes)
  <2>1. node \in Node /\ KidsIn(kids, Len(nodes)) /\ node.kids = WithKid(kids, ret)
    OBVIOUS
  <2>2. Forest(nodes) /\ m \in 1..Len(nodes) /\ ret \in 0..Len(nodes)
        /\ (ret # 0 => Orphan(nodes, ret))
    BY <1>1, <1>3, <1>4, <1>5
  <2> QED BY ONLY <1>6, <1>7, <2>1, <2>2, GrowPlaced
<1>9. \A x \in K : x \in Nat /\ x # 0 /\ Over(Rest, nodes, x)
  BY <1>1, <1>2, <1>4
<1>10. m \notin K
  <2>1. ret # 0 => m < ret
    BY <1>2, <1>4
  <2> QED BY <1>3, <1>4, <2>1
<1> HIDE DEF K
<1>11. StackGood(Rest, nodes', Len(toks)) /\ Over(Rest, nodes', m)
  BY <1>1, <1>2, <1>8, <1>9, <1>10, MoveGood
<1> QED BY <1>1, <1>3, <1>8, <1>11 DEF m

-----------------------------------------------------------------------------
(* Every step keeps the invariant.                                         *)

LEMMA InputKept ==
  ASSUME InputOK, UNCHANGED driver, pos' \in 1..Len(toks),
         diags' \in Seq(Diag), Len(diags) <= Len(diags')
  PROVE  InputOK'
<1>1. TokensOK'
  BY DEF InputOK, TokensOK, driver
<1>2. start.diags \in Nat /\ Len(diags) \in Nat /\ Len(diags') \in Nat
  BY LenProperties DEF InputOK
<1> QED BY <1>1, <1>2 DEF InputOK, driver

LEMMA CursorMoves ==
  ASSUME InputOK, UNCHANGED driver, UNCHANGED diags, pos' \in 1..Len(toks)
  PROVE  InputOK'
<1>1. diags' \in Seq(Diag) /\ Len(diags) <= Len(diags')
  BY LenProperties DEF InputOK
<1> QED BY <1>1, InputKept

(* The children of a node are nodes.                                       *)
LEMMA ChildrenIn ==
  ASSUME NEW ns, Forest(ns), NEW m \in 1..Len(ns)
  PROVE  ns[m] \in Node /\ KidsIn(ns[m].kids, Len(ns))
<1>1. ns[m] \in Node
  BY ElementOfSeq DEF Forest
<1>2. ns[m].kids \in Seq(Nat)
  BY <1>1 DEF Node
<1>3. ASSUME NEW i \in 1..Len(ns[m].kids) PROVE ns[m].kids[i] \in 1..Len(ns)
  <2>1. Child(ns, m, i, ns[m].kids[i])
    BY DEF Child
  <2> QED BY <2>1 DEF Forest
<1> QED BY <1>1, <1>2, <1>3 DEF KidsIn

(* A leaf is allocated, or not.                                            *)
LEMMA LeafGood ==
  ASSUME Forest(nodes), NEW below, StackGood(below, nodes, Len(toks)),
         NEW id \in Allocated, NEW node \in Node, node.kids = <<>>,
         nodes' = Store(id, node)
  PROVE  /\ Forest(nodes') /\ Len(nodes) <= Len(nodes')
         /\ StackGood(below, nodes', Len(toks))
         /\ id \in 0..Len(nodes') /\ Over(below, nodes', id)
<1>1. <<>> \in Seq(Nat) /\ Len(<<>>) = 0
  OBVIOUS
<1>2. KidsIn(node.kids, Len(nodes)) /\ \A i \in 1..Len(node.kids) : FALSE
  BY <1>1 DEF KidsIn
<1> QED BY <1>2, StoreGood

(* A node over the left-hand side alone (src/src/parser.c:448, 471, 557).  *)
LEMMA OneKidGood ==
  ASSUME Forest(nodes), NEW below, StackGood(below, nodes, Len(toks)),
         NEW id \in Allocated, NEW node \in Node, NEW lhs \in 1..Len(nodes),
         node.kids = <<lhs>>, Over(below, nodes, lhs),
         nodes' = Store(id, node)
  PROVE  /\ Forest(nodes') /\ Len(nodes) <= Len(nodes')
         /\ StackGood(below, nodes', Len(toks))
         /\ id \in 0..Len(nodes') /\ Over(below, nodes', id)
<1>1. Len(nodes) \in Nat
  BY LenProperties DEF Forest
<1>2. lhs \in Nat
  BY <1>1
<1>3. <<lhs>> \in Seq(Nat) /\ Len(<<lhs>>) = 1 /\ <<lhs>>[1] = lhs
  BY <1>2
<1>4. /\ KidsIn(node.kids, Len(nodes))
      /\ \A i \in 1..Len(node.kids) : i = 1 /\ node.kids[i] = lhs
  BY <1>3 DEF KidsIn
<1>5. /\ \A i \in 1..Len(node.kids) : Over(below, nodes, node.kids[i])
      /\ \A i, j \in 1..Len(node.kids) : node.kids[i] = node.kids[j] => i = j
  BY <1>4
<1> QED BY <1>4, <1>5, StoreGood

(* An error node over the token it skips, or nothing                       *)
(* (src/src/parser.c:321 make_error_node).                                 *)
LEMMA MakeErrorGood ==
  ASSUME InputOK, Forest(nodes), NEW below, StackGood(below, nodes, Len(toks)),
         NEW id \in Allocated, NEW msg \in Messages, UNCHANGED driver, MakeError(id, msg)
  PROVE  /\ InputOK'
         /\ Forest(nodes') /\ Len(nodes) <= Len(nodes')
         /\ StackGood(below, nodes', Len(toks))
         /\ id \in 0..Len(nodes') /\ Over(below, nodes', id)
<1>1. TokensOK /\ pos \in 1..Len(toks) /\ diags \in Seq(Diag) /\ Len(toks) \in Nat
  BY TokensLen DEF InputOK
<1>2. nodes \in Seq(Node) /\ Len(nodes) \in Nat
  BY LenProperties DEF Forest
<1>3. CASE id = 0
  <2>1. pos' = pos /\ nodes' = nodes /\ diags' = diags
    BY <1>3 DEF MakeError
  <2>2. InputOK'
    BY <1>1, <2>1, CursorMoves
  <2> QED BY <1>2, <1>3, <2>1, <2>2 DEF Over
<1>4. CASE id # 0
  <2> DEFINE leaf == MakeNode("error", pos, SpanOf(pos), <<>>)
             node == Finished(leaf, Advance(pos))
  <2>1. /\ diags' \in Reported(diags, msg, pos)
        /\ nodes' = Store(id, node)
        /\ pos' = Advance(pos)
    BY <1>4 DEF MakeError
  <2>2. Advance(pos) \in 1..Len(toks)
    BY <1>1, AdvanceOK
  <2>3. pos \in Nat \ {0} /\ Advance(pos) \in Nat \ {0}
    BY <1>1, <2>2
  <2>4. diags' \in Seq(Diag) /\ Len(diags) <= Len(diags')
    BY <1>1, <2>1, <2>3, ReportedOK
  <2>5. leaf \in Node /\ leaf.kids = <<>>
    <3>1. SpanOf(pos) \in Span /\ <<>> \in Seq(Nat) /\ "error" \in Kinds
      BY <2>3, SpanOfOK DEF Kinds
    <3> QED BY <2>3, <3>1, MakeNodeOK
  <2> HIDE DEF leaf
  <2>6. KidsIn(leaf.kids, Len(nodes))
    <3>1. <<>> \in Seq(Nat) /\ Len(<<>>) = 0
      OBVIOUS
    <3> QED BY <2>5, <3>1 DEF KidsIn
  <2>7. node \in Node /\ node.kids = <<>>
    BY <1>2, <2>3, <2>5, <2>6, FinishedOK
  <2>8. InputOK'
    BY <1>1, <2>1, <2>2, <2>4, InputKept
  <2> HIDE DEF node
  <2> QED BY <2>1, <2>7, <2>8, LeafGood
<1> QED BY <1>3, <1>4

(* The node the top activation holds gets what was returned as its last    *)
(* child and is finished (src/src/parser.c:374, 376, 559).                 *)
LEMMA GrowFinished ==
  ASSUME ControlOK, stack # <<>>, step = "return", NEW m, m = Held(Top), m # 0,
         NEW p \in Nat \ {0},
         Rewritten(nodes, nodes', m, Completed(m, p))
  PROVE  /\ Forest(nodes') /\ Len(nodes) <= Len(nodes')
         /\ StackGood(Rest, nodes', Len(toks))
         /\ m \in 1..Len(nodes') /\ Over(Rest, nodes', m)
<1> DEFINE kids == nodes[m].kids
           more == WithKid(kids, ret)
           grown == [nodes[m] EXCEPT !.kids = more]
           node == Finished(grown, p)
<1>1. Forest(nodes) /\ nodes \in Seq(Node) /\ Len(nodes) \in Nat /\ ret \in 0..Len(nodes)
  BY NodesLen DEF ControlOK
<1>2. m \in 1..Len(nodes)
  <2>1. FrameOK(Top, Len(nodes), Len(toks))
    BY TopGood
  <2>2. Held(Top) \in 0..Len(nodes)
    BY <1>1, <2>1, HeldIn
  <2> QED BY <1>1, <2>2
<1>3. Rewritten(nodes, nodes', m, node)
  BY DEF Completed
<1>4. nodes[m] \in Node /\ KidsIn(kids, Len(nodes))
  BY <1>1, <1>2, ChildrenIn
<1> HIDE DEF kids
<1>5. KidsIn(more, Len(nodes)) /\ Len(kids) \in Nat
  BY <1>1, <1>4, WithKidOK
<1> HIDE DEF more
<1>6. grown \in Node /\ grown.kids = more
  <2>1. more \in Seq(Nat)
    BY <1>5 DEF KidsIn
  <2> QED BY <1>4, <2>1 DEF Node
<1> HIDE DEF grown
<1>7. node \in Node /\ node.kids = more
  BY <1>1, <1>5, <1>6, FinishedOK
<1> HIDE DEF node
<1>8. /\ node.kids = WithKid(kids, ret) /\ Len(kids) <= Len(nodes[m].kids)
      /\ \A i \in 1..Len(kids) : kids[i] = nodes[m].kids[i]
  BY <1>5, <1>7 DEF more, kids
<1> QED BY <1>3, <1>4, <1>7, <1>8, GrowGood

(* What each step starts from.                                             *)
LEMMA InputFacts ==
  ASSUME InputOK
  PROVE  /\ TokensOK /\ pos \in 1..Len(toks) /\ Len(toks) \in Nat /\ pos \in Nat \ {0}
         /\ Advance(pos) \in 1..Len(toks)
         /\ diags \in Seq(Diag) /\ Len(diags) \in Nat
         /\ SpanOf(pos) \in Span
<1>1. TokensOK /\ pos \in 1..Len(toks) /\ diags \in Seq(Diag)
  BY DEF InputOK
<1>2. Len(toks) \in Nat /\ Len(diags) \in Nat
  BY <1>1, TokensLen, LenProperties
<1>3. pos \in Nat \ {0}
  BY <1>1, <1>2
<1> QED BY <1>1, <1>2, <1>3, AdvanceOK, SpanOfOK

LEMMA TooDeepStep == ASSUME ParserInv, TooDeep PROVE ParserInv'
<1> DEFINE msg == "too deep"
<1>1. msg \in Messages
  BY Zenon DEF Messages
<1> HIDE DEF msg
<1>2. PICK id \in Allocated : MakeError(id, msg) /\ ret' = id
  BY Zenon DEF TooDeep, msg
<1>3. /\ step' = "return" /\ UNCHANGED driver
      /\ depth' = depth /\ stack' = stack /\ minArg' = minArg
  BY Zenon DEF TooDeep
<1>4. InputOK /\ Forest(nodes) /\ StackGood(stack, nodes, Len(toks))
  BY DEF ParserInv, ControlOK
<1>5. /\ InputOK'
      /\ Forest(nodes') /\ Len(nodes) <= Len(nodes')
      /\ StackGood(stack, nodes', Len(toks))
      /\ id \in 0..Len(nodes') /\ Over(stack, nodes', id)
  BY <1>1, <1>2, <1>3, <1>4, MakeErrorGood
<1>6. StepOK'
  BY <1>2, <1>3, <1>5 DEF StepOK
<1>7. toks' = toks
  BY <1>3 DEF driver
<1>8. ControlOK'
  BY <1>2, <1>3, <1>5, <1>6, <1>7 DEF ParserInv, ControlOK, DepthCounts
<1> QED BY <1>5, <1>8 DEF ParserInv

LEMMA EnterStep == ASSUME ParserInv, Enter PROVE ParserInv'
<1> DEFINE f == [min |-> minArg, lhs |-> 0, wait |-> "none", node |-> 0, op |-> 0, mark |-> 0]
<1>1. /\ stack' = Append(stack, f) /\ depth' = depth + 1 /\ depth < MaxDepth
      /\ step' = "prefix" /\ toks' = toks /\ UNCHANGED driver
      /\ pos' = pos /\ nodes' = nodes /\ diags' = diags /\ minArg' = minArg /\ ret' = ret
  BY DEF Enter, driver
<1>2. /\ StackGood(stack, nodes, Len(toks)) /\ stack \in Seq(Frame) /\ Len(stack) \in Nat
      /\ Len(nodes) \in Nat /\ Len(toks) \in Nat
  BY NodesLen, InputFacts, LenProperties DEF ParserInv, ControlOK, StackGood
<1>3. f \in Frame
  <2>1. minArg \in Nat
    BY ConstantsOK DEF ParserInv, ControlOK
  <2> QED BY <2>1 DEF Frame, Waits
<1>4. /\ f.lhs = 0 /\ f.wait = "none" /\ f.node = 0 /\ f.op = 0
  OBVIOUS
<1> HIDE DEF f
<1>5. FrameOK(f, Len(nodes), Len(toks)) /\ Held(f) = 0
  BY <1>2, <1>4 DEF FrameOK, Held
<1>6. Over(stack, nodes, Held(f))
  BY <1>5 DEF Over
<1>7. /\ StackGood(stack', nodes, Len(toks))
      /\ Len(stack') = Len(stack) + 1
      /\ stack'[Len(stack')] = f
      /\ stack' # <<>>
  BY <1>1, <1>2, <1>3, <1>5, <1>6, PushGood
<1>8. DepthCounts'
  BY <1>1, <1>2, <1>7, ConstantsOK DEF ParserInv, ControlOK, DepthCounts
<1>9. StepOK'
  BY <1>1, <1>4, <1>7 DEF StepOK, Top
<1>10. StackGood(stack', nodes', Len(toks'))
  BY <1>1, <1>7
<1>11. ControlOK'
  BY <1>1, <1>8, <1>9, <1>10 DEF ParserInv, ControlOK
<1>12. InputOK'
  BY <1>1, CursorMoves DEF ParserInv, InputOK
<1> QED BY <1>11, <1>12 DEF ParserInv

\* In a prefix expression nothing is held.
LEMMA AtPrefix ==
  ASSUME ParserInv, step = "prefix"
  PROVE  /\ InputOK /\ ControlOK /\ Forest(nodes) /\ stack # <<>>
         /\ StackGood(Rest, nodes, Len(toks))
         /\ Top \in Frame /\ FrameOK(Top, Len(nodes), Len(toks))
         /\ Top.lhs = 0
<1>1. InputOK /\ ControlOK /\ Forest(nodes) /\ stack # <<>> /\ Top.lhs = 0
  BY DEF ParserInv, ControlOK, StepOK
<1> QED BY <1>1, TopGood

LEMMA AtomStep == ASSUME ParserInv, Atom PROVE ParserInv'
<1> DEFINE node == MakeNode(IF toks[pos] = "id" THEN "ident" ELSE "literal", pos, SpanOf(pos), <<>>)
<1>1. step = "prefix" /\ pos' = Advance(pos) /\ UNCHANGED driver /\ UNCHANGED diags
  BY DEF Atom
<1>2. PICK id \in Allocated : nodes' = Store(id, node) /\ HavePrefix(id)
  BY DEF Atom
<1>3. node \in Node /\ node.kids = <<>>
  <2>1. (IF toks[pos] = "id" THEN "ident" ELSE "literal") \in Kinds /\ <<>> \in Seq(Nat)
    BY DEF Kinds
  <2>2. pos \in Nat /\ SpanOf(pos) \in Span
    BY InputFacts DEF ParserInv
  <2> QED BY <2>1, <2>2, MakeNodeOK
<1> HIDE DEF node
<1>4. /\ InputOK /\ ControlOK /\ Forest(nodes) /\ stack # <<>>
      /\ StackGood(Rest, nodes, Len(toks))
  BY <1>1, AtPrefix
<1>5. toks' = toks
  BY <1>1 DEF driver
<1>6. ControlOK'
  BY <1>2, <1>3, <1>4, <1>5, LeafGood, HavePrefixGood
<1>7. InputOK'
  BY <1>1, <1>4, InputFacts, CursorMoves
<1> QED BY <1>6, <1>7 DEF ParserInv

LEMMA NoExpressionStep == ASSUME ParserInv, NoExpression PROVE ParserInv'
<1> DEFINE msg == "expected expression"
<1>1. msg \in Messages
  BY Zenon DEF Messages
<1> HIDE DEF msg
<1>2. PICK id \in Allocated : MakeError(id, msg) /\ HavePrefix(id)
  BY Zenon DEF NoExpression, msg
<1>3. step = "prefix" /\ UNCHANGED driver
  BY Zenon DEF NoExpression
<1>4. /\ InputOK /\ ControlOK /\ Forest(nodes) /\ stack # <<>>
      /\ StackGood(Rest, nodes, Len(toks))
  BY <1>3, AtPrefix
<1>5. toks' = toks
  BY <1>3 DEF driver
<1>6. /\ InputOK'
      /\ Forest(nodes') /\ Len(nodes) <= Len(nodes')
      /\ StackGood(Rest, nodes', Len(toks))
      /\ id \in 0..Len(nodes') /\ Over(Rest, nodes', id)
  BY <1>1, <1>2, <1>3, <1>4, MakeErrorGood
<1>7. ControlOK'
  BY <1>2, <1>4, <1>5, <1>6, HavePrefixGood
<1> QED BY <1>6, <1>7 DEF ParserInv

\* The top frame, waiting over a node.
Awaiting(top, wait, id, op) == [top EXCEPT !.wait = wait, !.node = id, !.op = op]

(* A frame that waits over a fresh group or unary node.                    *)
LEMMA WaitFrame ==
  ASSUME NEW n \in Nat, NEW t \in Nat, NEW top \in Frame, FrameOK(top, n, t), top.lhs = 0,
         NEW m \in Nat, n <= m, NEW id \in 0..m, NEW op \in 1..t,
         NEW wait \in {"group", "prefix"}
  PROVE  /\ Awaiting(top, wait, id, op) \in Frame
         /\ FrameOK(Awaiting(top, wait, id, op), m, t)
         /\ Held(Awaiting(top, wait, id, op)) = id
<1> DEFINE f == Awaiting(top, wait, id, op)
<1>1. id \in Nat /\ op \in Nat /\ wait \in Waits
  BY DEF Waits
<1>2. f \in Frame
  BY <1>1 DEF Frame, Awaiting
<1>3. f.wait = wait /\ f.node = id /\ f.op = op /\ f.lhs = top.lhs
  BY DEF Frame, Awaiting
<1> HIDE DEF f
<1>4. FrameOK(f, m, t) /\ Held(f) = id
  BY <1>3 DEF FrameOK, Held
<1> QED BY <1>2, <1>4 DEF f

LEMMA OpenGroupStep == ASSUME ParserInv, OpenGroup PROVE ParserInv'
<1> DEFINE node == MakeNode("group", pos, SpanOf(pos), <<>>)
           Waiting(id) == Awaiting(Top, "group", id, pos)
<1>1. step = "prefix" /\ pos' = Advance(pos) /\ UNCHANGED driver /\ UNCHANGED diags
  BY DEF OpenGroup
<1>2. PICK id \in Allocated : nodes' = Store(id, node) /\ Call(Waiting(id), 0)
  BY DEF OpenGroup, Awaiting
<1>3. node \in Node /\ node.kids = <<>>
  <2>1. "group" \in Kinds /\ <<>> \in Seq(Nat)
    BY DEF Kinds
  <2>2. pos \in Nat /\ SpanOf(pos) \in Span
    BY InputFacts DEF ParserInv
  <2> QED BY <2>1, <2>2, MakeNodeOK
<1> HIDE DEF node
<1>4. /\ InputOK /\ ControlOK /\ Forest(nodes) /\ stack # <<>>
      /\ StackGood(Rest, nodes, Len(toks))
      /\ Top \in Frame /\ FrameOK(Top, Len(nodes), Len(toks))
      /\ Top.lhs = 0
  BY <1>1, AtPrefix
<1>5. toks' = toks
  BY <1>1 DEF driver
<1>6. /\ Forest(nodes') /\ Len(nodes) <= Len(nodes')
      /\ StackGood(Rest, nodes', Len(toks))
      /\ id \in 0..Len(nodes') /\ Over(Rest, nodes', id)
  BY <1>2, <1>3, <1>4, LeafGood
<1>7. /\ Waiting(id) \in Frame /\ FrameOK(Waiting(id), Len(nodes'), Len(toks))
      /\ Held(Waiting(id)) = id
  <2>1. Len(nodes) \in Nat /\ Len(nodes') \in Nat /\ Len(toks) \in Nat /\ pos \in 1..Len(toks)
    BY <1>4, <1>6, InputFacts, LenProperties DEF Forest
  <2>2. "group" \in {"group", "prefix"} /\ Len(nodes) <= Len(nodes') /\ id \in 0..Len(nodes')
    BY <1>6
  <2>3. Top \in Frame /\ FrameOK(Top, Len(nodes), Len(toks)) /\ Top.lhs = 0
    BY <1>4
  <2> QED BY <2>1, <2>2, <2>3, WaitFrame
<1> HIDE DEF Waiting
<1>8. 0 \in 0..MaxPrec
  BY ConstantsOK
<1>9. ControlOK'
  BY <1>2, <1>4, <1>5, <1>6, <1>7, <1>8, CallGood
<1>10. InputOK'
  BY <1>1, <1>4, InputFacts, CursorMoves
<1> QED BY <1>9, <1>10 DEF ParserInv

LEMMA PrefixOperatorStep == ASSUME ParserInv, PrefixOperator PROVE ParserInv'
<1> DEFINE node == MakeNode("unary", pos, SpanOf(pos), <<>>)
           Waiting(id) == Awaiting(Top, "prefix", id, pos)
           min == OperatorFor(toks[pos], "prefix").prec
<1>1. step = "prefix" /\ pos' = Advance(pos) /\ UNCHANGED driver /\ UNCHANGED diags
  BY DEF PrefixOperator
<1>2. PICK id \in Allocated : nodes' = Store(id, node) /\ Call(Waiting(id), min)
  BY DEF PrefixOperator, Awaiting
<1>3. node \in Node /\ node.kids = <<>>
  <2>1. "unary" \in Kinds /\ <<>> \in Seq(Nat)
    BY DEF Kinds
  <2>2. pos \in Nat /\ SpanOf(pos) \in Span
    BY InputFacts DEF ParserInv
  <2> QED BY <2>1, <2>2, MakeNodeOK
<1> HIDE DEF node
<1>4. /\ InputOK /\ ControlOK /\ Forest(nodes) /\ stack # <<>>
      /\ StackGood(Rest, nodes, Len(toks))
      /\ Top \in Frame /\ FrameOK(Top, Len(nodes), Len(toks))
      /\ Top.lhs = 0
  BY <1>1, AtPrefix
<1>5. toks' = toks
  BY <1>1 DEF driver
<1>6. /\ Forest(nodes') /\ Len(nodes) <= Len(nodes')
      /\ StackGood(Rest, nodes', Len(toks))
      /\ id \in 0..Len(nodes') /\ Over(Rest, nodes', id)
  BY <1>2, <1>3, <1>4, LeafGood
<1>7. /\ Waiting(id) \in Frame /\ FrameOK(Waiting(id), Len(nodes'), Len(toks))
      /\ Held(Waiting(id)) = id
  <2>1. Len(nodes) \in Nat /\ Len(nodes') \in Nat /\ Len(toks) \in Nat /\ pos \in 1..Len(toks)
    BY <1>4, <1>6, InputFacts, LenProperties DEF Forest
  <2>2. "prefix" \in {"group", "prefix"} /\ Len(nodes) <= Len(nodes') /\ id \in 0..Len(nodes')
    BY <1>6
  <2>3. Top \in Frame /\ FrameOK(Top, Len(nodes), Len(toks)) /\ Top.lhs = 0
    BY <1>4
  <2> QED BY <2>1, <2>2, <2>3, WaitFrame
<1>8. min \in 0..MaxPrec
  <2>1. IsOperator(toks[pos], "prefix")
    BY DEF PrefixOperator
  <2> QED BY <2>1, OperatorForOK
<1> HIDE DEF Waiting, min
<1>9. ControlOK'
  BY <1>2, <1>4, <1>5, <1>6, <1>7, <1>8, CallGood
<1>10. InputOK'
  BY <1>1, <1>4, InputFacts, CursorMoves
<1> QED BY <1>9, <1>10 DEF ParserInv

\* Where an inner activation has returned, its node is above all that is held.
LEMMA AtReturn ==
  ASSUME ParserInv, NEW place, Returned(place)
  PROVE  /\ InputOK /\ ControlOK /\ Forest(nodes) /\ stack # <<>>
         /\ step = "return" /\ Top.wait = place
         /\ nodes \in Seq(Node) /\ Len(nodes) \in Nat
         /\ StackGood(Rest, nodes, Len(toks))
         /\ Top \in Frame /\ FrameOK(Top, Len(nodes), Len(toks))
         /\ Over(Rest, nodes, Held(Top))
         /\ ret \in 0..Len(nodes) /\ Over(Rest, nodes, ret)
         /\ ret # 0 => Held(Top) < ret
<1>1. InputOK /\ ControlOK /\ Forest(nodes) /\ step = "return" /\ stack # <<>> /\ Top.wait = place
  BY DEF ParserInv, ControlOK, Returned
<1>2. ret \in 0..Len(nodes) /\ Over(stack, nodes, ret)
  BY <1>1 DEF ControlOK, StepOK
<1> QED BY <1>1, <1>2, TopGood, NodesLen

LEMMA CloseGroupStep == ASSUME ParserInv, CloseGroup PROVE ParserInv'
<1> DEFINE msg == "expected )"
           m == Top.node
<1>1. msg \in Messages
  BY Zenon DEF Messages
<1> HIDE DEF msg
<1>2. PICK after \in Expecting(")", msg) :
        /\ pos' = after.pos
        /\ diags' = after.diags
        /\ nodes' = IF m = 0 THEN nodes ELSE [nodes EXCEPT ![m] = Completed(m, after.pos)]
  BY Zenon DEF CloseGroup, msg
<1>3. Returned("group") /\ HavePrefix(m) /\ UNCHANGED driver
  BY Zenon DEF CloseGroup
<1>4. /\ InputOK /\ ControlOK /\ Forest(nodes) /\ stack # <<>>
      /\ step = "return" /\ Top.wait = "group" /\ Len(nodes) \in Nat
      /\ StackGood(Rest, nodes, Len(toks))
      /\ Over(Rest, nodes, Held(Top))
  BY <1>3, AtReturn
<1>5. m = Held(Top)
  BY <1>4 DEF Held
<1>6. toks' = toks
  BY <1>3 DEF driver
<1>7. /\ after.pos \in 1..Len(toks) /\ after.pos \in Nat \ {0}
      /\ after.diags \in Seq(Diag) /\ Len(diags) <= Len(after.diags)
  <2>1. ")" # "eof"
    OBVIOUS
  <2>2. /\ after.pos \in 1..Len(toks)
        /\ after.diags \in Seq(Diag) /\ Len(diags) <= Len(after.diags)
    BY <1>1, <1>4, <2>1, ExpectingOK DEF InputOK
  <2>3. Len(toks) \in Nat
    BY <1>4, InputFacts
  <2> QED BY <2>2, <2>3
<1>8. InputOK'
  BY <1>2, <1>3, <1>4, <1>7, InputKept
<1>9. CASE m = 0
  <2>1. nodes' = nodes
    BY <1>2, <1>9
  <2>2. 0 \in 0..Len(nodes') /\ Over(Rest, nodes', 0) /\ HavePrefix(0)
    BY <1>3, <1>4, <1>9, <2>1 DEF Over
  <2>3. Forest(nodes') /\ StackGood(Rest, nodes', Len(toks)) /\ Len(nodes) <= Len(nodes')
    BY <1>4, <2>1
  <2>4. ControlOK'
    BY <1>4, <1>6, <2>2, <2>3, HavePrefixGood
  <2> QED BY <1>8, <2>4 DEF ParserInv
<1>10. CASE m # 0
  <2>1. Rewritten(nodes, nodes', m, Completed(m, after.pos))
    BY <1>2, <1>10, Zenon DEF Rewritten
  <2> HIDE DEF m
  <2>2. /\ Forest(nodes') /\ Len(nodes) <= Len(nodes')
        /\ StackGood(Rest, nodes', Len(toks))
        /\ m \in 1..Len(nodes') /\ Over(Rest, nodes', m)
    BY <1>4, <1>5, <1>7, <1>10, <2>1, GrowFinished
  <2>3. m \in 0..Len(nodes')
    BY <2>2
  <2>4. ControlOK'
    BY <1>3, <1>4, <1>6, <2>2, <2>3, HavePrefixGood
  <2> QED BY <1>8, <2>4 DEF ParserInv
<1> QED BY <1>9, <1>10

LEMMA FinishPrefixStep == ASSUME ParserInv, FinishPrefix PROVE ParserInv'
<1> DEFINE m == Top.node
           node == MakeNode("unary", Top.op, SpanUnion(SpanOf(Top.op), SpanIn(ret)),
                            WithKid(<<>>, ret))
<1>1. /\ Returned("prefix") /\ HavePrefix(m) /\ UNCHANGED driver
      /\ pos' = pos /\ diags' = diags
      /\ nodes' = IF m = 0 THEN nodes ELSE [nodes EXCEPT ![m] = node]
  BY Zenon DEF FinishPrefix
<1>2. /\ InputOK /\ ControlOK /\ Forest(nodes) /\ stack # <<>>
      /\ step = "return" /\ Top.wait = "prefix" /\ nodes \in Seq(Node) /\ Len(nodes) \in Nat
      /\ StackGood(Rest, nodes, Len(toks))
      /\ Top \in Frame /\ FrameOK(Top, Len(nodes), Len(toks))
      /\ Over(Rest, nodes, Held(Top))
      /\ ret \in 0..Len(nodes)
  BY <1>1, AtReturn
<1>3. m = Held(Top)
  BY <1>2 DEF Held
<1>4. toks' = toks
  BY <1>1 DEF driver
<1>5. InputOK'
  BY <1>1, <1>2, CursorMoves, InputFacts
<1>6. CASE m = 0
  <2>1. nodes' = nodes
    BY <1>1, <1>6
  <2>2. 0 \in 0..Len(nodes') /\ Over(Rest, nodes', 0) /\ HavePrefix(0)
    BY <1>1, <1>2, <1>6, <2>1 DEF Over
  <2>3. Forest(nodes') /\ StackGood(Rest, nodes', Len(toks)) /\ Len(nodes) <= Len(nodes')
    BY <1>2, <2>1
  <2>4. ControlOK'
    BY <1>2, <1>4, <2>2, <2>3, HavePrefixGood
  <2> QED BY <1>5, <2>4 DEF ParserInv
<1>7. CASE m # 0
  <2>1. Rewritten(nodes, nodes', m, node)
    BY <1>1, <1>7, Zenon DEF Rewritten
  <2>2. KidsIn(<<>>, Len(nodes)) /\ Len(<<>>) = 0
    <3>1. <<>> \in Seq(Nat) /\ Len(<<>>) = 0
      OBVIOUS
    <3> QED BY <3>1 DEF KidsIn
  <2>3. WithKid(<<>>, ret) \in Seq(Nat)
    BY <1>2, <2>2, WithKidOK DEF KidsIn
  <2>4. Top.op \in Nat \ {0}
    <3>1. Top.op \in 0..Len(toks) /\ Top.op # 0 /\ Len(toks) \in Nat
      BY <1>2, InputFacts DEF FrameOK
    <3> QED BY <3>1
  <2>5. SpanUnion(SpanOf(Top.op), SpanIn(ret)) \in Span
    BY <1>2, <2>4, SpanOfOK, SpanInOK, SpanUnionOK
  <2>6. node \in Node /\ node.kids = WithKid(<<>>, ret)
    <3>1. "unary" \in Kinds
      BY DEF Kinds
    <3> QED BY <2>3, <2>4, <2>5, <3>1, MakeNodeOK
  <2> HIDE DEF node, m
  <2>7. Len(<<>>) <= Len(nodes[m].kids) /\ \A i \in 1..Len(<<>>) : <<>>[i] = nodes[m].kids[i]
    <3>1. m \in 0..Len(nodes)
      BY <1>2, <1>3, HeldIn
    <3>2. m \in 1..Len(nodes)
      BY <1>2, <1>7, <3>1
    <3>3. KidsIn(nodes[m].kids, Len(nodes))
      BY <1>2, <3>2, ChildrenIn
    <3>4. Len(nodes[m].kids) \in Nat
      BY <3>3, LenProperties DEF KidsIn
    <3> QED BY <2>2, <3>4
  <2>8. /\ Forest(nodes') /\ Len(nodes) <= Len(nodes')
        /\ StackGood(Rest, nodes', Len(toks))
        /\ m \in 1..Len(nodes') /\ Over(Rest, nodes', m)
    <3> DEFINE none == <<>>
    <3>1. /\ KidsIn(none, Len(nodes)) /\ node.kids = WithKid(none, ret)
          /\ Len(none) <= Len(nodes[m].kids)
          /\ \A i \in 1..Len(none) : none[i] = nodes[m].kids[i]
      BY <2>2, <2>6, <2>7
    <3> HIDE DEF none
    <3> QED BY <1>2, <1>3, <1>7, <2>1, <2>6, <3>1, GrowGood
  <2>9. m \in 0..Len(nodes') /\ HavePrefix(m)
    BY <1>1, <2>8 DEF m
  <2>10. ControlOK'
    BY <1>2, <1>4, <2>8, <2>9, HavePrefixGood
  <2> QED BY <1>5, <2>10 DEF ParserInv
<1> QED BY <1>6, <1>7

\* In the operator loop the left-hand side is held.
LEMMA AtLoop ==
  ASSUME ParserInv, step = "loop"
  PROVE  /\ InputOK /\ ControlOK /\ Forest(nodes) /\ stack # <<>>
         /\ nodes \in Seq(Node) /\ Len(nodes) \in Nat
         /\ StackGood(Rest, nodes, Len(toks))
         /\ Top \in Frame /\ FrameOK(Top, Len(nodes), Len(toks))
         /\ Top.lhs \in 1..Len(nodes) /\ Over(Rest, nodes, Top.lhs)
<1>1. /\ InputOK /\ ControlOK /\ Forest(nodes) /\ stack # <<>>
      /\ Top.wait = "none" /\ Top.lhs # 0
  BY DEF ParserInv, ControlOK, StepOK
<1>2. Held(Top) = Top.lhs
  BY <1>1 DEF Held
<1>3. Top.lhs \in 0..Len(nodes) /\ Len(nodes) \in Nat
  BY <1>1, TopGood, NodesLen DEF FrameOK
<1> QED BY <1>1, <1>2, <1>3, TopGood, NodesLen

LEMMA EndLoopStep == ASSUME ParserInv, EndLoop PROVE ParserInv'
<1>1. /\ step = "loop" /\ Leave(Top.lhs) /\ UNCHANGED driver
      /\ pos' = pos /\ nodes' = nodes /\ diags' = diags
  BY DEF EndLoop
<1>2. /\ InputOK /\ ControlOK /\ Forest(nodes) /\ stack # <<>>
      /\ StackGood(Rest, nodes, Len(toks)) /\ Len(nodes) \in Nat
      /\ Top.lhs \in 1..Len(nodes) /\ Over(Rest, nodes, Top.lhs)
  BY <1>1, AtLoop
<1>3. toks' = toks
  BY <1>1 DEF driver
<1>4. /\ Forest(nodes') /\ StackGood(Rest, nodes', Len(toks))
      /\ Top.lhs \in 0..Len(nodes') /\ Over(Rest, nodes', Top.lhs)
  BY <1>1, <1>2
<1>5. ControlOK'
  BY <1>1, <1>2, <1>3, <1>4, LeaveGood
<1>6. InputOK'
  BY <1>1, <1>2, InputFacts, CursorMoves
<1> QED BY <1>5, <1>6 DEF ParserInv

(* The node over the left-hand side takes its place.                       *)
LEMMA LhsTaken ==
  ASSUME ParserInv, step = "loop", toks' = toks, NEW id \in Allocated,
         NEW node \in Node, node.kids = <<Top.lhs>>,
         nodes' = Store(id, node), HavePrefix(id)
  PROVE  ControlOK'
<1>1. /\ ControlOK /\ Forest(nodes) /\ stack # <<>>
      /\ StackGood(Rest, nodes, Len(toks))
      /\ Top.lhs \in 1..Len(nodes) /\ Over(Rest, nodes, Top.lhs)
  BY AtLoop
<1>2. /\ Forest(nodes') /\ Len(nodes) <= Len(nodes')
      /\ StackGood(Rest, nodes', Len(toks))
      /\ id \in 0..Len(nodes') /\ Over(Rest, nodes', id)
  BY <1>1, OneKidGood
<1> QED BY <1>1, <1>2, HavePrefixGood

LEMMA OneKid ==
  ASSUME ParserInv, step = "loop"
  PROVE  <<Top.lhs>> \in Seq(Nat) /\ SpanIn(Top.lhs) \in Span
<1>1. Top.lhs \in Nat /\ Top.lhs \in 0..Len(nodes) /\ nodes \in Seq(Node)
  BY AtLoop
<1>2. SpanIn(Top.lhs) \in Span
  BY <1>1, SpanInOK
<1> QED BY <1>1, <1>2

LEMMA PostfixStep == ASSUME ParserInv, PostfixOperator PROVE ParserInv'
<1> DEFINE node == MakeNode("unary", pos, SpanUnion(SpanIn(Top.lhs), SpanOf(pos)), <<Top.lhs>>)
<1>1. step = "loop" /\ pos' = Advance(pos) /\ UNCHANGED driver /\ UNCHANGED diags
  BY DEF PostfixOperator
<1>2. PICK id \in Allocated : nodes' = Store(id, node) /\ HavePrefix(id)
  BY DEF PostfixOperator
<1>3. node \in Node /\ node.kids = <<Top.lhs>>
  <2>1. "unary" \in Kinds
    BY DEF Kinds
  <2>2. pos \in Nat /\ SpanOf(pos) \in Span
    BY InputFacts DEF ParserInv
  <2>3. SpanUnion(SpanIn(Top.lhs), SpanOf(pos)) \in Span
    BY <1>1, <2>2, OneKid, SpanUnionOK
  <2> QED BY <1>1, <2>1, <2>2, <2>3, OneKid, MakeNodeOK
<1> HIDE DEF node
<1>4. toks' = toks
  BY <1>1 DEF driver
<1>5. ControlOK'
  BY <1>1, <1>2, <1>3, <1>4, LhsTaken
<1>6. InputOK'
  BY <1>1, InputFacts, CursorMoves DEF ParserInv
<1> QED BY <1>5, <1>6 DEF ParserInv

(* A selector is an operator, so a token follows it (src/src/parser.c:460).*)
LEMMA AfterSelector ==
  ASSUME InputOK, AtSelector
  PROVE  pos + 1 \in 1..Len(toks) /\ pos + 1 \in Nat \ {0}
<1>1. toks[pos] # "eof"
  BY OperatorForOK DEF AtSelector, AtInfix
<1>2. pos \in 1..Len(toks) /\ TokensOK /\ Len(toks) \in Nat
  BY InputFacts
<1> QED BY <1>1, <1>2, NotEof

LEMMA SelectorStep == ASSUME ParserInv, Selector PROVE ParserInv'
<1> DEFINE node == MakeNode("selector", pos + 1, SpanUnion(SpanIn(Top.lhs), SpanOf(pos + 1)),
                            <<Top.lhs>>)
<1>1. /\ step = "loop" /\ AtSelector /\ toks[pos + 1] = "id"
      /\ pos' = pos + 2 /\ UNCHANGED driver /\ UNCHANGED diags
  BY DEF Selector
<1>2. PICK id \in Allocated : nodes' = Store(id, node) /\ HavePrefix(id)
  BY DEF Selector
<1>3. pos + 1 \in 1..Len(toks) /\ pos + 1 \in Nat \ {0}
  BY <1>1, AfterSelector DEF ParserInv
<1>4. node \in Node /\ node.kids = <<Top.lhs>>
  <2>1. "selector" \in Kinds
    BY DEF Kinds
  <2>2. SpanOf(pos + 1) \in Span
    BY <1>3, SpanOfOK
  <2>3. SpanUnion(SpanIn(Top.lhs), SpanOf(pos + 1)) \in Span
    BY <1>1, <2>2, OneKid, SpanUnionOK
  <2> QED BY <1>1, <1>3, <2>1, <2>3, OneKid, MakeNodeOK
<1> HIDE DEF node
<1>5. toks' = toks
  BY <1>1 DEF driver
<1>6. ControlOK'
  BY <1>1, <1>2, <1>4, <1>5, LhsTaken
<1>7. pos' \in 1..Len(toks)
  <2>1. toks[pos + 1] # "eof" /\ TokensOK /\ pos \in Nat
    BY <1>1, InputFacts DEF ParserInv
  <2>2. (pos + 1) + 1 \in 1..Len(toks)
    BY <1>3, <2>1, NotEof
  <2> QED BY <1>1, <2>1, <2>2
<1>8. InputOK'
  BY <1>1, <1>7, CursorMoves DEF ParserInv
<1> QED BY <1>6, <1>8 DEF ParserInv

LEMMA SelectorWithoutNameStep == ASSUME ParserInv, SelectorWithoutName PROVE ParserInv'
<1> DEFINE msg == "expected identifier"
           node == MakeNode("error", pos + 1, SpanUnion(SpanIn(Top.lhs), SpanOf(pos + 1)), <<>>)
<1>1. msg \in Messages
  BY Zenon DEF Messages
<1> HIDE DEF msg
<1>2. diags' \in Reported(diags, msg, pos + 1)
  BY Zenon DEF SelectorWithoutName, msg
<1>3. PICK id \in Allocated : nodes' = Store(id, node) /\ Leave(id)
  BY Zenon DEF SelectorWithoutName
<1>4. step = "loop" /\ AtSelector /\ pos' = Advance(pos + 1) /\ UNCHANGED driver
  BY Zenon DEF SelectorWithoutName
<1>5. pos + 1 \in 1..Len(toks) /\ pos + 1 \in Nat \ {0}
  BY <1>4, AfterSelector DEF ParserInv
<1>6. node \in Node /\ node.kids = <<>>
  <2>1. "error" \in Kinds /\ <<>> \in Seq(Nat)
    BY DEF Kinds
  <2>2. SpanOf(pos + 1) \in Span
    BY <1>5, SpanOfOK
  <2>3. SpanUnion(SpanIn(Top.lhs), SpanOf(pos + 1)) \in Span
    BY <1>4, <2>2, OneKid, SpanUnionOK
  <2> QED BY <1>5, <2>1, <2>3, MakeNodeOK
<1> HIDE DEF node
<1>7. /\ InputOK /\ ControlOK /\ Forest(nodes) /\ stack # <<>>
      /\ StackGood(Rest, nodes, Len(toks))
  BY <1>4, AtLoop
<1>8. toks' = toks
  BY <1>4 DEF driver
<1>9. ControlOK'
  BY <1>3, <1>6, <1>7, <1>8, LeafGood, LeaveGood
<1>10. InputOK'
  <2>1. TokensOK /\ diags \in Seq(Diag)
    BY <1>7, InputFacts
  <2>2. diags' \in Seq(Diag) /\ Len(diags) <= Len(diags')
    BY <1>1, <1>2, <1>5, <2>1, ReportedOK
  <2>3. pos' \in 1..Len(toks)
    BY <1>4, <1>5, <2>1, AdvanceOK
  <2> QED BY <1>4, <1>7, <2>2, <2>3, InputKept
<1> QED BY <1>9, <1>10 DEF ParserInv

LEMMA InfixStep == ASSUME ParserInv, InfixOperator PROVE ParserInv'
<1> DEFINE f == [Top EXCEPT !.wait = "infix", !.op = pos]
           op == OperatorFor(toks[pos], "infix")
           min == NextMin(op)
<1>1. /\ step = "loop" /\ AtInfix /\ Call(f, min)
      /\ pos' = Advance(pos) /\ UNCHANGED driver /\ nodes' = nodes /\ UNCHANGED diags
  BY DEF InfixOperator
<1>2. /\ InputOK /\ ControlOK /\ Forest(nodes) /\ stack # <<>> /\ Len(nodes) \in Nat
      /\ StackGood(Rest, nodes, Len(toks))
      /\ Top \in Frame /\ FrameOK(Top, Len(nodes), Len(toks))
      /\ Top.lhs \in 1..Len(nodes) /\ Over(Rest, nodes, Top.lhs)
  BY <1>1, AtLoop
<1>3. min \in 0..MaxPrec
  <2>1. op.prec \in 0..MaxPrec
    BY <1>1, OperatorForOK DEF AtInfix
  <2> QED BY <2>1, NextMinOK
<1>4. pos \in Nat \ {0} /\ pos \in 1..Len(toks) /\ Len(toks) \in Nat
  BY <1>2, InputFacts
<1>5. f \in Frame /\ f.wait = "infix" /\ f.op = pos /\ f.lhs = Top.lhs /\ f.node = Top.node
  BY <1>2, <1>4 DEF Frame, Waits
<1> HIDE DEF f, min
<1>6. FrameOK(f, Len(nodes), Len(toks)) /\ Held(f) = Top.lhs
  BY <1>2, <1>4, <1>5 DEF FrameOK, Held
<1>7. toks' = toks
  BY <1>1 DEF driver
<1>8. /\ Forest(nodes') /\ StackGood(Rest, nodes', Len(toks)) /\ Len(nodes) <= Len(nodes')
      /\ FrameOK(f, Len(nodes'), Len(toks)) /\ Over(Rest, nodes', Held(f))
  BY <1>1, <1>2, <1>6
<1>9. ControlOK'
  BY <1>1, <1>2, <1>3, <1>5, <1>7, <1>8, CallGood
<1>10. InputOK'
  BY <1>1, <1>2, InputFacts, CursorMoves
<1> QED BY <1>9, <1>10 DEF ParserInv

LEMMA FinishInfixStep == ASSUME ParserInv, FinishInfix PROVE ParserInv'
<1> DEFINE msg  == "cannot be chained"
           kids == WithKid(<<Top.lhs>>, ret)
           node == MakeNode("binary", Top.op, SpanUnion(SpanIn(Top.lhs), SpanIn(ret)), kids)
<1>1. msg \in Messages
  BY Zenon DEF Messages
<1> HIDE DEF msg
<1>2. PICK id \in Allocated :
        /\ nodes' = Store(id, node)
        /\ \/ diags' \in Reported(diags, msg, pos) /\ Leave(id)
           \/ HavePrefix(id) /\ diags' = diags
  BY Zenon DEF FinishInfix, msg
<1>3. Returned("infix") /\ UNCHANGED driver /\ pos' = pos
  BY Zenon DEF FinishInfix
<1>4. /\ InputOK /\ ControlOK /\ Forest(nodes) /\ stack # <<>>
      /\ Top.wait = "infix" /\ nodes \in Seq(Node) /\ Len(nodes) \in Nat
      /\ StackGood(Rest, nodes, Len(toks))
      /\ FrameOK(Top, Len(nodes), Len(toks))
      /\ Over(Rest, nodes, Held(Top))
      /\ ret \in 0..Len(nodes) /\ Over(Rest, nodes, ret)
      /\ ret # 0 => Held(Top) < ret
  BY <1>3, AtReturn
<1>5. /\ Held(Top) = Top.lhs /\ Top.lhs \in 1..Len(nodes) /\ Top.lhs \in Nat
      /\ Top.op \in Nat /\ TokensOK /\ pos \in Nat /\ diags \in Seq(Diag)
      /\ Len(diags) \in Nat
  <2>1. Top.lhs \in 0..Len(nodes) /\ Top.lhs # 0 /\ Top.op \in 0..Len(toks) /\ Len(toks) \in Nat
    BY <1>4, InputFacts DEF FrameOK
  <2> QED BY <1>4, <2>1, InputFacts DEF Held
<1>6. /\ KidsIn(kids, Len(nodes))
      /\ \A i \in 1..Len(kids) : Over(Rest, nodes, kids[i])
      /\ \A i, j \in 1..Len(kids) : kids[i] = kids[j] => i = j
  <2> DEFINE one == <<Top.lhs>>
  <2>1. one \in Seq(Nat) /\ Len(one) = 1 /\ one[1] = Top.lhs
    BY <1>5
  <2>2. kids = WithKid(one, ret)
    OBVIOUS
  <2> HIDE DEF one, kids
  <2>3. KidsIn(one, Len(nodes))
    BY <1>5, <2>1 DEF KidsIn
  <2>4. /\ KidsIn(kids, Len(nodes))
        /\ Len(kids) = IF ret = 0 THEN 1 ELSE 2
        /\ kids[1] = Top.lhs
        /\ ret # 0 => kids[2] = ret
    <3>1. /\ KidsIn(kids, Len(nodes))
          /\ Len(kids) = IF ret = 0 THEN Len(one) ELSE Len(one) + 1
          /\ \A i \in 1..Len(one) : kids[i] = one[i]
          /\ ret # 0 => kids[Len(one) + 1] = ret
      BY <1>4, <2>2, <2>3, WithKidOK
    <3>2. 1 \in 1..Len(one)
      BY <2>1
    <3> QED BY <2>1, <3>1, <3>2
  <2>5. \A i \in 1..Len(kids) : i = 1 \/ (i = 2 /\ ret # 0)
    BY <2>4
  <2>6. \A i \in 1..Len(kids) : Over(Rest, nodes, kids[i])
    BY <1>4, <1>5, <2>4, <2>5
  <2>7. ASSUME NEW i \in 1..Len(kids), NEW j \in 1..Len(kids), kids[i] = kids[j] PROVE i = j
    <3>1. ret # 0 => kids[1] < kids[2]
      BY <1>4, <1>5, <2>4
    <3>2. ret # 0 => kids[1] # kids[2]
      BY <1>4, <1>5, <2>4, <3>1
    <3> QED BY <2>5, <2>7, <3>2
  <2> QED BY <2>4, <2>6, <2>7
<1>7. node \in Node /\ node.kids = kids
  <2>1. "binary" \in Kinds
    BY DEF Kinds
  <2>2. kids \in Seq(Nat)
    BY <1>6 DEF KidsIn
  <2>3. SpanUnion(SpanIn(Top.lhs), SpanIn(ret)) \in Span
    <3>1. Top.lhs \in 0..Len(nodes)
      BY <1>5
    <3> QED BY <1>4, <3>1, SpanInOK, SpanUnionOK
  <2> HIDE DEF kids
  <2> QED BY <1>5, <2>1, <2>2, <2>3, MakeNodeOK
<1> HIDE DEF node, kids
<1>8. /\ Forest(nodes') /\ Len(nodes) <= Len(nodes')
      /\ StackGood(Rest, nodes', Len(toks))
      /\ id \in 0..Len(nodes') /\ Over(Rest, nodes', id)
  BY <1>2, <1>4, <1>6, <1>7, StoreGood
<1>9. toks' = toks
  BY <1>3 DEF driver
<1>10. ControlOK'
  BY <1>2, <1>4, <1>8, <1>9, LeaveGood, HavePrefixGood
<1>11. InputOK'
  <2>1. diags' \in Seq(Diag) /\ Len(diags) <= Len(diags')
    BY <1>1, <1>2, <1>5, ReportedOK
  <2>2. pos' \in 1..Len(toks)
    BY <1>3, <1>4, InputFacts
  <2> QED BY <1>3, <1>4, <2>1, <2>2, InputKept
<1> QED BY <1>10, <1>11 DEF ParserInv

(* An opening bracket is not the end, nor is a closing one                 *)
(* (src/src/parser.c:548 kavak_parser_parse_call).                         *)
LEMMA AfterBracket ==
  ASSUME InputOK, AtCall
  PROVE  /\ pos + 1 \in 1..Len(toks)
         /\ toks[pos + 1] = ")" => pos + 2 \in 1..Len(toks)
<1>1. toks[pos] # "eof" /\ TokensOK /\ pos \in 1..Len(toks) /\ pos \in Nat
  BY InputFacts DEF AtCall
<1>2. pos + 1 \in 1..Len(toks)
  BY <1>1, NotEof
<1>3. ASSUME toks[pos + 1] = ")" PROVE pos + 2 \in 1..Len(toks)
  <2>1. (pos + 1) + 1 \in 1..Len(toks)
    BY <1>1, <1>2, <1>3, NotEof
  <2> QED BY <1>1, <2>1
<1> QED BY <1>2, <1>3

LEMMA CallNode ==
  ASSUME ParserInv, step = "loop"
  PROVE  /\ MakeNode("call", pos, SpanOf(pos), <<Top.lhs>>) \in Node
         /\ MakeNode("call", pos, SpanOf(pos), <<Top.lhs>>).kids = <<Top.lhs>>
<1>1. "call" \in Kinds
  BY DEF Kinds
<1>2. pos \in Nat /\ SpanOf(pos) \in Span
  BY InputFacts DEF ParserInv
<1> QED BY <1>1, <1>2, OneKid, MakeNodeOK

LEMMA FreshId ==
  ASSUME Len(nodes) \in Nat, NEW node
  PROVE  /\ Len(nodes) + 1 \in Allocated
         /\ Append(nodes, node) = Store(Len(nodes) + 1, node)
  BY DEF Allocated, Store

LEMMA EmptyCallStep == ASSUME ParserInv, EmptyCall PROVE ParserInv'
<1> DEFINE call == MakeNode("call", pos, SpanOf(pos), <<Top.lhs>>)
           node == Finished(call, pos + 2)
           id   == Len(nodes) + 1
<1>1. /\ step = "loop" /\ AtCall /\ toks[pos + 1] = ")"
      /\ nodes' = Append(nodes, node) /\ Continue(id)
      /\ pos' = pos + 2 /\ UNCHANGED driver /\ UNCHANGED diags
  BY DEF EmptyCall
<1>2. /\ InputOK /\ ControlOK /\ Forest(nodes) /\ stack # <<>>
      /\ nodes \in Seq(Node) /\ Len(nodes) \in Nat
      /\ StackGood(Rest, nodes, Len(toks))
      /\ Top.lhs \in 1..Len(nodes) /\ Over(Rest, nodes, Top.lhs)
  BY <1>1, AtLoop
<1>3. pos' \in 1..Len(toks) /\ pos + 2 \in Nat \ {0}
  BY <1>1, <1>2, AfterBracket, InputFacts
<1>4. call \in Node /\ call.kids = <<Top.lhs>>
  BY <1>1, CallNode
<1> HIDE DEF call
<1>5. KidsIn(call.kids, Len(nodes))
  <2>1. <<Top.lhs>> \in Seq(Nat) /\ Len(<<Top.lhs>>) = 1 /\ <<Top.lhs>>[1] = Top.lhs
    BY <1>1, OneKid
  <2> QED BY <1>2, <1>4, <2>1 DEF KidsIn
<1>6. node \in Node /\ node.kids = <<Top.lhs>>
  BY <1>2, <1>3, <1>4, <1>5, FinishedOK
<1> HIDE DEF node
<1>7. id \in Allocated /\ nodes' = Store(id, node)
  BY <1>1, <1>2, FreshId
<1>8. /\ Forest(nodes') /\ Len(nodes) <= Len(nodes')
      /\ StackGood(Rest, nodes', Len(toks))
      /\ id \in 0..Len(nodes') /\ Over(Rest, nodes', id)
  BY <1>2, <1>6, <1>7, OneKidGood
<1>9. id \in 1..Len(nodes')
  BY <1>2, <1>8
<1>10. toks' = toks
  BY <1>1 DEF driver
<1> HIDE DEF id
<1>11. ControlOK'
  BY <1>1, <1>2, <1>8, <1>9, <1>10, ContinueGood
<1>12. InputOK'
  BY <1>1, <1>2, <1>3, CursorMoves
<1> QED BY <1>11, <1>12 DEF ParserInv

LEMMA OpenCallStep == ASSUME ParserInv, OpenCall PROVE ParserInv'
<1> DEFINE node == MakeNode("call", pos, SpanOf(pos), <<Top.lhs>>)
           id   == Len(nodes) + 1
           f    == [Top EXCEPT !.wait = "argument", !.node = id, !.op = pos, !.mark = pos + 1]
<1>1. /\ step = "loop" /\ AtCall
      /\ nodes' = Append(nodes, node) /\ Call(f, 0)
      /\ pos' = pos + 1 /\ UNCHANGED driver /\ UNCHANGED diags
  BY DEF OpenCall
<1>2. /\ InputOK /\ ControlOK /\ Forest(nodes) /\ stack # <<>>
      /\ nodes \in Seq(Node) /\ Len(nodes) \in Nat
      /\ StackGood(Rest, nodes, Len(toks))
      /\ Top \in Frame /\ FrameOK(Top, Len(nodes), Len(toks))
      /\ Top.lhs \in 1..Len(nodes) /\ Over(Rest, nodes, Top.lhs)
  BY <1>1, AtLoop
<1>3. pos' \in 1..Len(toks) /\ pos \in 1..Len(toks) /\ pos \in Nat \ {0} /\ Len(toks) \in Nat
  BY <1>1, <1>2, AfterBracket, InputFacts
<1>4. node \in Node /\ node.kids = <<Top.lhs>>
  BY <1>1, CallNode
<1> HIDE DEF node
<1>5. id \in Allocated /\ nodes' = Store(id, node)
  BY <1>1, <1>2, FreshId
<1>6. /\ Forest(nodes') /\ Len(nodes) <= Len(nodes')
      /\ StackGood(Rest, nodes', Len(toks))
      /\ id \in 0..Len(nodes') /\ Over(Rest, nodes', id)
  BY <1>2, <1>4, <1>5, OneKidGood
<1>7. id \in Nat /\ id # 0 /\ Len(nodes') \in Nat
  BY <1>2, <1>6, LenProperties DEF Forest
<1> HIDE DEF id
<1>8. f \in Frame /\ f.wait = "argument" /\ f.op = pos /\ f.lhs = Top.lhs /\ f.node = id
  <2> DEFINE mark == pos + 1
  <2>1. mark \in Nat /\ pos \in Nat /\ "argument" \in Waits
    BY <1>3 DEF Waits
  <2> HIDE DEF mark
  <2>2. [Top EXCEPT !.wait = "argument", !.node = id, !.op = pos, !.mark = mark] \in Frame
    BY <1>2, <1>7, <2>1 DEF Frame
  <2>3. f \in Frame
    BY <2>2 DEF mark
  <2>4. f.wait = "argument" /\ f.op = pos /\ f.lhs = Top.lhs /\ f.node = id
    BY <1>2 DEF Frame
  <2> QED BY <2>3, <2>4
<1> HIDE DEF f
<1>9. FrameOK(f, Len(nodes'), Len(toks)) /\ Held(f) = id
  BY <1>2, <1>3, <1>6, <1>7, <1>8 DEF FrameOK, Held
<1>10. toks' = toks /\ 0 \in 0..MaxPrec
  BY <1>1, ConstantsOK DEF driver
<1>11. ControlOK'
  BY <1>1, <1>2, <1>6, <1>8, <1>9, <1>10, CallGood
<1>12. InputOK'
  BY <1>1, <1>2, <1>3, CursorMoves
<1> QED BY <1>11, <1>12 DEF ParserInv

\* While it waits for an argument, an activation holds the call.
LEMMA AtArgument ==
  ASSUME ParserInv, Returned("argument")
  PROVE  Top.node = Held(Top) /\ Top.node # 0 /\ Top.node \in 1..Len(nodes)
<1>1. /\ Top.wait = "argument" /\ FrameOK(Top, Len(nodes), Len(toks)) /\ Len(nodes) \in Nat
  BY AtReturn
<1> QED BY <1>1 DEF FrameOK, Held

(* After a comma, which is not the end; nor is a closing bracket after it. *)
LEMMA AfterComma ==
  ASSUME InputOK, toks[pos] # "eof"
  PROVE  /\ pos + 1 \in 1..Len(toks)
         /\ toks[pos + 1] = ")" => pos + 2 \in 1..Len(toks)
<1>1. TokensOK /\ pos \in 1..Len(toks) /\ pos \in Nat
  BY InputFacts
<1>2. pos + 1 \in 1..Len(toks)
  BY <1>1, NotEof
<1>3. ASSUME toks[pos + 1] = ")" PROVE pos + 2 \in 1..Len(toks)
  <2>1. (pos + 1) + 1 \in 1..Len(toks)
    BY <1>1, <1>2, <1>3, NotEof
  <2> QED BY <1>1, <2>1
<1> QED BY <1>2, <1>3

LEMMA NextArgumentStep == ASSUME ParserInv, NextArgument PROVE ParserInv'
<1> DEFINE m    == Top.node
           kids == nodes[m].kids
           node == [nodes[m] EXCEPT !.kids = WithKid(kids, ret)]
           mark == pos + 1
           f    == [Top EXCEPT !.mark = mark]
<1> DEFINE comma == ","
<1>0. comma # "eof"
  BY Zenon
<1> HIDE DEF comma
<1>1. /\ Returned("argument") /\ toks[pos] = comma
      /\ nodes' = [nodes EXCEPT ![m].kids = WithKid(@, ret)] /\ Call(f, 0)
      /\ pos' = mark /\ UNCHANGED driver /\ UNCHANGED diags
  BY Zenon DEF NextArgument, MoreArguments, comma
<1>2. /\ InputOK /\ ControlOK /\ Forest(nodes) /\ stack # <<>> /\ step = "return"
      /\ nodes \in Seq(Node) /\ Len(nodes) \in Nat
      /\ StackGood(Rest, nodes, Len(toks))
      /\ Top \in Frame /\ FrameOK(Top, Len(nodes), Len(toks))
      /\ ret \in 0..Len(nodes)
      /\ m = Held(Top) /\ m # 0 /\ m \in 1..Len(nodes)
  BY <1>1, AtReturn, AtArgument
<1>3. mark \in 1..Len(toks) /\ mark \in Nat
  BY <1>0, <1>1, <1>2, AfterComma, InputFacts
<1>4. Rewritten(nodes, nodes', m, node)
  BY <1>1 DEF Rewritten
<1> HIDE DEF m
<1>5. nodes[m] \in Node /\ KidsIn(kids, Len(nodes)) /\ kids = nodes[m].kids
  BY <1>2, ChildrenIn
<1> HIDE DEF kids
<1>6. KidsIn(WithKid(kids, ret), Len(nodes)) /\ Len(kids) \in Nat
  BY <1>2, <1>5, WithKidOK
<1>7. node \in Node /\ node.kids = WithKid(kids, ret)
  <2> DEFINE more == WithKid(kids, ret)
  <2>1. more \in Seq(Nat)
    BY <1>6 DEF KidsIn
  <2> HIDE DEF more
  <2>2. [nodes[m] EXCEPT !.kids = more] \in Node /\ [nodes[m] EXCEPT !.kids = more].kids = more
    BY <1>5, <2>1 DEF Node
  <2> QED BY <2>2 DEF more
<1> HIDE DEF node
<1>8. /\ Len(kids) <= Len(nodes[Held(Top)].kids)
      /\ \A i \in 1..Len(kids) : kids[i] = nodes[Held(Top)].kids[i]
      /\ Rewritten(nodes, nodes', Held(Top), node)
      /\ Held(Top) # 0
  BY <1>2, <1>4, <1>5, <1>6
<1>9. /\ Forest(nodes') /\ Len(nodes) <= Len(nodes')
      /\ StackGood(Rest, nodes', Len(toks))
      /\ Over(Rest, nodes', Held(Top))
  BY <1>2, <1>5, <1>7, <1>8, GrowGood
<1> HIDE DEF mark
<1>10. /\ f \in Frame /\ f.lhs = Top.lhs /\ f.node = Top.node /\ f.op = Top.op /\ f.wait = Top.wait
  BY <1>2, <1>3 DEF Frame
<1> HIDE DEF f
<1>11. FrameOK(f, Len(nodes'), Len(toks)) /\ Held(f) = Held(Top)
  <2>1. FrameOK(f, Len(nodes), Len(toks)) /\ Held(f) = Held(Top)
    BY <1>2, <1>10 DEF FrameOK, Held
  <2>2. Len(nodes') \in Nat
    BY <1>9, LenProperties DEF Forest
  <2> QED BY <1>2, <1>9, <2>1, <2>2, FrameGrows
<1>12. toks' = toks /\ 0 \in 0..MaxPrec
  BY <1>1, ConstantsOK DEF driver
<1>13. ControlOK'
  BY <1>1, <1>2, <1>9, <1>10, <1>11, <1>12, CallGood
<1>14. InputOK'
  BY <1>1, <1>2, <1>3, CursorMoves
<1> QED BY <1>13, <1>14 DEF ParserInv

LEMMA CloseCallStep == ASSUME ParserInv, CloseCall PROVE ParserInv'
<1> DEFINE msg   == "expected closing"
           comma == ","
           m     == Top.node
<1>1. msg \in Messages /\ comma # "eof"
  BY Zenon DEF Messages
<1> HIDE DEF msg, comma
<1>2. PICK after \in IF pos > Top.mark /\ toks[pos] = comma
                     THEN {[pos |-> pos + 2, diags |-> diags]}
                     ELSE Expecting(")", msg) :
        /\ pos' = after.pos
        /\ diags' = after.diags
        /\ nodes' = [nodes EXCEPT ![m] = Completed(m, after.pos)]
  BY Zenon DEF CloseCall, msg, comma
<1>3. Returned("argument") /\ ~MoreArguments /\ Continue(m) /\ UNCHANGED driver
  BY Zenon DEF CloseCall
<1>4. /\ InputOK /\ ControlOK /\ Forest(nodes) /\ stack # <<>> /\ step = "return"
      /\ m = Held(Top) /\ m # 0
  BY <1>3, AtReturn, AtArgument
<1>5. TokensOK /\ pos \in 1..Len(toks) /\ diags \in Seq(Diag) /\ Len(diags) \in Nat /\ Len(toks) \in Nat
  BY <1>4, InputFacts
<1>6. /\ after.pos \in 1..Len(toks)
      /\ after.diags \in Seq(Diag) /\ Len(diags) <= Len(after.diags)
  <2>1. CASE pos > Top.mark /\ toks[pos] = comma
    <3>1. after.pos = pos + 2 /\ after.diags = diags
      BY <2>1
    <3>2. toks[pos + 1] = ")"
      BY <1>3, <2>1, Zenon DEF MoreArguments, comma
    <3> QED BY <1>1, <1>4, <1>5, <2>1, <3>1, <3>2, AfterComma
  <2>2. CASE ~(pos > Top.mark /\ toks[pos] = comma)
    <3>1. after \in Expecting(")", msg) /\ ")" # "eof"
      BY <2>2
    <3> QED BY <1>1, <1>5, <3>1, ExpectingOK
  <2> QED BY <2>1, <2>2
<1>7. after.pos \in Nat \ {0}
  BY <1>5, <1>6
<1>8. InputOK'
  BY <1>2, <1>3, <1>4, <1>6, InputKept
<1>9. Rewritten(nodes, nodes', m, Completed(m, after.pos))
  BY <1>2, Zenon DEF Rewritten
<1> HIDE DEF m
<1>10. /\ Forest(nodes') /\ Len(nodes) <= Len(nodes')
       /\ StackGood(Rest, nodes', Len(toks))
       /\ m \in 1..Len(nodes') /\ Over(Rest, nodes', m)
  BY <1>4, <1>7, <1>9, GrowFinished
<1>11. toks' = toks
  BY <1>3 DEF driver
<1>12. ControlOK'
  BY <1>3, <1>4, <1>10, <1>11, ContinueGood
<1> QED BY <1>8, <1>12 DEF ParserInv

(* The statement loop calls when nothing is left on the stack to disturb.  *)
LEMMA ControlKept ==
  ASSUME ControlOK, UNCHANGED parserUnchanged, minArg' \in 0..MaxPrec,
         step' \in {"idle", "enter"}
  PROVE  ControlOK'
<1>1. /\ toks' = toks /\ depth' = depth /\ nodes' = nodes /\ stack' = stack /\ ret' = ret
  BY DEF parserUnchanged
<1>2. StepOK'
  BY DEF StepOK
<1> QED BY <1>1, <1>2 DEF ControlOK, DepthCounts

LEMMA BeginStep == ASSUME ParserInv, BeginStatement PROVE ParserInv'
<1>1. /\ start' = [pos |-> pos, diags |-> Len(diags)] /\ minArg' = 0 /\ step' = "enter"
      /\ UNCHANGED parserUnchanged /\ pos' = pos /\ diags' = diags /\ attempt' = attempt
  BY DEF BeginStatement
<1>2. toks' = toks /\ mayFail' = mayFail
  BY <1>1 DEF parserUnchanged
<1>3. minArg' \in 0..MaxPrec
  BY <1>1, ConstantsOK
<1>4. ControlOK'
  BY <1>1, <1>3, ControlKept DEF ParserInv
<1>5. /\ start' \in [pos : 1..Len(toks), diags : Nat] /\ start'.diags <= Len(diags)
  BY <1>1, InputFacts DEF ParserInv
<1>6. InputOK'
  BY <1>1, <1>2, <1>5 DEF ParserInv, InputOK, TokensOK
<1> QED BY <1>4, <1>6 DEF ParserInv

LEMMA RewindStep == ASSUME ParserInv, Rewind PROVE ParserInv'
<1>1. /\ attempt' = [made |-> TRUE, root |-> ret, pos |-> pos, diags |-> diags]
      /\ pos' = start.pos /\ diags' = SubSeq(diags, 1, start.diags)
      /\ step' = "idle" /\ minArg' = minArg /\ start' = start
      /\ UNCHANGED parserUnchanged
  BY DEF Rewind, DropDiags
<1>2. toks' = toks /\ mayFail' = mayFail
  BY <1>1 DEF parserUnchanged
<1>3. minArg' \in 0..MaxPrec
  BY <1>1 DEF ParserInv, ControlOK
<1>4. ControlOK'
  BY <1>1, <1>3, ControlKept DEF ParserInv
<1>5. /\ start.pos \in 1..Len(toks) /\ start.diags \in Nat /\ start.diags <= Len(diags)
      /\ diags \in Seq(Diag) /\ pos \in Nat
  BY InputFacts DEF ParserInv, InputOK
<1>6. diags' \in Seq(Diag) /\ Len(diags') = start.diags
  BY <1>1, <1>5, Prefix
<1>7. ret \in Nat
  BY NodesLen DEF ParserInv, ControlOK
<1>8. attempt' \in Attempt
  BY <1>1, <1>5, <1>7 DEF Attempt
<1>9. start.diags <= Len(diags')
  BY <1>5, <1>6
<1>10. InputOK'
  BY <1>1, <1>2, <1>5, <1>6, <1>8, <1>9 DEF ParserInv, InputOK, TokensOK
<1> QED BY <1>4, <1>10 DEF ParserInv

LEMMA EndStatementStep == ASSUME ParserInv, EndStatement PROVE ParserInv'
<1> DEFINE msg == "expected ;"
           symbol == ";"
<1>1. msg \in Messages /\ symbol # "eof"
  BY Zenon DEF Messages
<1> HIDE DEF msg, symbol
<1>2. PICK after \in Expecting(symbol, msg) :
        /\ diags' = after.diags
        /\ \/ pos' = after.pos
           \/ \E targets \in TargetSets : pos' = RecoverTo(pos, targets)
  BY Zenon DEF EndStatement, msg, symbol
<1>3. /\ attempt' = [made |-> FALSE, root |-> 0, pos |-> 1, diags |-> <<>>]
      /\ step' = "idle" /\ minArg' = minArg /\ start' = start
      /\ UNCHANGED parserUnchanged
  BY Zenon DEF EndStatement
<1>4. toks' = toks /\ mayFail' = mayFail
  BY <1>3 DEF parserUnchanged
<1>5. minArg' \in 0..MaxPrec
  BY <1>3 DEF ParserInv, ControlOK
<1>6. ControlOK'
  BY <1>3, <1>5, ControlKept DEF ParserInv
<1>7. TokensOK /\ pos \in 1..Len(toks) /\ diags \in Seq(Diag) /\ Len(diags) \in Nat /\ Len(toks) \in Nat
  BY InputFacts DEF ParserInv
<1>8. /\ after.pos \in 1..Len(toks)
      /\ diags' \in Seq(Diag) /\ Len(diags) <= Len(diags')
  BY <1>1, <1>2, <1>7, ExpectingOK
<1>9. pos' \in 1..Len(toks)
  <2>1. CASE pos' = after.pos
    BY <1>8, <2>1
  <2>2. ASSUME NEW targets \in TargetSets, pos' = RecoverTo(pos, targets)
        PROVE  pos' \in 1..Len(toks)
    <3>1. pos' \in pos..Len(toks)
      BY <1>7, <2>2, RecoverToOK
    <3> QED BY <1>7, <3>1
  <2> QED BY <1>2, <2>1, <2>2
<1>10. attempt' \in Attempt
  <2>1. <<>> \in Seq(Diag)
    OBVIOUS
  <2> QED BY <1>3, <2>1 DEF Attempt
<1>11. start.diags \in Nat /\ start.diags <= Len(diags') /\ start \in [pos : 1..Len(toks), diags : Nat]
  <2>1. start.diags \in Nat /\ start.diags <= Len(diags) /\ start \in [pos : 1..Len(toks), diags : Nat]
    BY DEF ParserInv, InputOK
  <2>2. Len(diags') \in Nat
    BY <1>8, LenProperties
  <2> QED BY <1>7, <1>8, <2>1, <2>2
<1>12. InputOK'
  BY <1>3, <1>4, <1>8, <1>9, <1>10, <1>11 DEF ParserInv, InputOK, TokensOK
<1> QED BY <1>6, <1>12 DEF ParserInv

LEMMA StutterStep == ASSUME ParserInv, UNCHANGED vars PROVE ParserInv'
<1>1. /\ toks' = toks /\ mayFail' = mayFail /\ pos' = pos /\ depth' = depth
      /\ nodes' = nodes /\ diags' = diags /\ stack' = stack /\ step' = step
      /\ minArg' = minArg /\ ret' = ret /\ start' = start /\ attempt' = attempt
  BY DEF vars
<1>2. InputOK'
  BY <1>1 DEF ParserInv, InputOK, TokensOK
<1>3. StepOK'
  BY <1>1 DEF ParserInv, ControlOK, StepOK, Top
<1> QED BY <1>1, <1>2, <1>3 DEF ParserInv, ControlOK, DepthCounts

LEMMA ParserStarts == Init => ParserInv
<1> SUFFICES ASSUME Init PROVE ParserInv
  OBVIOUS
<1>1. TokensOK /\ mayFail \in BOOLEAN
  BY ConstantsOK DEF Init, TokensOK
<1>2. /\ pos = 1 /\ depth = 0 /\ nodes = <<>> /\ diags = <<>> /\ stack = <<>>
      /\ step = "idle" /\ minArg = 0 /\ ret = 0
      /\ start = [pos |-> 1, diags |-> 0]
      /\ attempt = [made |-> FALSE, root |-> 0, pos |-> 1, diags |-> <<>>]
  BY DEF Init
<1>3. 1 \in 1..Len(toks)
  BY <1>1, TokensLen
<1>4. InputOK
  <2>1. diags \in Seq(Diag) /\ Len(diags) = 0
    BY <1>2
  <2>2. attempt \in Attempt
    BY <1>2, <2>1 DEF Attempt
  <2>3. start \in [pos : 1..Len(toks), diags : Nat] /\ start.diags = 0
    BY <1>2, <1>3
  <2> QED BY <1>1, <1>2, <1>3, <2>1, <2>2, <2>3 DEF InputOK
<1>5. Forest(nodes)
  <2>1. nodes \in Seq(Node) /\ Len(nodes) = 0
    BY <1>2
  <2> QED BY <2>1 DEF Forest, Child
<1>6. StackGood(stack, nodes, Len(toks)) /\ Len(stack) = 0
  <2>1. stack \in Seq(Frame) /\ Len(stack) = 0
    BY <1>2
  <2> QED BY <2>1 DEF StackGood
<1>7. DepthCounts /\ minArg \in 0..MaxPrec
  BY <1>2, <1>6, ConstantsOK DEF DepthCounts
<1>8. ret \in 0..Len(nodes) /\ StepOK
  BY <1>2 DEF StepOK
<1> QED BY <1>4, <1>5, <1>6, <1>7, <1>8 DEF ParserInv, ControlOK

LEMMA ParserSteps == ParserInv /\ [Next]_vars => ParserInv'
  BY TooDeepStep, EnterStep, AtomStep, OpenGroupStep, CloseGroupStep, PrefixOperatorStep,
     FinishPrefixStep, NoExpressionStep, EndLoopStep, PostfixStep, SelectorStep,
     SelectorWithoutNameStep, InfixStep, FinishInfixStep, EmptyCallStep, OpenCallStep,
     NextArgumentStep, CloseCallStep, BeginStep, RewindStep, EndStatementStep, StutterStep,
     Zenon DEF Next, Stop

LEMMA ParserAlways == Spec => []ParserInv
  BY ParserStarts, ParserSteps, PTL DEF Spec

(* expr_depth is the number of live activations and never exceeds the      *)
(* limit: the guard of src/src/parser.c:406 is exact, for every input.     *)
THEOREM GuardExact == Spec => []DepthCounts
<1>1. ParserInv => DepthCounts
  BY DEF ParserInv, ControlOK
<1> QED BY <1>1, ParserAlways, PTL

(* Every variable of the parser keeps its range: the cursor stays on the   *)
(* tokens, whatever the input and wherever an allocation failed, and every *)
(* node and diagnostic is one.                                             *)
THEOREM ParserTyped == Spec => []TypeOK
<1>1. ParserInv => TypeOK
  <2> SUFFICES ASSUME ParserInv PROVE TypeOK
    OBVIOUS
  <2>1. /\ toks \in Seq(STRING) /\ mayFail \in BOOLEAN /\ pos \in 1..Len(toks)
        /\ diags \in Seq(Diag) /\ start \in [pos : 1..Len(toks), diags : Nat]
        /\ attempt \in Attempt
    BY DEF ParserInv, InputOK, TokensOK
  <2>2. /\ nodes \in Seq(Node) /\ stack \in Seq(Frame) /\ minArg \in 0..MaxPrec
        /\ ret \in 0..Len(nodes) /\ DepthCounts
        /\ step \in {"idle", "enter", "prefix", "loop", "return"}
    BY DEF ParserInv, ControlOK, Forest, StackGood, StepOK
  <2>3. depth \in 0..MaxDepth
    BY <2>2, LenProperties, ConstantsOK DEF DepthCounts
  <2> QED BY <2>1, <2>2, <2>3 DEF TypeOK
<1> QED BY <1>1, ParserAlways, PTL

(* No node is ever in two child lists, or twice in one, and none that an   *)
(* activation still has to place is in any (src/src/ast.c:27: siblings are *)
(* threaded through the nodes).                                            *)
THEOREM OneParentAlways == Spec => []OneParent
<1>1. ParserInv => OneParent
  <2> SUFFICES ASSUME ParserInv PROVE OneParent
    OBVIOUS
  <2> DEFINE places == {p \in (1..Len(nodes)) \X (1..Len(nodes)) : p[2] <= KidCount(p[1])}
             held   == {stack[i].lhs : i \in {k \in 1..Len(stack) : stack[k].wait # "argument"}}
                         \cup {stack[i].node : i \in {k \in 1..Len(stack) :
                                 stack[k].wait \in {"group", "prefix", "argument"}}}
                         \cup (IF step = "return" THEN {ret} ELSE {})
  <2>1. Forest(nodes) /\ StackGood(stack, nodes, Len(toks)) /\ StepOK /\ Len(nodes) \in Nat
    BY NodesLen DEF ParserInv, ControlOK
  <2>2. ASSUME NEW p \in places PROVE Child(nodes, p[1], p[2], Kid(p[1], p[2]))
    <3>1. p[1] \in 1..Len(nodes) /\ p[2] \in 1..Len(nodes) /\ p[2] <= KidCount(p[1])
      OBVIOUS
    <3>2. KidsIn(nodes[p[1]].kids, Len(nodes))
      BY <2>1, <3>1, ChildrenIn
    <3>3. KidCount(p[1]) \in Nat /\ KidCount(p[1]) = Len(nodes[p[1]].kids)
      BY <3>2, LenProperties DEF KidsIn, KidCount
    <3>4. p[2] \in 1..Len(nodes[p[1]].kids)
      BY <2>1, <3>1, <3>3
    <3> QED BY <3>1, <3>4 DEF Child, Kid
  <2>3. ASSUME NEW p \in places, NEW q \in places, Kid(p[1], p[2]) = Kid(q[1], q[2])
        PROVE  p = q
    <3>1. Child(nodes, p[1], p[2], Kid(p[1], p[2])) /\ Child(nodes, q[1], q[2], Kid(p[1], p[2]))
      BY <2>2, <2>3
    <3>2. p[1] = q[1] /\ p[2] = q[2]
      BY <2>1, <3>1 DEF Forest
    <3>3. p = <<p[1], p[2]>> /\ q = <<q[1], q[2]>>
      OBVIOUS
    <3> QED BY <3>2, <3>3
  <2>4. ASSUME NEW x \in held PROVE x = 0 \/ Orphan(nodes, x)
    <3>1. ASSUME NEW i \in 1..Len(stack), x = Held(stack[i]) PROVE x = 0 \/ Orphan(nodes, x)
      BY <2>1, <3>1 DEF StackGood
    <3>2. \A i \in 1..Len(stack) : FrameOK(stack[i], Len(nodes), Len(toks))
      BY <2>1 DEF StackGood
    <3>3. \/ \E i \in 1..Len(stack) : stack[i].wait # "argument" /\ x = stack[i].lhs
          \/ \E i \in 1..Len(stack) :
               stack[i].wait \in {"group", "prefix", "argument"} /\ x = stack[i].node
          \/ step = "return" /\ x = ret
      OBVIOUS
    <3> HIDE DEF held, places
    <3>4. ASSUME NEW i \in 1..Len(stack), stack[i].wait # "argument", x = stack[i].lhs
          PROVE  x = 0 \/ x = Held(stack[i])
      <4>1. stack[i].wait \in {"group", "prefix"} => stack[i].lhs = 0
        BY <3>2 DEF FrameOK
      <4> QED BY <3>4, <4>1 DEF Held
    <3>5. ASSUME NEW i \in 1..Len(stack), stack[i].wait \in {"group", "prefix", "argument"},
                 x = stack[i].node
          PROVE  x = Held(stack[i])
      BY <3>5 DEF Held
    <3>6. ASSUME step = "return", x = ret PROVE x = 0 \/ Orphan(nodes, x)
      BY <2>1, <3>6 DEF StepOK, Over
    <3> QED BY <3>1, <3>3, <3>4, <3>5, <3>6
  <2>5. ASSUME NEW p \in places PROVE Kid(p[1], p[2]) \notin held
    <3> DEFINE x == Kid(p[1], p[2])
    <3>1. Child(nodes, p[1], p[2], x)
      BY <2>2
    <3> HIDE DEF x, held, places
    <3>2. x \in 1..Len(nodes) /\ ~Orphan(nodes, x)
      BY <2>1, <3>1 DEF Forest, Orphan
    <3>3. x # 0
      BY <2>1, <3>2
    <3>4. x \notin held
      BY <2>4, <3>2, <3>3
    <3> QED BY <3>4 DEF x
  <2> HIDE DEF places, held
  <2>6. /\ \A p, q \in places : Kid(p[1], p[2]) = Kid(q[1], q[2]) => p = q
        /\ \A p \in places : Kid(p[1], p[2]) \notin held
    BY <2>3, <2>5
  <2> QED BY <2>6, Zenon DEF OneParent, places, held
<1> QED BY <1>1, ParserAlways, PTL

(* Error recovery stops at the first target that no bracket opened on the  *)
(* way still encloses, or at the end of the tokens: for every token list,  *)
(* every set of targets and every place to start from                      *)
(* (src/src/parser.c:216 kavak_parser_recover_to).                         *)
THEOREM RecoveryOutside == Spec => []RecoveryStopsOutside
<1>1. ParserInv => RecoveryStopsOutside
  <2> SUFFICES ASSUME ParserInv PROVE RecoveryStopsOutside
    OBVIOUS
  <2>1. TokensOK
    BY DEF ParserInv, InputOK
  <2> QED BY <2>1, RecoverToOutside, Zenon DEF RecoveryStopsOutside, Outside
<1> QED BY <1>1, ParserAlways, PTL
-----------------------------------------------------------------------------
(* Spans.                                                                  *)

\* A span lies on the tokens from b to e - 1.
Fits(s, b, e)  == b - 1 <= s.start /\ SpanEnd(s) <= e - 1
\* A span that is not empty lies within another.
Inside(s, t) == s.len > 0 => t.start <= s.start /\ SpanEnd(s) <= SpanEnd(t) /\ t.len > 0

LEMMA SpanFields ==
  ASSUME NEW s \in Span
  PROVE  s.start \in Nat /\ s.len \in Nat /\ SpanEnd(s) = s.start + s.len
BY DEF Span, SpanEnd

\* What fits between two tokens fits between two that are further apart.
LEMMA FitsWider ==
  ASSUME NEW s \in Span, NEW b \in Int, NEW e \in Int, NEW c \in Int, NEW d \in Int,
         Fits(s, b, e), c <= b, e <= d
  PROVE  Fits(s, c, d)
<1>1. s.start \in Nat /\ SpanEnd(s) \in Nat
  BY SpanFields
<1> QED BY <1>1 DEF Fits

LEMMA TokenSpan ==
  ASSUME TokensOK, NEW p \in 1..Len(toks)
  PROVE  /\ SpanOf(p) \in Span /\ SpanOf(p).start = p - 1
         /\ SpanOf(p).len = IF toks[p] = "eof" THEN 0 ELSE 1
         /\ SpanEnd(SpanOf(p)) = Advance(p) - 1
         /\ toks[Advance(p)] = "eof" \/ SpanOf(p).len = 1
<1>1. SpanOf(p) \in Span
  BY SpanOfOK
<1>2. SpanOf(p).start = p - 1 /\ SpanOf(p).len = IF toks[p] = "eof" THEN 0 ELSE 1
  BY DEF SpanOf
<1>3. CASE toks[p] = "eof"
  BY <1>1, <1>2, <1>3 DEF Advance, SpanEnd
<1>4. CASE toks[p] # "eof"
  <2>1. Advance(p) = p + 1 /\ SpanOf(p).len = 1
    BY <1>2, <1>4 DEF Advance
  <2> QED BY <1>1, <1>2, <2>1 DEF SpanEnd
<1> QED BY <1>3, <1>4

(* A union reaches over both spans and no further                          *)
(* (src/src/span.c kavak_span_union).                                      *)
LEMMA UnionSpans ==
  ASSUME NEW a \in Span, NEW b \in Span
  PROVE  /\ SpanUnion(a, b) \in Span
         /\ Inside(a, SpanUnion(a, b)) /\ Inside(b, SpanUnion(a, b))
         /\ \A c \in Span : Inside(c, a) => Inside(c, SpanUnion(a, b))
         /\ \A from, to \in Int :
              /\ Fits(a, from, to) /\ (b.len = 0 => a.len > 0 \/ Fits(b, from, to))
              /\ (b.len > 0 => Fits(b, from, to))
              => Fits(SpanUnion(a, b), from, to)
<1> DEFINE from == IF a.start < b.start THEN a.start ELSE b.start
           endA == a.start + a.len
           endB == b.start + b.len
           n    == (IF endA > endB THEN endA ELSE endB) - from
           u    == [start |-> from, len |-> n]
<1>1. /\ a.start \in Nat /\ a.len \in Nat
      /\ b.start \in Nat /\ b.len \in Nat
  BY DEF Span
<1>2. SpanUnion(a, b) \in Span
  BY SpanUnionOK
<1>3. SpanUnion(a, b) = IF a.len = 0 THEN b ELSE IF b.len = 0 THEN a ELSE u
  BY DEF SpanUnion
<1>4. u.start = from /\ u.len = n
  OBVIOUS
<1> PICK v : v = SpanUnion(a, b)
  OBVIOUS
<1> HIDE DEF u
<1>5. CASE a.len = 0
  <2>1. v = b
    BY <1>3, <1>5
  <2>2. \A c \in Span : ~(c.len > 0 /\ Inside(c, a))
    BY <1>5, <1>1 DEF Inside
  <2>3. Inside(a, v) /\ Inside(b, v)
    BY <1>1, <1>5, <2>1 DEF Inside, SpanEnd
  <2>4. \A c \in Span : Inside(c, a) => Inside(c, v)
    BY <2>2 DEF Inside
  <2>5. b.len = 0 \/ b.len > 0
    BY <1>1
  <2>6. ~(a.len > 0)
    BY <1>5
  <2> QED BY <1>2, <2>1, <2>3, <2>4, <2>5, <2>6
<1>6. CASE a.len # 0 /\ b.len = 0
  <2>1. v = a
    BY <1>3, <1>6
  <2>2. Inside(a, v) /\ Inside(b, v)
    BY <1>1, <1>6, <2>1 DEF Inside, SpanEnd
  <2> QED BY <1>2, <2>1, <2>2
<1>7. CASE a.len # 0 /\ b.len # 0
  <2>1. v.start = from /\ v.len = n
    BY <1>3, <1>4, <1>7
  <2>2. /\ v.start \in Nat /\ v.len \in Nat /\ v.len > 0
        /\ v.start <= a.start /\ v.start <= b.start
        /\ a.start + a.len <= v.start + v.len /\ b.start + b.len <= v.start + v.len
        /\ v.start = a.start \/ v.start = b.start
        /\ v.start + v.len = a.start + a.len \/ v.start + v.len = b.start + b.len
    BY <1>1, <1>7, <2>1
  <2>3. Inside(a, v) /\ Inside(b, v)
    BY <2>2 DEF Inside, SpanEnd
  <2>4. ASSUME NEW c \in Span, Inside(c, a) PROVE Inside(c, v)
    <3>1. c.start \in Nat /\ c.len \in Nat
      BY DEF Span
    <3> QED BY <1>1, <2>2, <2>4, <3>1 DEF Inside, SpanEnd
  <2>5. ASSUME NEW lo \in Int, NEW hi \in Int, Fits(a, lo, hi), b.len > 0 => Fits(b, lo, hi)
        PROVE  Fits(v, lo, hi)
    BY <1>1, <1>7, <2>2, <2>5 DEF Fits, SpanEnd
  <2> QED BY <1>2, <1>7, <2>3, <2>4, <2>5
<1> QED BY <1>1, <1>5, <1>6, <1>7

(* A finished node lies over all it had, all its children and the token    *)
(* last consumed (src/src/parser.c:274 kavak_parser_finish_node).          *)
LEMMA FinishedSpan ==
  ASSUME nodes \in Seq(Node), NEW node \in Node, NEW p \in Nat \ {0},
         KidsIn(node.kids, Len(nodes)), node.span.len > 0
  PROVE  LET s == Finished(node, p).span
         IN  /\ s \in Span /\ Inside(node.span, s)
             /\ p > 1 /\ SpanOf(p - 1).start >= node.span.start => Inside(SpanOf(p - 1), s)
             /\ \A i \in 1..Len(node.kids) : Inside(nodes[node.kids[i]].span, s)
             /\ \A from, to \in Int :
                  /\ Fits(node.span, from, to)
                  /\ p > 1 /\ SpanOf(p - 1).start >= node.span.start =>
                       Fits(SpanOf(p - 1), from, to)
                  /\ \A i \in 1..Len(node.kids) : Fits(nodes[node.kids[i]].span, from, to)
                  => Fits(s, from, to)
<1> DEFINE n == Len(node.kids)
           own == OwnSpan(node, p)
           last == p > 1 /\ SpanOf(p - 1).start >= node.span.start
<1>1. PICK f \in [0..n -> Span] :
        /\ f[0] = own
        /\ \A i \in 1..n : f[i] = SpanUnion(f[i - 1], SpanIn(node.kids[i]))
        /\ Finished(node, p) = [node EXCEPT !.span = f[n]]
  BY FinishedUnions
<1>2. n \in Nat /\ Len(nodes) \in Nat /\ node.span \in Span
  BY LenProperties DEF Node
<1>3. ASSUME NEW i \in 1..n
      PROVE  /\ SpanIn(node.kids[i]) = nodes[node.kids[i]].span
             /\ nodes[node.kids[i]].span \in Span
  <2>1. node.kids[i] \in 1..Len(nodes)
    BY <1>3 DEF KidsIn
  <2>2. node.kids[i] # 0 /\ node.kids[i] \in 0..Len(nodes)
    BY <1>2, <2>1
  <2> QED BY <2>2, SpanInOK DEF SpanIn
<1>4. own \in Span /\ own.len > 0 /\ Inside(node.span, own)
      /\ (last => Inside(SpanOf(p - 1), own))
      /\ \A from, to \in Int :
           Fits(node.span, from, to) /\ (last => Fits(SpanOf(p - 1), from, to)) =>
             Fits(own, from, to)
  <2>1. CASE last
    <3>1. p - 1 \in Nat \ {0}
      BY <2>1
    <3>2. SpanOf(p - 1) \in Span /\ own = SpanUnion(node.span, SpanOf(p - 1))
      BY <2>1, <3>1, SpanOfOK DEF OwnSpan
    <3>3. /\ own \in Span /\ Inside(node.span, own) /\ Inside(SpanOf(p - 1), own)
          /\ \A from, to \in Int :
               Fits(node.span, from, to) /\ Fits(SpanOf(p - 1), from, to) => Fits(own, from, to)
      BY <1>2, <3>2, UnionSpans
    <3> QED BY <2>1, <3>3 DEF Inside
  <2>2. CASE ~last
    <3>1. own = node.span
      BY <2>2 DEF OwnSpan
    <3>2. Inside(node.span, node.span)
      BY <1>2, SpanFields DEF Inside
    <3> QED BY <1>2, <2>2, <3>1, <3>2
  <2> QED BY <2>1, <2>2
<1> HIDE DEF own, last
<1> DEFINE Good(i) ==
      /\ f[i].len > 0 /\ Inside(own, f[i]) /\ Inside(node.span, f[i])
      /\ last => Inside(SpanOf(p - 1), f[i])
      /\ \A k \in 1..i : Inside(nodes[node.kids[k]].span, f[i])
      /\ \A from, to \in Int :
           Fits(own, from, to) /\ (\A k \in 1..i : Fits(nodes[node.kids[k]].span, from, to)) =>
             Fits(f[i], from, to)
      S == {i \in 0..n : Good(i)}
<1>5. 0 \in S
  <2>1. Good(0)
    <3>1. Inside(own, own)
      BY <1>4, SpanFields DEF Inside
    <3>2. f[0] = own /\ 1..0 = {}
      BY <1>1
    <3> QED BY <1>4, <3>1, <3>2
  <2> HIDE DEF Good
  <2> QED BY <1>2, <2>1
<1>6. ASSUME NEW i \in 0..n - 1, i \in S PROVE i + 1 \in S
  <2> PICK kid : kid = nodes[node.kids[i + 1]].span
    OBVIOUS
  <2>1. i + 1 \in 1..n /\ i + 1 - 1 = i /\ f[i] \in Span /\ i + 1 \in 0..n
    BY <1>2
  <2>2. f[i + 1] = SpanUnion(f[i], kid) /\ kid \in Span
    BY <1>1, <1>3, <2>1
  <2>3. Good(i)
    BY <1>6
  <2>4. /\ Inside(f[i], f[i + 1]) /\ Inside(kid, f[i + 1])
        /\ \A c \in Span : Inside(c, f[i]) => Inside(c, f[i + 1])
        /\ \A from, to \in Int :
             Fits(f[i], from, to) /\ Fits(kid, from, to) => Fits(f[i + 1], from, to)
    <3>1. f[i].len > 0
      BY <2>3
    <3> QED BY <2>1, <2>2, <3>1, UnionSpans
  <2>5. f[i + 1].len > 0
    BY <2>3, <2>4 DEF Inside
  <2>6. ASSUME NEW k \in 1..i + 1 PROVE Inside(nodes[node.kids[k]].span, f[i + 1])
    <3>1. CASE k = i + 1
      BY <2>4, <3>1
    <3>2. CASE k # i + 1
      <4>1. k \in 1..i /\ k \in 1..n
        BY <1>2, <3>2
      <4> QED BY <1>3, <2>3, <2>4, <4>1
    <3> QED BY <3>1, <3>2
  <2>7. last => SpanOf(p - 1) \in Span
    BY SpanOfOK DEF last
  <2>8. ASSUME NEW from \in Int, NEW to \in Int, Fits(own, from, to),
               \A k \in 1..i + 1 : Fits(nodes[node.kids[k]].span, from, to)
        PROVE  Fits(f[i + 1], from, to)
    <3>1. \A k \in 1..i : k \in 1..i + 1
      BY <1>2
    <3>2. i + 1 \in 1..i + 1
      BY <1>2
    <3>3. Fits(f[i], from, to) /\ Fits(kid, from, to)
      BY <2>3, <2>8, <3>1, <3>2
    <3> QED BY <2>4, <3>3
  <2>9. Good(i + 1)
    BY <1>2, <1>4, <2>3, <2>4, <2>5, <2>6, <2>7, <2>8
  <2> HIDE DEF Good
  <2> QED BY <2>1, <2>9
<1>7. Good(n)
  <2>1. 0..n \subseteq S
    <3> HIDE DEF S
    <3> QED BY <1>2, <1>5, <1>6, BoundedInduction
  <2> QED BY <1>2, <2>1
<1>8. Finished(node, p).span = f[n] /\ f[n] \in Span
  <2>1. n \in 0..n
    BY <1>2
  <2> PICK fin : fin = f[n]
    OBVIOUS
  <2>2. Finished(node, p) = [node EXCEPT !.span = fin]
    BY <1>1
  <2> QED BY <1>1, <2>1, <2>2 DEF Node
<1> HIDE DEF n
<1> QED BY <1>4, <1>7, <1>8 DEF last, n
-----------------------------------------------------------------------------
(* Where the nodes of a statement lie.                                     *)

\* What a finished node's span reaches over, and no further.
Covers(node, s, p) ==
  /\ s \in Span /\ Inside(node.span, s)
  /\ p > 1 /\ SpanOf(p - 1).start >= node.span.start => Inside(SpanOf(p - 1), s)
  /\ \A i \in 1..Len(node.kids) : Inside(nodes[node.kids[i]].span, s)
  /\ \A from, to \in Int :
       /\ Fits(node.span, from, to)
       /\ p > 1 /\ SpanOf(p - 1).start >= node.span.start => Fits(SpanOf(p - 1), from, to)
       /\ \A i \in 1..Len(node.kids) : Fits(nodes[node.kids[i]].span, from, to)
       => Fits(s, from, to)

LEMMA FinishedCovers ==
  ASSUME nodes \in Seq(Node), NEW node \in Node, NEW p \in Nat \ {0},
         KidsIn(node.kids, Len(nodes)), node.span.len > 0
  PROVE  Covers(node, Finished(node, p).span, p)
BY FinishedSpan DEF Covers

\* Where activation k began: after the token at which the one below it waits.
Begin(stk, from, k) ==
  IF k = 1 THEN from
  ELSE IF stk[k - 1].wait = "argument" THEN stk[k - 1].mark ELSE stk[k - 1].op + 1

\* Children one after the other.
Apart(ns, kids) ==
  \A i \in 1..Len(kids) : \A j \in 1..i - 1 :
    SpanEnd(ns[kids[j]].span) <= ns[kids[i]].span.start
Nests(ns, n) ==
  /\ \A i \in 1..Len(ns[n].kids) : Inside(ns[ns[n].kids[i]].span, ns[n].span)
  /\ Apart(ns, ns[n].kids)

\* What an activation that began at b has put below the node it makes, and,
\* if nothing was reported (tight), that no token is left out.
FrameSpans(f, ns, b, tight) ==
  /\ f.wait # "none" => b <= f.op
  /\ f.wait \in {"group", "prefix"} =>
       /\ f.op = b /\ (tight => f.node # 0)
       /\ f.node # 0 => ns[f.node].span = [start |-> f.op - 1, len |-> 1]
  /\ f.wait = "group" /\ f.node # 0 => ns[f.node].kids = <<>>
  /\ f.wait = "infix" =>
       /\ Fits(ns[f.lhs].span, b, f.op) /\ ns[f.lhs].span.len > 0
       /\ tight => Fills(ns[f.lhs].span, b, f.op)
  /\ f.wait = "argument" =>
       /\ f.op < f.mark /\ ns[f.node].span = [start |-> f.op - 1, len |-> 1]
       /\ \A i \in 1..Len(ns[f.node].kids) : Fits(ns[ns[f.node].kids[i]].span, b, f.mark)
       /\ Apart(ns, ns[f.node].kids)
       /\ ns[f.node].kids # <<>>
       /\ tight => Fills(ns[ns[f.node].kids[1]].span, b, f.op)
FramesSpan(stk, ns, from, tight) ==
  \A k \in 1..Len(stk) : FrameSpans(stk[k], ns, Begin(stk, from, k), tight)

\* What an activation that began at b has made when the cursor is at p.
Produced(ns, id, b, p, end, tight) ==
  /\ b <= p
  /\ id # 0 => Fits(ns[id].span, b, p) /\ (ns[id].span.len > 0 \/ end)
  /\ tight => id # 0 /\ Fills(ns[id].span, b, p)

\* Every node lies over its children, but for calls that are not closed yet.
Open(stk, n) == \E k \in 1..Len(stk) : stk[k].wait = "argument" /\ stk[k].node = n
AllNest(ns, stk) == \A n \in 1..Len(ns) : Nests(ns, n) \/ Open(stk, n)

Tight   == ~mayFail /\ Len(diags) = start.diags
From(k) == Begin(stack, start.pos, k)
AtEof   == toks[pos] = "eof"

SpansInv ==
  /\ AllNest(nodes, stack)
  /\ FramesSpan(stack, nodes, start.pos, Tight)
  /\ step = "idle"   => stack = <<>>
  /\ step = "enter"  => From(Len(stack) + 1) = pos
  /\ step = "prefix" => From(Len(stack)) = pos
  /\ step = "loop"   => Produced(nodes, Top.lhs, From(Len(stack)), pos, AtEof, Tight)
  /\ step = "return" => Produced(nodes, ret, From(Len(stack) + 1), pos, AtEof, Tight)

\* The arena ns became next: nodes were added and at most m, which hangs
\* nowhere, was rewritten.
Changed(ns, next, m) ==
  /\ ns \in Seq(Node) /\ next \in Seq(Node) /\ Len(ns) <= Len(next)
  /\ \A n \in 1..Len(ns) : n # m => next[n] = ns[n]
  /\ Orphan(ns, m)

LEMMA KidsKept ==
  ASSUME NEW ns, NEW next, NEW m, Forest(ns), Changed(ns, next, m), NEW n \in 1..Len(ns), n # m
  PROVE  /\ next[n] = ns[n] /\ Len(ns[n].kids) \in Nat
         /\ \A i \in 1..Len(ns[n].kids) : /\ ns[n].kids[i] \in 1..Len(ns)
                                          /\ next[ns[n].kids[i]] = ns[ns[n].kids[i]]
<1>1. ns[n] \in Node /\ KidsIn(ns[n].kids, Len(ns))
  BY ChildrenIn
<1>2. Len(ns[n].kids) \in Nat /\ next[n] = ns[n]
  BY <1>1, LenProperties DEF Node, Changed
<1>3. ASSUME NEW i \in 1..Len(ns[n].kids)
      PROVE  ns[n].kids[i] \in 1..Len(ns) /\ next[ns[n].kids[i]] = ns[ns[n].kids[i]]
  <2>1. ns[n].kids[i] \in 1..Len(ns)
    BY <1>1 DEF KidsIn
  <2>2. Child(ns, n, i, ns[n].kids[i])
    BY <1>3 DEF Child
  <2>3. ns[n].kids[i] # m
    BY <2>2 DEF Changed, Orphan
  <2> QED BY <2>1, <2>3 DEF Changed
<1> QED BY <1>2, <1>3

LEMMA NestsKept ==
  ASSUME NEW ns, NEW next, NEW m, Forest(ns), Changed(ns, next, m), NEW n \in 1..Len(ns), n # m,
         Nests(ns, n)
  PROVE  Nests(next, n)
<1>1. /\ next[n] = ns[n] /\ Len(ns[n].kids) \in Nat
      /\ \A i \in 1..Len(ns[n].kids) : next[ns[n].kids[i]] = ns[ns[n].kids[i]]
  BY KidsKept
<1>2. \A i \in 1..Len(ns[n].kids) : \A j \in 1..i - 1 : j \in 1..Len(ns[n].kids)
  BY <1>1
<1> QED BY <1>1, <1>2 DEF Nests, Apart

LEMMA FrameKept ==
  ASSUME NEW ns, NEW next, NEW m, Forest(ns), Changed(ns, next, m), NEW t, NEW f,
         FrameOK(f, Len(ns), t), Held(f) # 0 => Held(f) # m,
         NEW b, NEW tight, NEW still, still => tight, FrameSpans(f, ns, b, tight)
  PROVE  FrameSpans(f, next, b, still)
<1>1. Len(ns) \in Nat
  BY LenProperties DEF Forest
<1>2. ASSUME f.wait \in {"group", "prefix", "argument"}, f.node # 0
      PROVE  f.node \in 1..Len(ns) /\ f.node # m
  <2>1. Held(f) = f.node
    BY <1>2 DEF Held
  <2> QED BY <1>1, <1>2, <2>1 DEF FrameOK
<1>3. CASE f.wait = "argument"
  <2>1. f.node # 0
    BY <1>3 DEF FrameOK
  <2>2. f.node \in 1..Len(ns) /\ f.node # m
    BY <1>2, <1>3, <2>1
  <2> PICK kids : kids = ns[f.node].kids
    OBVIOUS
  <2>3. /\ next[f.node] = ns[f.node] /\ Len(kids) \in Nat
        /\ \A i \in 1..Len(kids) : next[kids[i]] = ns[kids[i]]
    BY <2>2, KidsKept
  <2>4. \A i \in 1..Len(kids) : \A j \in 1..i - 1 : j \in 1..Len(kids)
    BY <2>3
  <2>5. kids # <<>> => 1 \in 1..Len(kids)
    <3>1. kids \in Seq(Nat)
      BY <2>2, ChildrenIn DEF KidsIn
    <3> QED BY <3>1, EmptySeq, LenProperties
  <2>6. Apart(ns, kids) => Apart(next, kids)
    BY <2>3, <2>4 DEF Apart
  <2> QED BY <1>3, <2>3, <2>5, <2>6 DEF FrameSpans
<1>4. CASE f.wait = "infix"
  <2>1. f.lhs \in 1..Len(ns) /\ f.lhs # m
    BY <1>1, <1>4 DEF FrameOK, Held
  <2>2. next[f.lhs] = ns[f.lhs]
    BY <2>1 DEF Changed
  <2> QED BY <1>4, <2>2 DEF FrameSpans
<1>5. CASE f.wait \in {"group", "prefix"}
  <2>1. f.node # 0 => next[f.node] = ns[f.node]
    BY <1>2, <1>5 DEF Changed
  <2> QED BY <1>5, <2>1 DEF FrameSpans
<1>6. CASE f.wait \notin {"group", "prefix", "infix", "argument"}
  BY <1>6 DEF FrameSpans
<1> QED BY <1>3, <1>4, <1>5, <1>6

\* The activations below the top one, and where the top one began.
LEMMA RestFrames ==
  ASSUME ControlOK, FramesSpan(stack, nodes, start.pos, Tight), stack # <<>>,
         NEW next, NEW m, Changed(nodes, next, m), m # 0 => m = Held(Top),
         NEW still, still => Tight
  PROVE  /\ FramesSpan(Rest, next, start.pos, still)
         /\ Begin(Rest, start.pos, Len(Rest) + 1) = From(Len(stack))
         /\ FrameSpans(Top, nodes, From(Len(stack)), Tight)
<1>1. /\ StackGood(Rest, nodes, Len(toks))
      /\ Len(Rest) = Len(stack) - 1 /\ Len(stack) \in Nat \ {0}
      /\ Over(Rest, nodes, Held(Top)) /\ FrameOK(Top, Len(nodes), Len(toks))
  BY TopGood
<1>2. Forest(nodes) /\ Len(nodes) \in Nat /\ stack \in Seq(Frame)
  BY NodesLen DEF ControlOK, StackGood
<1> PICK n : n = Len(stack)
  OBVIOUS
<1>3. \A i \in 1..n - 1 : Rest[i] = stack[i]
  BY <1>1, <1>2 DEF Rest
<1>4. \A k \in 1..n : Begin(Rest, start.pos, k) = From(k)
  <2> TAKE k \in 1..n
  <2>1. k # 1 => k - 1 \in 1..n - 1
    BY <1>1
  <2> QED BY <1>3, <2>1 DEF Begin, From
<1>5. ASSUME NEW k \in 1..n - 1 PROVE FrameSpans(Rest[k], next, From(k), still)
  <2>1. FrameSpans(stack[k], nodes, From(k), Tight) /\ stack[k] = Rest[k]
    <3>1. k \in 1..Len(stack)
      BY <1>1
    <3> QED BY <1>3, <3>1 DEF FramesSpan, From
  <2>2. FrameOK(Rest[k], Len(nodes), Len(toks))
    BY <1>1 DEF StackGood
  <2>3. Held(Rest[k]) # 0 => Held(Rest[k]) # m
    <3>1. Held(Rest[k]) \in 0..Len(nodes) /\ Held(Top) \in 0..Len(nodes)
      BY <1>1, <1>2, <2>2, HeldIn
    <3>2. Held(Top) # 0 => Held(Rest[k]) < Held(Top)
      BY <1>1 DEF Over
    <3> QED BY <3>1, <3>2
  <2> HIDE DEF FrameSpans
  <2> QED BY <1>2, <2>1, <2>2, <2>3, FrameKept
<1>6. FramesSpan(Rest, next, start.pos, still)
  <2>1. \A k \in 1..n - 1 : k \in 1..n
    BY <1>1
  <2> QED BY <1>1, <1>4, <1>5, <2>1 DEF FramesSpan
<1>7. n \in 1..n
  BY <1>1
<1>8. FrameSpans(Top, nodes, From(n), Tight)
  BY <1>7 DEF FramesSpan, From, Top
<1> QED BY <1>1, <1>4, <1>6, <1>7, <1>8

LEMMA PushFrames ==
  ASSUME NEW rest \in Seq(Frame), NEW f \in Frame, NEW ns, NEW from, NEW tight,
         FramesSpan(rest, ns, from, tight),
         FrameSpans(f, ns, Begin(rest, from, Len(rest) + 1), tight)
  PROVE  LET stk == Append(rest, f)
         IN  /\ FramesSpan(stk, ns, from, tight)
             /\ Len(stk) = Len(rest) + 1
             /\ Begin(stk, from, Len(stk)) = Begin(rest, from, Len(rest) + 1)
             /\ Begin(stk, from, Len(stk) + 1) =
                  IF f.wait = "argument" THEN f.mark ELSE f.op + 1
<1> PICK stk : stk = Append(rest, f)
  OBVIOUS
<1> PICK n : n = Len(rest)
  OBVIOUS
<1>1. /\ n \in Nat /\ Len(stk) = n + 1 /\ stk[n + 1] = f
      /\ \A i \in 1..n : stk[i] = rest[i]
  BY AppendProperties, LenProperties
<1>2. \A k \in 1..n + 1 : Begin(stk, from, k) = Begin(rest, from, k)
  <2> TAKE k \in 1..n + 1
  <2>1. k # 1 => k - 1 \in 1..n
    BY <1>1
  <2> QED BY <1>1, <2>1 DEF Begin
<1>3. n + 1 \in 1..n + 1 /\ \A k \in 1..n + 1 : k # n + 1 => k \in 1..n
  BY <1>1
<1>4. FramesSpan(stk, ns, from, tight)
  BY <1>1, <1>2, <1>3 DEF FramesSpan
<1>5. Begin(stk, from, n + 2) = IF f.wait = "argument" THEN f.mark ELSE f.op + 1
  <2>1. n + 2 # 1 /\ n + 2 - 1 = n + 1
    BY <1>1
  <2> QED BY <1>1, <2>1 DEF Begin
<1>6. Len(stk) + 1 = n + 2
  BY <1>1
<1> QED BY <1>1, <1>2, <1>3, <1>4, <1>5, <1>6
-----------------------------------------------------------------------------
(* What ends a step.                                                       *)

\* The nodes change around what the top activation holds, and a report that
\* was made stays made.
Moving(m) ==
  /\ stack # <<>> /\ Changed(nodes, nodes', m)
  /\ m # 0 => m = Held(Top)
  /\ Top.wait = "argument" => m = Top.node
  /\ start' = start /\ (Tight' => Tight)
Fresh(n, m) == n = m \/ n > Len(nodes)

LEMMA AllNestKept ==
  ASSUME ControlOK, AllNest(nodes, stack), NEW m, Moving(m), NEW stk,
         Rest = stk \/ \E f : stk = Append(Rest, f),
         \A n \in 1..Len(nodes') : Fresh(n, m) => Nests(nodes', n) \/ Open(stk, n)
  PROVE  AllNest(nodes', stk)
<1>1. Forest(nodes) /\ Len(nodes) \in Nat /\ Len(nodes') \in Nat
  BY NodesLen, LenProperties DEF ControlOK, Moving, Changed
<1>2. Rest \in Seq(Frame) /\ Len(stack) \in Nat \ {0} /\ Len(Rest) = Len(stack) - 1
  BY TopGood, Zenon DEF Moving, StackGood
<1>3. ASSUME NEW k \in 1..Len(stack) - 1 PROVE k \in 1..Len(stk) /\ stk[k] = stack[k]
  <2>1. stack \in Seq(Frame)
    BY DEF ControlOK, StackGood
  <2>2. k \in 1..Len(Rest) /\ Rest[k] = stack[k]
    BY <1>2, <2>1 DEF Rest
  <2>3. CASE Rest = stk
    BY <2>2, <2>3
  <2>4. CASE \E f : stk = Append(Rest, f)
    <3>1. PICK f : stk = Append(Rest, f)
      BY <2>4
    <3>2. Len(stk) = Len(Rest) + 1 /\ stk[k] = Rest[k]
      BY <1>2, <2>2, <3>1
    <3> QED BY <1>2, <2>2, <3>2
  <2> QED BY <2>3, <2>4
<1> SUFFICES ASSUME NEW n \in 1..Len(nodes') PROVE Nests(nodes', n) \/ Open(stk, n)
  BY DEF AllNest
<1>4. CASE Fresh(n, m)
  BY <1>4
<1>5. CASE ~Fresh(n, m)
  <2>1. n \in 1..Len(nodes) /\ n # m
    BY <1>1, <1>5 DEF Fresh
  <2>2. CASE Nests(nodes, n)
    BY <1>1, <2>1, <2>2, NestsKept DEF Moving
  <2>3. CASE Open(stack, n)
    <3>1. PICK k \in 1..Len(stack) : stack[k].wait = "argument" /\ stack[k].node = n
      BY <2>3 DEF Open
    <3>2. k # Len(stack)
      BY <2>1, <3>1 DEF Moving, Top
    <3>3. k \in 1..Len(stack) - 1
      BY <1>2, <3>2
    <3> QED BY <1>3, <3>1, <3>3 DEF Open
  <2> QED BY <2>1, <2>2, <2>3 DEF AllNest
<1> QED BY <1>4, <1>5

LEMMA LeaveSpans ==
  ASSUME ControlOK, SpansInv, NEW m, Moving(m), NEW id, Leave(id),
         \A n \in 1..Len(nodes') : Fresh(n, m) => Nests(nodes', n),
         Produced(nodes', id, From(Len(stack)), pos', AtEof', Tight')
  PROVE  SpansInv'
<1>1. stack' = Rest /\ ret' = id /\ step' = "return" /\ start' = start
  BY DEF Leave, Moving
<1>2. AllNest(nodes', Rest)
  BY AllNestKept DEF SpansInv
<1>3. /\ FramesSpan(Rest, nodes', start.pos, Tight')
      /\ Begin(Rest, start.pos, Len(Rest) + 1) = From(Len(stack))
  BY RestFrames DEF SpansInv, Moving
<1>4. Produced(nodes', ret', (From(Len(stack) + 1))', pos', AtEof', Tight')
  BY <1>1, <1>3 DEF From
<1>5. (AllNest(nodes, stack) /\ FramesSpan(stack, nodes, start.pos, Tight))'
  BY <1>1, <1>2, <1>3
<1> QED BY <1>1, <1>4, <1>5 DEF SpansInv

\* The frame that stays on top waits for nothing any more.
LEMMA ContinueSpans ==
  ASSUME ControlOK, SpansInv, NEW m, Moving(m), NEW id \in Nat, Continue(id),
         \A n \in 1..Len(nodes') : Fresh(n, m) => Nests(nodes', n),
         Produced(nodes', id, From(Len(stack)), pos', AtEof', Tight')
  PROVE  SpansInv'
<1> PICK f : f = [Top EXCEPT !.lhs = id, !.wait = "none"]
  OBVIOUS
<1>1. Top \in Frame /\ StackGood(Rest, nodes, Len(toks))
  BY TopGood DEF Moving
<1>2. f \in Frame /\ f.lhs = id /\ f.wait = "none"
  BY <1>1 DEF Frame, Waits
<1>3. stack' = Append(Rest, f) /\ step' = "loop" /\ start' = start
  BY DEF Continue, Moving
<1>4. AllNest(nodes', Append(Rest, f))
  BY AllNestKept DEF SpansInv
<1>5. /\ FramesSpan(Rest, nodes', start.pos, Tight')
      /\ Begin(Rest, start.pos, Len(Rest) + 1) = From(Len(stack))
  BY RestFrames DEF SpansInv, Moving
<1>6. FrameSpans(f, nodes', From(Len(stack)), Tight')
  BY <1>2 DEF FrameSpans
<1>7. Rest \in Seq(Frame)
  BY <1>1 DEF StackGood
<1>8. /\ FramesSpan(Append(Rest, f), nodes', start.pos, Tight')
      /\ Len(Append(Rest, f)) = Len(Rest) + 1
      /\ Begin(Append(Rest, f), start.pos, Len(Append(Rest, f))) = From(Len(stack))
  BY <1>2, <1>5, <1>6, <1>7, PushFrames
<1>9. Top' = f
  BY <1>2, <1>3, <1>7, AppendProperties DEF Top
<1>10. Produced(nodes', Top'.lhs, (From(Len(stack)))', pos', AtEof', Tight')
  BY <1>2, <1>3, <1>8, <1>9 DEF From
<1>11. (AllNest(nodes, stack) /\ FramesSpan(stack, nodes, start.pos, Tight))'
  BY <1>3, <1>4, <1>8
<1> QED BY <1>3, <1>10, <1>11 DEF SpansInv

LEMMA HavePrefixSpans ==
  ASSUME ControlOK, SpansInv, NEW m, Moving(m), NEW id \in Nat, HavePrefix(id),
         \A n \in 1..Len(nodes') : Fresh(n, m) => Nests(nodes', n),
         Produced(nodes', id, From(Len(stack)), pos', AtEof', Tight')
  PROVE  SpansInv'
<1>1. Leave(id) \/ Continue(id)
  BY DEF HavePrefix
<1>2. CASE Leave(id)
  BY <1>2, LeaveSpans
<1>3. CASE Continue(id)
  BY <1>3, ContinueSpans
<1> QED BY <1>1, <1>2, <1>3

LEMMA CallSpans ==
  ASSUME ControlOK, SpansInv, NEW m, Moving(m), NEW f \in Frame, NEW min, Call(f, min),
         \A n \in 1..Len(nodes') :
           Fresh(n, m) => Nests(nodes', n) \/ (f.wait = "argument" /\ f.node = n),
         FrameSpans(f, nodes', From(Len(stack)), Tight'),
         pos' = IF f.wait = "argument" THEN f.mark ELSE f.op + 1
  PROVE  SpansInv'
<1>1. StackGood(Rest, nodes, Len(toks))
  BY TopGood DEF Moving
<1>2. Rest \in Seq(Frame)
  BY <1>1 DEF StackGood
<1>3. stack' = Append(Rest, f) /\ step' = "enter" /\ start' = start
  BY DEF Call, Moving
<1>4. /\ FramesSpan(Rest, nodes', start.pos, Tight')
      /\ Begin(Rest, start.pos, Len(Rest) + 1) = From(Len(stack))
  BY RestFrames DEF SpansInv, Moving
<1>5. /\ FramesSpan(Append(Rest, f), nodes', start.pos, Tight')
      /\ Len(Append(Rest, f)) = Len(Rest) + 1
      /\ Begin(Append(Rest, f), start.pos, Len(Append(Rest, f)) + 1) =
           IF f.wait = "argument" THEN f.mark ELSE f.op + 1
  BY <1>2, <1>4, PushFrames
<1>6. ASSUME NEW n, f.wait = "argument", f.node = n PROVE Open(Append(Rest, f), n)
  <2>1. /\ Append(Rest, f)[Len(Rest) + 1] = f
        /\ Len(Rest) + 1 \in 1..Len(Append(Rest, f))
    BY <1>2, <1>5, LenProperties
  <2> QED BY <1>6, <2>1 DEF Open
<1>7. AllNest(nodes', Append(Rest, f))
  BY <1>6, AllNestKept DEF SpansInv
<1>8. (From(Len(stack) + 1))' = pos'
  BY <1>3, <1>5 DEF From
<1>9. (AllNest(nodes, stack) /\ FramesSpan(stack, nodes, start.pos, Tight))'
  BY <1>3, <1>5, <1>7
<1> QED BY <1>3, <1>8, <1>9 DEF SpansInv
-----------------------------------------------------------------------------
(* Every step keeps the spans.                                             *)

\* As long as nothing is reported nothing was.
LEMMA TightKept ==
  ASSUME UNCHANGED driver, diags' = diags
  PROVE  (Tight' => Tight) /\ start' = start /\ toks' = toks
BY DEF Tight, driver

LEMMA TightReported ==
  ASSUME InputOK, UNCHANGED driver, NEW msg \in Messages, NEW p \in Nat,
         diags' \in Reported(diags, msg, p)
  PROVE  ~Tight' /\ start' = start /\ toks' = toks
<1>1. start' = start /\ mayFail' = mayFail /\ toks' = toks
  BY DEF driver
<1>2. ASSUME ~mayFail PROVE Len(diags') # start.diags
  <2> PICK d : d = <<msg, p>>
    OBVIOUS
  <2>1. d \in Diag /\ diags \in Seq(Diag)
    BY DEF Diag, InputOK
  <2>2. diags' = Append(diags, d)
    BY <1>2 DEF Reported
  <2>3. Len(diags') = Len(diags) + 1 /\ Len(diags) \in Nat
    BY <2>1, <2>2, AppendProperties, LenProperties
  <2>4. start.diags <= Len(diags) /\ start.diags \in Nat
    BY DEF InputOK
  <2> QED BY <2>3, <2>4
<1> QED BY <1>1, <1>2 DEF Tight

LEMMA TightExpecting ==
  ASSUME InputOK, UNCHANGED driver, NEW symbol, symbol # "eof", NEW msg \in Messages,
         NEW after \in Expecting(symbol, msg), pos' = after.pos, diags' = after.diags
  PROVE  /\ (Tight' => Tight) /\ start' = start /\ toks' = toks
         /\ pos' \in 1..Len(toks) /\ (pos' = pos \/ pos' = pos + 1)
         /\ Tight' => toks[pos] = symbol /\ pos' = pos + 1
<1>1. pos \in 1..Len(toks) /\ TokensOK /\ pos \in Nat /\ diags \in Seq(Diag)
  BY DEF InputOK
<1>2. pos' \in 1..Len(toks)
  BY <1>1, ExpectingOK
<1>3. CASE toks[pos] = symbol
  <2>1. pos' = pos + 1 /\ diags' = diags
    BY <1>3 DEF Expecting
  <2> QED BY <1>2, <1>3, <2>1, TightKept
<1>4. CASE toks[pos] # symbol
  <2>1. pos' = pos /\ diags' \in Reported(diags, msg, pos)
    BY <1>4 DEF Expecting
  <2> QED BY <1>1, <1>2, <2>1, TightReported
<1> QED BY <1>3, <1>4

\* The arena after an allocation.
LEMMA StoredNode ==
  ASSUME ParserInv, NEW node \in Node, NEW id \in Allocated, nodes' = Store(id, node)
  PROVE  /\ Changed(nodes, nodes', 0) /\ id \in Nat /\ id \in 0..Len(nodes')
         /\ (id = 0 => mayFail) /\ (id # 0 => nodes'[id] = node)
         /\ \A n \in 1..Len(nodes) : nodes'[n] = nodes[n]
         /\ \A n \in 1..Len(nodes') : Fresh(n, 0) => n = id /\ id # 0
<1>1. nodes \in Seq(Node) /\ Len(nodes) \in Nat /\ Forest(nodes)
  BY NodesLen DEF ParserInv, ControlOK
<1>2. Orphan(nodes, 0)
  BY <1>1 DEF Orphan, Forest
<1>3. CASE id = 0
  <2>1. nodes' = nodes /\ mayFail
    BY <1>1, <1>3 DEF Store, Allocated
  <2> QED BY <1>1, <1>2, <1>3, <2>1 DEF Changed, Fresh
<1>4. CASE id # 0
  <2>1. id = Len(nodes) + 1 /\ nodes' = Append(nodes, node)
    BY <1>4 DEF Store, Allocated
  <2>2. /\ nodes' \in Seq(Node) /\ Len(nodes') = id
        /\ nodes'[id] = node /\ \A n \in 1..Len(nodes) : nodes'[n] = nodes[n]
    BY <1>1, <2>1, AppendProperties
  <2> QED BY <1>1, <1>2, <2>1, <2>2 DEF Changed, Fresh
<1> QED BY <1>3, <1>4

LEMMA MovingStore ==
  ASSUME ParserInv, stack # <<>>, Top.wait # "argument", Tight' => Tight, start' = start,
         Changed(nodes, nodes', 0)
  PROVE  Moving(0)
BY DEF Moving

\* A new node lies over its children.
LEMMA NewNests ==
  ASSUME ParserInv, NEW node, NEW id, Changed(nodes, nodes', 0), nodes'[id] = node,
         KidsIn(node.kids, Len(nodes)), Apart(nodes, node.kids),
         \A i \in 1..Len(node.kids) : Inside(nodes[node.kids[i]].span, node.span)
  PROVE  Nests(nodes', id)
<1>1. Len(node.kids) \in Nat
  BY LenProperties DEF KidsIn
<1>2. \A i \in 1..Len(node.kids) : nodes'[node.kids[i]] = nodes[node.kids[i]]
  <2> TAKE i \in 1..Len(node.kids)
  <2>1. node.kids[i] \in 1..Len(nodes)
    BY DEF KidsIn
  <2>2. node.kids[i] # 0
    BY <2>1
  <2> QED BY <2>1, <2>2 DEF Changed
<1>3. \A i \in 1..Len(node.kids) : \A j \in 1..i - 1 : j \in 1..Len(node.kids)
  BY <1>1
<1> QED BY <1>2, <1>3 DEF Nests, Apart

LEMMA LeafNests ==
  ASSUME NEW ns, NEW n, ns[n].kids = <<>>
  PROVE  Nests(ns, n)
BY DEF Nests, Apart

LEMMA OneKidApart ==
  ASSUME NEW ns, NEW kid
  PROVE  Apart(ns, <<kid>>) /\ Len(<<kid>>) = 1 /\ <<kid>>[1] = kid /\ <<kid>> # <<>>
<1>1. Len(<<kid>>) = 1 /\ <<kid>>[1] = kid /\ <<kid>> # <<>>
  OBVIOUS
<1>2. \A i \in 1..1 : 1..i - 1 = {}
  OBVIOUS
<1> QED BY <1>1, <1>2 DEF Apart

\* A node of the token before the cursor, or of the EOF it stands on.
LEMMA LeafProduced ==
  ASSUME ParserInv, ParserInv', toks' = toks, NEW id, NEW span, id # 0 => nodes'[id].span = span,
         span = SpanOf(pos), pos' = Advance(pos),
         Tight' => id # 0 /\ toks[pos] # "eof"
  PROVE  Produced(nodes', id, pos, pos', AtEof', Tight')
<1>1. TokensOK /\ pos \in 1..Len(toks) /\ pos \in Nat
  BY DEF ParserInv, InputOK
<1>2. /\ span.start = pos - 1 /\ SpanEnd(span) = pos' - 1
      /\ span.len = IF toks[pos] = "eof" THEN 0 ELSE 1
      /\ toks[pos'] = "eof" \/ span.len = 1
  BY <1>1, TokenSpan
<1>3. pos' = (IF toks[pos] = "eof" THEN pos ELSE pos + 1)
  BY DEF Advance
<1>4. pos' \in Nat /\ pos <= pos' /\ (toks[pos] # "eof" => pos < pos')
  BY <1>1, <1>3
<1>5. span.len > 0 \/ AtEof'
  BY <1>2 DEF AtEof
<1>6. Fits(span, pos, pos') /\ (toks[pos] # "eof" => Fills(span, pos, pos'))
  BY <1>1, <1>2, <1>4 DEF Fits, Fills
<1> QED BY <1>4, <1>5, <1>6 DEF Produced

LEMMA ErrorNode ==
  ASSUME ParserInv
  PROVE  LET node == Finished(MakeNode("error", pos, SpanOf(pos), <<>>), Advance(pos))
         IN  /\ node \in Node /\ node.kids = <<>>
             /\ Fits(node.span, pos, Advance(pos))
             /\ node.span.len > 0 \/ toks[Advance(pos)] = "eof"
<1> PICK m : m = MakeNode("error", pos, SpanOf(pos), <<>>)
  OBVIOUS
<1> PICK p : p = Advance(pos)
  OBVIOUS
<1>1. TokensOK /\ pos \in 1..Len(toks) /\ pos \in Nat /\ nodes \in Seq(Node)
  BY NodesLen DEF ParserInv, InputOK
<1>2. p \in Nat \ {0} /\ p = IF toks[pos] = "eof" THEN pos ELSE pos + 1
  BY <1>1 DEF Advance
<1>3. /\ SpanOf(pos) \in Span /\ SpanOf(pos).start = pos - 1
      /\ SpanOf(pos).len = IF toks[pos] = "eof" THEN 0 ELSE 1
      /\ SpanEnd(SpanOf(pos)) = p - 1
  BY <1>1, TokenSpan
<1>4. m \in Node /\ m.kids = <<>> /\ m.span = SpanOf(pos)
  BY <1>1, <1>3 DEF MakeNode, Node, Kinds
<1>5. KidsIn(m.kids, Len(nodes)) /\ Len(m.kids) = 0
  <2>1. Len(m.kids) = 0 /\ m.kids \in Seq(Nat)
    BY <1>4, EmptySeq
  <2>2. 1..0 = {}
    OBVIOUS
  <2> QED BY <2>1, <2>2 DEF KidsIn
<1>6. PICK f \in [0..0 -> Span] :
        f[0] = OwnSpan(m, p) /\ Finished(m, p) = [m EXCEPT !.span = f[0]]
  <2>0. nodes \in Seq(Node) /\ m \in Node /\ p \in Nat \ {0} /\ KidsIn(m.kids, Len(nodes))
    BY <1>1, <1>2, <1>4, <1>5
  <2>1. PICK f \in [0..Len(m.kids) -> Span] :
          /\ f[0] = OwnSpan(m, p)
          /\ \A i \in 1..Len(m.kids) : f[i] = SpanUnion(f[i - 1], SpanIn(m.kids[i]))
          /\ Finished(m, p) = [m EXCEPT !.span = f[Len(m.kids)]]
    BY <2>0, FinishedUnions, Zenon
  <2>2. Len(m.kids) = 0
    BY <1>5
  <2> QED BY <2>1, <2>2
<1> PICK own : own = f[0]
  OBVIOUS
<1>7. Finished(m, p).kids = <<>> /\ Finished(m, p).span = own /\ Finished(m, p) \in Node
  <2>1. 0 \in 0..0
    OBVIOUS
  <2>2. own \in Span
    BY <2>1, <1>6
  <2>3. Finished(m, p) = [m EXCEPT !.span = own]
    BY <1>6
  <2> QED BY <1>4, <2>2, <2>3 DEF Node
<1>8. CASE toks[pos] = "eof"
  <2>1. p = pos
    BY <1>2, <1>8
  <2>2. own = SpanOf(pos)
    <3>1. CASE p > 1
      <4>1. SpanOf(p - 1).start = p - 1 - 1
        BY DEF SpanOf
      <4>2. ~(SpanOf(p - 1).start >= m.span.start)
        BY <1>1, <1>3, <1>4, <2>1, <4>1
      <4> QED BY <1>4, <1>6, <4>2 DEF OwnSpan
    <3>2. CASE ~(p > 1)
      BY <1>4, <1>6, <3>2 DEF OwnSpan
    <3> QED BY <3>1, <3>2
  <2>3. Fits(own, pos, p)
    BY <1>1, <1>3, <2>1, <2>2 DEF Fits
  <2> QED BY <1>7, <1>8, <2>1, <2>3
<1>9. CASE toks[pos] # "eof"
  <2>1. p = pos + 1 /\ p - 1 = pos /\ SpanOf(pos).len = 1
    BY <1>1, <1>2, <1>3, <1>9
  <2>2. own = SpanUnion(SpanOf(pos), SpanOf(pos)) \/ own = SpanOf(pos)
    BY <1>4, <1>6, <2>1 DEF OwnSpan
  <2>3. Fits(SpanOf(pos), pos, p)
    BY <1>1, <1>3, <2>1 DEF Fits
  <2>4. Fits(own, pos, p) /\ own.len > 0
    <3>1. pos \in Int /\ p \in Int /\ SpanOf(pos).len > 0
      BY <1>1, <2>1
    <3>2. /\ Inside(SpanOf(pos), SpanUnion(SpanOf(pos), SpanOf(pos)))
          /\ Fits(SpanUnion(SpanOf(pos), SpanOf(pos)), pos, p)
      BY <1>3, <2>3, <3>1, UnionSpans
    <3> QED BY <2>2, <2>3, <3>1, <3>2 DEF Inside
  <2> QED BY <1>7, <2>4
<1> QED BY <1>8, <1>9

LEMMA SameNodes ==
  ASSUME ParserInv, nodes' = nodes
  PROVE  Changed(nodes, nodes', 0) /\ \A n \in 1..Len(nodes') : ~Fresh(n, 0)
<1>1. nodes \in Seq(Node) /\ Len(nodes) \in Nat /\ Forest(nodes)
  BY NodesLen DEF ParserInv, ControlOK
<1> QED BY <1>1 DEF Changed, Fresh, Orphan, Forest

\* An error node, or nothing, where an expression should begin.
LEMMA ErrorSpans ==
  ASSUME ParserInv, ParserInv', NEW id \in Allocated, NEW msg \in Messages,
         UNCHANGED driver, MakeError(id, msg)
  PROVE  /\ Changed(nodes, nodes', 0) /\ id \in Nat
         /\ (Tight' => Tight) /\ start' = start /\ toks' = toks
         /\ \A n \in 1..Len(nodes') : Fresh(n, 0) => Nests(nodes', n)
         /\ Produced(nodes', id, pos, pos', AtEof', Tight')
<1>1. InputOK /\ ControlOK /\ pos \in Nat /\ pos \in 1..Len(toks) /\ TokensOK
  BY InputFacts DEF ParserInv
<1>2. CASE id = 0
  <2>1. UNCHANGED <<pos, nodes, diags>> /\ mayFail
    BY <1>2, NodesLen, <1>1 DEF MakeError, Allocated
  <2>2. (Tight' => Tight) /\ start' = start /\ toks' = toks /\ ~Tight'
    BY <2>1, TightKept DEF Tight
  <2>3. pos <= pos'
    BY <1>1, <2>1
  <2> QED BY <1>2, <2>1, <2>2, <2>3, SameNodes DEF Produced
<1>3. CASE id # 0
  <2> PICK node : node = Finished(MakeNode("error", pos, SpanOf(pos), <<>>), Advance(pos))
    OBVIOUS
  <2>1. /\ diags' \in Reported(diags, msg, pos) /\ nodes' = Store(id, node)
        /\ pos' = Advance(pos)
    BY <1>3 DEF MakeError
  <2>2. /\ node \in Node /\ node.kids = <<>>
        /\ Fits(node.span, pos, pos') /\ (node.span.len > 0 \/ toks[pos'] = "eof")
    BY <2>1, ErrorNode
  <2>3. ~Tight' /\ start' = start /\ toks' = toks
    BY <1>1, <2>1, TightReported
  <2>4. /\ Changed(nodes, nodes', 0) /\ id \in Nat /\ nodes'[id] = node
        /\ \A n \in 1..Len(nodes') : Fresh(n, 0) => n = id
    BY <1>3, <2>1, <2>2, StoredNode
  <2>5. pos <= pos'
    BY <1>1, <2>1 DEF Advance
  <2>6. Nests(nodes', id)
    BY <2>2, <2>4, LeafNests
  <2> QED BY <2>2, <2>3, <2>4, <2>5, <2>6 DEF Produced, AtEof
<1> QED BY <1>2, <1>3

LEMMA TooDeepSpans == ASSUME ParserInv, ParserInv', SpansInv, TooDeep PROVE SpansInv'
<1>1. PICK id \in Allocated : MakeError(id, "too deep") /\ ret' = id
  BY DEF TooDeep
<1>2. UNCHANGED driver /\ stack' = stack /\ step = "enter" /\ step' = "return"
  BY DEF TooDeep
<1>3. /\ Changed(nodes, nodes', 0)
      /\ (Tight' => Tight) /\ start' = start
      /\ \A n \in 1..Len(nodes') : Fresh(n, 0) => Nests(nodes', n)
      /\ Produced(nodes', id, pos, pos', AtEof', Tight')
  BY <1>1, <1>2, ErrorSpans DEF Messages
<1>4. /\ Forest(nodes) /\ Len(nodes) \in Nat /\ Len(nodes') \in Nat
      /\ StackGood(stack, nodes, Len(toks))
  BY NodesLen DEF ParserInv, ControlOK
<1>5. AllNest(nodes', stack)
  <2> SUFFICES ASSUME NEW n \in 1..Len(nodes'), ~Fresh(n, 0)
               PROVE  Nests(nodes', n) \/ Open(stack, n)
    BY <1>3 DEF AllNest
  <2>1. n \in 1..Len(nodes) /\ n # 0
    BY <1>4 DEF Fresh
  <2>2. Nests(nodes, n) \/ Open(stack, n)
    BY <2>1 DEF SpansInv, AllNest
  <2> QED BY <1>3, <1>4, <2>1, <2>2, NestsKept
<1>6. FramesSpan(stack, nodes', start.pos, Tight')
  <2> SUFFICES ASSUME NEW k \in 1..Len(stack)
               PROVE  FrameSpans(stack[k], nodes', Begin(stack, start.pos, k), Tight')
    BY DEF FramesSpan
  <2>1. /\ FrameOK(stack[k], Len(nodes), Len(toks))
        /\ FrameSpans(stack[k], nodes, Begin(stack, start.pos, k), Tight)
    BY <1>4 DEF StackGood, SpansInv, FramesSpan
  <2> QED BY <1>3, <1>4, <2>1, FrameKept
<1>7. (From(Len(stack) + 1))' = pos
  BY <1>2, <1>3 DEF SpansInv, From
<1>8. Produced(nodes', ret', (From(Len(stack) + 1))', pos', AtEof', Tight')
  BY <1>1, <1>3, <1>7
<1>9. (AllNest(nodes, stack) /\ FramesSpan(stack, nodes, start.pos, Tight))'
  BY <1>2, <1>3, <1>5, <1>6
<1> QED BY <1>2, <1>8, <1>9 DEF SpansInv

LEMMA EnterSpans == ASSUME ParserInv, SpansInv, Enter PROVE SpansInv'
<1> DEFINE f == [min |-> minArg, lhs |-> 0, wait |-> "none", node |-> 0, op |-> 0, mark |-> 0]
<1>1. /\ stack' = Append(stack, f) /\ step' = "prefix" /\ step = "enter"
      /\ UNCHANGED <<driver, pos, nodes, diags>>
  BY DEF Enter
<1>2. f \in Frame /\ f.wait = "none" /\ stack \in Seq(Frame)
  <2>1. minArg \in Nat
    BY ConstantsOK DEF ParserInv, ControlOK
  <2> QED BY <2>1 DEF Frame, Waits, ParserInv, ControlOK, StackGood
<1> HIDE DEF f
<1>3. start' = start /\ (Tight' <=> Tight)
  BY <1>1 DEF driver, Tight
<1>4. FrameSpans(f, nodes, From(Len(stack) + 1), Tight)
  BY <1>2 DEF FrameSpans
<1>5. /\ FramesSpan(Append(stack, f), nodes, start.pos, Tight)
      /\ Len(Append(stack, f)) = Len(stack) + 1
      /\ Begin(Append(stack, f), start.pos, Len(Append(stack, f))) = From(Len(stack) + 1)
  BY <1>2, <1>4, PushFrames DEF SpansInv, From
<1>6. AllNest(nodes, Append(stack, f))
  <2>1. \A k \in 1..Len(stack) : k \in 1..Len(Append(stack, f)) /\ Append(stack, f)[k] = stack[k]
    BY <1>2
  <2> QED BY <2>1 DEF SpansInv, AllNest, Open
<1>7. (From(Len(stack)))' = pos'
  BY <1>1, <1>3, <1>5 DEF SpansInv, From
<1>8. FramesSpan(stack', nodes', start'.pos, Tight')
  BY <1>1, <1>3, <1>5 DEF FramesSpan, FrameSpans
<1>9. AllNest(nodes', stack')
  BY <1>1, <1>6
<1> QED BY <1>1, <1>7, <1>8, <1>9 DEF SpansInv

LEMMA AtomSpans == ASSUME ParserInv, ParserInv', SpansInv, Atom PROVE SpansInv'
<1> DEFINE Made(kind) == MakeNode(kind, pos, SpanOf(pos), <<>>)
<1>1. /\ step = "prefix" /\ pos' = Advance(pos) /\ UNCHANGED driver /\ diags' = diags
      /\ toks[pos] # "eof"
  BY DEF Atom, AtAtom
<1>2. PICK id \in Allocated, kind \in Kinds : nodes' = Store(id, Made(kind)) /\ HavePrefix(id)
  BY DEF Atom, Kinds
<1> PICK node : node = Made(kind)
  OBVIOUS
<1>3. /\ InputOK /\ ControlOK /\ stack # <<>> /\ Top.wait = "none"
      /\ From(Len(stack)) = pos
  BY <1>1, AtPrefix DEF ControlOK, StepOK, SpansInv
<1>4. node \in Node /\ node.kids = <<>> /\ node.span = SpanOf(pos)
  <2>1. pos \in Nat /\ SpanOf(pos) \in Span /\ <<>> \in Seq(Nat)
    BY <1>3, InputFacts
  <2> QED BY <2>1, MakeNodeOK DEF MakeNode
<1>5. /\ Changed(nodes, nodes', 0) /\ id \in Nat /\ (id = 0 => mayFail)
      /\ (id # 0 => nodes'[id] = node)
      /\ \A n \in 1..Len(nodes') : Fresh(n, 0) => n = id /\ id # 0
  BY <1>2, <1>4, StoredNode
<1>6. (Tight' => Tight) /\ start' = start /\ toks' = toks
  BY <1>1, TightKept
<1>7. Tight' => id # 0
  BY <1>5, <1>6 DEF Tight
<1>8. Produced(nodes', id, pos, pos', AtEof', Tight')
  BY <1>1, <1>4, <1>5, <1>6, <1>7, LeafProduced
<1>9. \A n \in 1..Len(nodes') : Fresh(n, 0) => Nests(nodes', n)
  BY <1>4, <1>5, LeafNests
<1>10. Moving(0)
  BY <1>3, <1>5, <1>6 DEF Moving
<1> QED BY <1>2, <1>3, <1>5, <1>8, <1>9, <1>10, HavePrefixSpans

LEMMA NoExpressionSpans == ASSUME ParserInv, ParserInv', SpansInv, NoExpression PROVE SpansInv'
<1>1. step = "prefix" /\ UNCHANGED driver
  BY DEF NoExpression
<1>2. PICK id \in Allocated : MakeError(id, "expected expression") /\ HavePrefix(id)
  BY DEF NoExpression
<1>3. /\ Changed(nodes, nodes', 0) /\ id \in Nat
      /\ (Tight' => Tight) /\ start' = start
      /\ \A n \in 1..Len(nodes') : Fresh(n, 0) => Nests(nodes', n)
      /\ Produced(nodes', id, pos, pos', AtEof', Tight')
  BY <1>1, <1>2, ErrorSpans DEF Messages
<1>4. /\ ControlOK /\ stack # <<>> /\ Top.wait = "none" /\ From(Len(stack)) = pos
  BY <1>1, AtPrefix DEF ControlOK, StepOK, SpansInv
<1>5. Moving(0)
  BY <1>3, <1>4 DEF Moving
<1> QED BY <1>2, <1>3, <1>4, <1>5, HavePrefixSpans

LEMMA OpenedSpans ==
  ASSUME ParserInv, ParserInv', SpansInv, step = "prefix", UNCHANGED driver, diags' = diags,
         pos' = Advance(pos), toks[pos] # "eof", NEW kind \in Kinds, NEW id \in Allocated,
         nodes' = Store(id, MakeNode(kind, pos, SpanOf(pos), <<>>)),
         NEW wait \in {"group", "prefix"}, NEW min, Call(Awaiting(Top, wait, id, pos), min)
  PROVE  SpansInv'
<1> PICK node : node = MakeNode(kind, pos, SpanOf(pos), <<>>)
  OBVIOUS
<1> PICK f : f = Awaiting(Top, wait, id, pos)
  OBVIOUS
<1>1. /\ InputOK /\ ControlOK /\ stack # <<>> /\ Top.wait = "none"
      /\ Top \in Frame /\ From(Len(stack)) = pos
  BY AtPrefix DEF ControlOK, StepOK, SpansInv
<1>2. pos \in Nat \ {0} /\ pos \in 1..Len(toks) /\ TokensOK /\ SpanOf(pos) \in Span
  BY <1>1, InputFacts
<1>3. node \in Node /\ node.kids = <<>> /\ node.span = SpanOf(pos)
  <2>1. pos \in Nat /\ SpanOf(pos) \in Span /\ <<>> \in Seq(Nat)
    BY <1>2
  <2> QED BY <2>1, MakeNodeOK DEF MakeNode
<1>4. /\ Changed(nodes, nodes', 0) /\ id \in Nat /\ (id = 0 => mayFail)
      /\ (id # 0 => nodes'[id] = node)
      /\ \A n \in 1..Len(nodes') : Fresh(n, 0) => n = id /\ id # 0
  BY <1>3, StoredNode
<1>5. (Tight' => Tight) /\ start' = start /\ (Tight' => id # 0)
  BY <1>4, TightKept DEF Tight
<1>6. f \in Frame /\ f.wait = wait /\ f.node = id /\ f.op = pos
  BY <1>1, <1>2, <1>4 DEF Awaiting, Frame, Waits
<1>7. \A n \in 1..Len(nodes') : Fresh(n, 0) => Nests(nodes', n)
  BY <1>3, <1>4, LeafNests
<1>8. SpanOf(pos) = [start |-> pos - 1, len |-> 1]
  BY DEF SpanOf
<1>9. FrameSpans(f, nodes', pos, Tight')
  <2>1. pos <= f.op /\ f.op = pos /\ f.wait # "infix" /\ f.wait # "argument"
    BY <1>2, <1>6
  <2>2. f.node # 0 => nodes'[f.node].span = [start |-> f.op - 1, len |-> 1]
                      /\ nodes'[f.node].kids = <<>>
    BY <1>3, <1>4, <1>6, <1>8
  <2> QED BY <1>5, <1>6, <2>1, <2>2 DEF FrameSpans
<1>10. Moving(0)
  BY <1>1, <1>4, <1>5 DEF Moving
<1>11. f.wait # "argument" /\ pos' = f.op + 1
  BY <1>6 DEF Advance
<1>12. /\ Call(f, min) /\ FrameSpans(f, nodes', From(Len(stack)), Tight')
       /\ \A n \in 1..Len(nodes') :
            Fresh(n, 0) => Nests(nodes', n) \/ (f.wait = "argument" /\ f.node = n)
       /\ pos' = IF f.wait = "argument" THEN f.mark ELSE f.op + 1
  <2>1. FrameSpans(f, nodes', From(Len(stack)), Tight')
    BY <1>1, <1>9, Zenon
  <2>2. pos' = IF f.wait = "argument" THEN f.mark ELSE f.op + 1
    BY <1>11
  <2>3. Call(f, min)
    OBVIOUS
  <2>4. \A n \in 1..Len(nodes') :
          Fresh(n, 0) => Nests(nodes', n) \/ (f.wait = "argument" /\ f.node = n)
    BY <1>7
  <2> QED BY <2>1, <2>2, <2>3, <2>4
<1>13. f \in Frame
  BY <1>6
<1> QED BY <1>1, <1>10, <1>12, <1>13, CallSpans

LEMMA OpenGroupSpans == ASSUME ParserInv, ParserInv', SpansInv, OpenGroup PROVE SpansInv'
<1>1. /\ step = "prefix" /\ UNCHANGED driver /\ diags' = diags /\ pos' = Advance(pos)
      /\ toks[pos] # "eof"
  BY DEF OpenGroup
<1>2. PICK id \in Allocated :
        /\ nodes' = Store(id, MakeNode("group", pos, SpanOf(pos), <<>>))
        /\ Call(Awaiting(Top, "group", id, pos), 0)
  BY DEF OpenGroup, Awaiting
<1>3. "group" \in Kinds /\ "group" \in {"group", "prefix"}
  BY DEF Kinds
<1> QED BY <1>1, <1>2, <1>3, OpenedSpans

LEMMA PrefixOperatorSpans == ASSUME ParserInv, ParserInv', SpansInv, PrefixOperator PROVE SpansInv'
<1>1. /\ step = "prefix" /\ UNCHANGED driver /\ diags' = diags /\ pos' = Advance(pos)
      /\ IsOperator(toks[pos], "prefix")
  BY DEF PrefixOperator
<1>2. PICK id \in Allocated :
        /\ nodes' = Store(id, MakeNode("unary", pos, SpanOf(pos), <<>>))
        /\ Call(Awaiting(Top, "prefix", id, pos), OperatorFor(toks[pos], "prefix").prec)
  BY DEF PrefixOperator, Awaiting
<1>3. "unary" \in Kinds /\ "prefix" \in {"group", "prefix"} /\ toks[pos] # "eof"
  BY <1>1, OperatorForOK DEF Kinds
<1> QED BY <1>1, <1>2, <1>3, OpenedSpans

\* Activations begin on tokens.
LEMMA FromOK ==
  ASSUME ParserInv, SpansInv, stack # <<>>
  PROVE  From(Len(stack)) \in Nat \ {0}
<1>1. InputOK /\ ControlOK /\ stack \in Seq(Frame)
  BY DEF ParserInv, ControlOK, StackGood
<1>2. Len(stack) \in Nat \ {0}
  BY <1>1, TopGood
<1>3. CASE Len(stack) = 1
  BY <1>1, <1>3 DEF From, Begin, InputOK
<1>4. CASE Len(stack) # 1
  <2> PICK n : n = Len(stack)
    OBVIOUS
  <2>0. n \in Nat \ {0} /\ n # 1
    BY <1>2, <1>4
  <2>1. n - 1 \in 1..n
    BY <2>0
  <2> PICK g : g = stack[Len(stack) - 1]
    OBVIOUS
  <2>2. g \in Frame /\ From(Len(stack)) = IF g.wait = "argument" THEN g.mark ELSE g.op + 1
    BY <1>1, <1>4, <2>1, ElementOfSeq DEF From, Begin
  <2>3. FrameSpans(g, nodes, From(Len(stack) - 1), Tight)
    BY <1>1, <2>1 DEF SpansInv, FramesSpan, From
  <2>4. g.op \in Nat /\ g.mark \in Nat
    BY <2>2 DEF Frame
  <2>5. g.wait = "argument" => g.op < g.mark
    BY <2>3 DEF FrameSpans
  <2> QED BY <2>2, <2>4, <2>5
<1> QED BY <1>3, <1>4

\* What the operator loop may build on.
LEMMA LoopFacts ==
  ASSUME ParserInv, SpansInv, step = "loop"
  PROVE  /\ InputOK /\ ControlOK /\ Forest(nodes) /\ nodes \in Seq(Node) /\ stack # <<>>
         /\ Top.wait = "none" /\ Top \in Frame /\ TokensOK /\ pos \in 1..Len(toks)
         /\ pos \in Nat \ {0} /\ From(Len(stack)) \in Nat \ {0}
         /\ Top.lhs \in 1..Len(nodes) /\ Top.lhs \in Nat /\ Top.lhs # 0
         /\ SpanIn(Top.lhs) = nodes[Top.lhs].span /\ nodes[Top.lhs].span \in Span
         /\ Produced(nodes, Top.lhs, From(Len(stack)), pos, AtEof, Tight)
<1>1. /\ InputOK /\ ControlOK /\ Forest(nodes) /\ nodes \in Seq(Node) /\ stack # <<>>
      /\ Top \in Frame /\ Top.lhs \in 1..Len(nodes) /\ Len(nodes) \in Nat
      /\ stack \in Seq(Frame)
  BY AtLoop DEF ControlOK, StackGood
<1>2. Top.wait = "none" /\ Produced(nodes, Top.lhs, From(Len(stack)), pos, AtEof, Tight)
  BY <1>1 DEF ControlOK, StepOK, SpansInv
<1>3. pos \in 1..Len(toks) /\ pos \in Nat \ {0} /\ TokensOK
  BY <1>1, InputFacts
<1>4. SpanIn(Top.lhs) = nodes[Top.lhs].span /\ SpanIn(Top.lhs) \in Span
  BY <1>1, SpanInOK DEF SpanIn
<1>5. From(Len(stack)) \in Nat \ {0}
  BY <1>1, FromOK
<1> QED BY <1>1, <1>2, <1>3, <1>4, <1>5

LEMMA EndLoopSpans == ASSUME ParserInv, ParserInv', SpansInv, EndLoop PROVE SpansInv'
<1>1. /\ step = "loop" /\ Leave(Top.lhs) /\ UNCHANGED driver
      /\ pos' = pos /\ nodes' = nodes /\ diags' = diags
  BY DEF EndLoop
<1>2. /\ ControlOK /\ stack # <<>> /\ Top.wait = "none"
      /\ Produced(nodes, Top.lhs, From(Len(stack)), pos, AtEof, Tight)
  BY <1>1, LoopFacts
<1>3. (Tight' => Tight) /\ start' = start /\ toks' = toks
  BY <1>1, TightKept
<1>4. Changed(nodes, nodes', 0) /\ \A n \in 1..Len(nodes') : ~Fresh(n, 0)
  BY <1>1, SameNodes
<1>5. Moving(0)
  BY <1>2, <1>3, <1>4 DEF Moving
<1>6. Produced(nodes', Top.lhs, From(Len(stack)), pos', AtEof', Tight')
  BY <1>1, <1>2, <1>3 DEF Produced, AtEof
<1> QED BY <1>1, <1>2, <1>4, <1>5, <1>6, LeaveSpans

\* A span that lies on the tokens and reaches both their ends is all of them.
LEMMA ReachesBoth ==
  ASSUME NEW u \in Span, NEW s \in Span, NEW l \in Span, NEW b \in Nat \ {0}, NEW e \in Nat \ {0},
         Fits(u, b, e), Inside(s, u), s.len > 0, s.start = b - 1,
         Inside(l, u), l.len > 0, SpanEnd(l) = e - 1, b < e
  PROVE  Fills(u, b, e)
<1>1. u.start \in Nat /\ u.len \in Nat /\ SpanEnd(u) \in Nat
  BY SpanFields
<1>2. b - 1 <= u.start /\ u.start <= b - 1 /\ e - 1 <= SpanEnd(u) /\ SpanEnd(u) <= e - 1
  BY DEF Fits, Inside
<1> QED BY <1>1, <1>2 DEF Fills

\* A span of one token or more is not empty.
LEMMA FillsSolid ==
  ASSUME NEW s \in Span, NEW b \in Nat, NEW e \in Nat, Fills(s, b, e)
  PROVE  s.len > 0 /\ s.start = b - 1 /\ SpanEnd(s) = e - 1
BY SpanFields DEF Fills

\* The union of the left-hand side and a later token.
LEMMA LhsUnion ==
  ASSUME ParserInv, SpansInv, step = "loop", toks[pos] # "eof",
         NEW last \in 1..Len(toks), pos <= last, NEW e \in Nat \ {0}, e = Advance(last)
  PROVE  LET u == SpanUnion(nodes[Top.lhs].span, SpanOf(last))
         IN  /\ u \in Span /\ u.len > 0 /\ Inside(nodes[Top.lhs].span, u)
             /\ Fits(u, From(Len(stack)), e) /\ From(Len(stack)) <= e
             /\ toks[last] # "eof" /\ Tight => Fills(u, From(Len(stack)), e)
<1> PICK s : s = nodes[Top.lhs].span
  OBVIOUS
<1> PICK b : b = From(Len(stack))
  OBVIOUS
<1> PICK l : l = SpanOf(last)
  OBVIOUS
<1> PICK u : u = SpanUnion(s, l)
  OBVIOUS
<1>1. /\ TokensOK /\ pos \in Nat /\ b \in Nat \ {0} /\ s \in Span
      /\ Produced(nodes, Top.lhs, b, pos, AtEof, Tight) /\ Top.lhs # 0
  BY LoopFacts
<1>2. /\ b <= pos /\ Fits(s, b, pos) /\ s.len > 0 /\ (Tight => Fills(s, b, pos))
  BY <1>1 DEF Produced, AtEof
<1>3. /\ l \in Span /\ l.start = last - 1 /\ SpanEnd(l) = e - 1
      /\ l.len = IF toks[last] = "eof" THEN 0 ELSE 1
  BY <1>1, TokenSpan
<1>4. last \in Nat /\ last <= e
  BY <1>1 DEF Advance
<1>5. Fits(s, b, e) /\ Fits(l, b, e) /\ b <= e
  <2>1. b \in Int /\ pos \in Int /\ e \in Int /\ b <= pos /\ pos <= e /\ b <= last
    BY <1>1, <1>2, <1>4
  <2>2. Fits(s, b, e)
    BY <1>1, <1>2, <2>1, FitsWider
  <2>3. l.start = last - 1 /\ SpanEnd(l) = e - 1 /\ last \in Int
    BY <1>3
  <2>4. Fits(l, b, e)
    BY <2>1, <2>3 DEF Fits
  <2> QED BY <2>1, <2>2, <2>4
<1>6. /\ u \in Span /\ Inside(s, u) /\ Inside(l, u) /\ Fits(u, b, e)
  <2>1. b \in Int /\ e \in Int
    BY <1>1
  <2> QED BY <1>1, <1>3, <1>5, <2>1, UnionSpans
<1>7. u.len > 0
  BY <1>2, <1>6 DEF Inside
<1>8. ASSUME toks[last] # "eof", Tight PROVE Fills(u, b, e)
  <2>1. e = last + 1 /\ l.len > 0 /\ b < e
    BY <1>1, <1>2, <1>3, <1>4, <1>8 DEF Advance
  <2>2. s.start = b - 1
    BY <1>2, <1>8 DEF Fills
  <2> QED BY <1>1, <1>2, <1>3, <1>6, <2>1, <2>2, ReachesBoth
<1> QED BY <1>5, <1>6, <1>7, <1>8

\* The new node's child is the left-hand side.
LEMMA LhsNests ==
  ASSUME ParserInv, SpansInv, step = "loop", NEW node, NEW id, Changed(nodes, nodes', 0),
         nodes'[id] = node, node.kids = <<Top.lhs>>, Inside(nodes[Top.lhs].span, node.span)
  PROVE  Nests(nodes', id)
<1>1. Top.lhs \in 1..Len(nodes) /\ Top.lhs \in Nat
  BY LoopFacts
<1> PICK kids : kids = node.kids
  OBVIOUS
<1>2. Apart(nodes, kids) /\ Len(kids) = 1 /\ kids[1] = Top.lhs
  BY OneKidApart
<1>3. kids \in Seq(Nat)
  BY <1>1
<1>4. \A i \in 1..Len(kids) : kids[i] = Top.lhs
  BY <1>2
<1>5. KidsIn(kids, Len(nodes))
  BY <1>1, <1>3, <1>4 DEF KidsIn
<1> QED BY <1>2, <1>4, <1>5, NewNests

LEMMA LhsSpans ==
  ASSUME ParserInv, ParserInv', SpansInv, step = "loop", UNCHANGED driver, diags' = diags,
         toks[pos] # "eof", NEW last \in 1..Len(toks), pos <= last, toks[last] # "eof",
         pos' = last + 1, NEW id \in Allocated, NEW node \in Node, node.kids = <<Top.lhs>>,
         node.span = SpanUnion(SpanIn(Top.lhs), SpanOf(last)),
         nodes' = Store(id, node), HavePrefix(id)
  PROVE  SpansInv'
<1>1. /\ ControlOK /\ stack # <<>> /\ Top.wait = "none"
      /\ SpanIn(Top.lhs) = nodes[Top.lhs].span
  BY LoopFacts
<1>2. pos' = Advance(last) /\ pos' \in Nat \ {0}
  BY DEF Advance
<1>3. /\ node.span.len > 0 /\ Inside(nodes[Top.lhs].span, node.span)
      /\ Fits(node.span, From(Len(stack)), pos') /\ From(Len(stack)) <= pos'
      /\ Tight => Fills(node.span, From(Len(stack)), pos')
  BY <1>1, <1>2, LhsUnion
<1>4. (Tight' => Tight) /\ start' = start
  BY TightKept
<1>5. /\ Changed(nodes, nodes', 0) /\ id \in Nat /\ (id = 0 => mayFail)
      /\ (id # 0 => nodes'[id] = node)
      /\ \A n \in 1..Len(nodes') : Fresh(n, 0) => n = id /\ id # 0
  BY StoredNode
<1>6. \A n \in 1..Len(nodes') : Fresh(n, 0) => Nests(nodes', n)
  BY <1>3, <1>5, LhsNests
<1>7. Tight' => id # 0
  BY <1>4, <1>5 DEF Tight
<1>8. Produced(nodes', id, From(Len(stack)), pos', AtEof', Tight')
  BY <1>3, <1>4, <1>5, <1>7 DEF Produced
<1>9. Moving(0)
  BY <1>1, <1>4, <1>5 DEF Moving
<1> QED BY <1>1, <1>5, <1>6, <1>8, <1>9, HavePrefixSpans

LEMMA PostfixSpans == ASSUME ParserInv, ParserInv', SpansInv, PostfixOperator PROVE SpansInv'
<1>1. /\ step = "loop" /\ UNCHANGED driver /\ diags' = diags /\ pos' = Advance(pos)
      /\ IsOperator(toks[pos], "postfix")
  BY DEF PostfixOperator, AtPostfix
<1> PICK node : node = MakeNode("unary", pos, SpanUnion(SpanIn(Top.lhs), SpanOf(pos)),
                                <<Top.lhs>>)
  OBVIOUS
<1>2. PICK id \in Allocated : nodes' = Store(id, node) /\ HavePrefix(id)
  BY DEF PostfixOperator
<1>3. toks[pos] # "eof"
  BY <1>1, OperatorForOK
<1>4. pos \in 1..Len(toks) /\ pos <= pos /\ pos' = pos + 1 /\ pos \in Nat
  BY <1>1, <1>3, LoopFacts DEF Advance
<1>5. /\ node \in Node /\ node.kids = <<Top.lhs>>
      /\ node.span = SpanUnion(SpanIn(Top.lhs), SpanOf(pos))
  <2>1. SpanUnion(SpanIn(Top.lhs), SpanOf(pos)) \in Span /\ <<Top.lhs>> \in Seq(Nat)
    BY <1>1, OneKid, InputFacts, SpanUnionOK DEF ParserInv
  <2>2. "unary" \in Kinds
    BY DEF Kinds
  <2> QED BY <1>4, <2>1, <2>2, MakeNodeOK DEF MakeNode
<1> QED BY <1>1, <1>2, <1>3, <1>4, <1>5, LhsSpans

LEMMA SelectorSpans == ASSUME ParserInv, ParserInv', SpansInv, Selector PROVE SpansInv'
<1> PICK next : next = pos + 1
  OBVIOUS
<1>1. /\ step = "loop" /\ UNCHANGED driver /\ diags' = diags /\ pos' = pos + 2
      /\ AtSelector /\ toks[next] = "id"
  BY DEF Selector
<1> PICK node : node = MakeNode("selector", next, SpanUnion(SpanIn(Top.lhs), SpanOf(next)),
                                <<Top.lhs>>)
  OBVIOUS
<1>2. PICK id \in Allocated : nodes' = Store(id, node) /\ HavePrefix(id)
  BY DEF Selector
<1>3. toks[pos] # "eof" /\ toks[next] # "eof"
  BY <1>1, OperatorForOK DEF AtSelector, AtInfix
<1>4. InputOK /\ pos \in Nat /\ next \in 1..Len(toks) /\ next \in Nat \ {0}
  BY <1>1, LoopFacts, AfterSelector
<1>5. pos <= next /\ pos' = next + 1
  BY <1>1, <1>4
<1>6. /\ node \in Node /\ node.kids = <<Top.lhs>>
      /\ node.span = SpanUnion(SpanIn(Top.lhs), SpanOf(next))
  <2>1. SpanUnion(SpanIn(Top.lhs), SpanOf(next)) \in Span /\ <<Top.lhs>> \in Seq(Nat)
    BY <1>1, <1>4, OneKid, SpanOfOK, SpanUnionOK
  <2>2. "selector" \in Kinds /\ next \in Nat
    BY <1>4 DEF Kinds
  <2> QED BY <2>1, <2>2, MakeNodeOK DEF MakeNode
<1> QED BY <1>1, <1>2, <1>3, <1>4, <1>5, <1>6, LhsSpans

LEMMA SelectorWithoutNameSpans ==
  ASSUME ParserInv, ParserInv', SpansInv, SelectorWithoutName PROVE SpansInv'
<1> PICK next : next = pos + 1
  OBVIOUS
<1>1. /\ step = "loop" /\ UNCHANGED driver /\ pos' = Advance(next) /\ AtSelector
      /\ diags' \in Reported(diags, "expected identifier", next)
  BY DEF SelectorWithoutName
<1> PICK node : node = MakeNode("error", next, SpanUnion(SpanIn(Top.lhs), SpanOf(next)), <<>>)
  OBVIOUS
<1>2. PICK id \in Allocated : nodes' = Store(id, node) /\ Leave(id)
  BY DEF SelectorWithoutName
<1>3. toks[pos] # "eof"
  BY <1>1, OperatorForOK DEF AtSelector, AtInfix
<1>4. /\ InputOK /\ ControlOK /\ pos \in Nat /\ stack # <<>> /\ Top.wait = "none" /\ TokensOK
      /\ SpanIn(Top.lhs) = nodes[Top.lhs].span
  BY <1>1, LoopFacts
<1>5. next \in 1..Len(toks) /\ next \in Nat \ {0} /\ pos <= next
  <2>1. next \in 1..Len(toks) /\ next \in Nat \ {0}
    BY <1>1, <1>4, AfterSelector
  <2>2. pos <= next
    BY <1>4
  <2> QED BY <2>1, <2>2
<1>6. ~Tight' /\ start' = start
  BY <1>1, <1>4, <1>5, TightReported DEF Messages
<1>7. node \in Node /\ node.kids = <<>> /\ node.span = SpanUnion(nodes[Top.lhs].span, SpanOf(next))
  <2>1. SpanUnion(SpanIn(Top.lhs), SpanOf(next)) \in Span /\ <<>> \in Seq(Nat)
    <3>1. SpanOf(next) \in Span
      BY <1>5, SpanOfOK
    <3>2. step = "loop"
      BY <1>1
    <3> QED BY <3>1, <3>2, OneKid, SpanUnionOK
  <2>2. "error" \in Kinds /\ next \in Nat
    BY <1>5 DEF Kinds
  <2> QED BY <1>4, <2>1, <2>2, MakeNodeOK DEF MakeNode
<1>8. pos' \in Nat \ {0}
  <2>1. pos' = next \/ pos' = next + 1
    BY <1>1 DEF Advance
  <2>2. next \in Nat \ {0}
    BY <1>5
  <2> QED BY <2>1, <2>2
<1>9. /\ node.span.len > 0 /\ Fits(node.span, From(Len(stack)), pos')
      /\ From(Len(stack)) <= pos'
  BY <1>1, <1>3, <1>5, <1>7, <1>8, LhsUnion
<1>10. /\ Changed(nodes, nodes', 0) /\ id \in Nat /\ (id # 0 => nodes'[id] = node)
       /\ \A n \in 1..Len(nodes') : Fresh(n, 0) => n = id /\ id # 0
  BY <1>2, <1>7, StoredNode
<1>11. \A n \in 1..Len(nodes') : Fresh(n, 0) => Nests(nodes', n)
  BY <1>7, <1>10, LeafNests
<1>12. Produced(nodes', id, From(Len(stack)), pos', AtEof', Tight')
  BY <1>6, <1>9, <1>10 DEF Produced
<1>13. Moving(0)
  BY <1>4, <1>6, <1>10 DEF Moving
<1> QED BY <1>2, <1>4, <1>11, <1>12, <1>13, LeaveSpans

LEMMA InfixSpans == ASSUME ParserInv, ParserInv', SpansInv, InfixOperator PROVE SpansInv'
<1> PICK f : f = [Top EXCEPT !.wait = "infix", !.op = pos]
  OBVIOUS
<1> PICK min : min = NextMin(OperatorFor(toks[pos], "infix"))
  OBVIOUS
<1>1. /\ step = "loop" /\ UNCHANGED driver /\ diags' = diags /\ nodes' = nodes
      /\ pos' = Advance(pos) /\ AtInfix /\ Call(f, min)
  BY DEF InfixOperator
<1>2. toks[pos] # "eof"
  BY <1>1, OperatorForOK DEF AtInfix
<1>3. /\ ControlOK /\ stack # <<>> /\ Top.wait = "none" /\ Top \in Frame /\ pos \in Nat
      /\ Top.lhs # 0 /\ Produced(nodes, Top.lhs, From(Len(stack)), pos, AtEof, Tight)
  BY <1>1, LoopFacts
<1>4. f \in Frame /\ f.wait = "infix" /\ f.op = pos /\ f.lhs = Top.lhs
  BY <1>3 DEF Frame, Waits
<1>5. (Tight' => Tight) /\ start' = start
  BY <1>1, TightKept
<1>6. Changed(nodes, nodes', 0) /\ \A n \in 1..Len(nodes') : ~Fresh(n, 0)
  BY <1>1, SameNodes
<1>7. FrameSpans(f, nodes', From(Len(stack)), Tight')
  BY <1>1, <1>2, <1>3, <1>4, <1>5 DEF FrameSpans, Produced, AtEof
<1>8. pos' = IF f.wait = "argument" THEN f.mark ELSE f.op + 1
  BY <1>1, <1>2, <1>4 DEF Advance
<1>9. Moving(0)
  BY <1>3, <1>5, <1>6 DEF Moving
<1> QED BY <1>1, <1>3, <1>4, <1>6, <1>7, <1>8, <1>9, CallSpans
-----------------------------------------------------------------------------
(* What returns to an activation that waits.                               *)

LEMMA ReturnFacts ==
  ASSUME ParserInv, SpansInv, NEW place \in Waits \ {"none"}, Returned(place)
  PROVE  LET b  == From(Len(stack))
             mk == IF place = "argument" THEN Top.mark ELSE Top.op + 1
         IN  /\ InputOK /\ ControlOK /\ Forest(nodes) /\ nodes \in Seq(Node) /\ stack # <<>>
             /\ Len(nodes) \in Nat /\ TokensOK /\ pos \in 1..Len(toks) /\ Len(toks) \in Nat
             /\ Top.wait = place /\ Top \in Frame /\ FrameOK(Top, Len(nodes), Len(toks))
             /\ b \in Nat \ {0} /\ Top.op \in Nat /\ b <= Top.op /\ mk \in Nat /\ Top.op < mk
             /\ FrameSpans(Top, nodes, b, Tight)
             /\ ret \in 0..Len(nodes) /\ (ret # 0 => Held(Top) < ret)
             /\ SpanIn(ret) \in Span /\ (ret # 0 => SpanIn(ret) = nodes[ret].span)
             /\ Produced(nodes, ret, mk, pos, AtEof, Tight)
<1>1. /\ InputOK /\ ControlOK /\ Forest(nodes) /\ stack # <<>>
      /\ step = "return" /\ Top.wait = place
      /\ nodes \in Seq(Node) /\ Len(nodes) \in Nat
      /\ Top \in Frame /\ FrameOK(Top, Len(nodes), Len(toks))
      /\ ret \in 0..Len(nodes) /\ (ret # 0 => Held(Top) < ret)
  BY AtReturn
<1>2. TokensOK /\ pos \in 1..Len(toks) /\ Len(toks) \in Nat
  BY <1>1, InputFacts
<1>3. SpanIn(ret) \in Span /\ (ret # 0 => SpanIn(ret) = nodes[ret].span)
  BY <1>1, SpanInOK DEF SpanIn
<1>4. Len(stack) \in Nat \ {0} /\ From(Len(stack)) \in Nat \ {0}
  BY <1>1, TopGood, FromOK
<1>5. FrameSpans(Top, nodes, From(Len(stack)), Tight)
  <2>1. Len(stack) \in 1..Len(stack)
    BY <1>4
  <2> QED BY <2>1 DEF SpansInv, FramesSpan, From, Top
<1>6. From(Len(stack) + 1) = IF place = "argument" THEN Top.mark ELSE Top.op + 1
  <2>1. Len(stack) + 1 # 1 /\ Len(stack) + 1 - 1 = Len(stack)
    BY <1>4
  <2> QED BY <1>1, <2>1 DEF From, Begin, Top
<1>7. Produced(nodes, ret, From(Len(stack) + 1), pos, AtEof, Tight)
  BY <1>1 DEF SpansInv
<1>8. Top.op \in Nat /\ Top.mark \in Nat
  BY <1>1 DEF Frame
<1>9. From(Len(stack)) <= Top.op /\ (place = "argument" => Top.op < Top.mark)
  BY <1>1, <1>5 DEF FrameSpans
<1> QED BY <1>1, <1>2, <1>3, <1>4, <1>5, <1>6, <1>7, <1>8, <1>9

\* A token before the cursor is not the EOF.
LEMMA TokenBefore ==
  ASSUME TokensOK, NEW p \in 1..Len(toks), NEW i \in Nat \ {0}, i < p
  PROVE  /\ i \in 1..Len(toks) /\ SpanOf(i) \in Span
         /\ SpanOf(i).start = i - 1 /\ SpanOf(i).len = 1 /\ SpanEnd(SpanOf(i)) = i
<1>1. i \in 1..Len(toks) /\ toks[i] # "eof"
  BY TokensLen DEF TokensOK
<1>2. SpanOf(i).start = i - 1 /\ SpanOf(i).len = 1 /\ SpanOf(i) \in Span
  BY <1>1, TokenSpan
<1> QED BY <1>1, <1>2 DEF SpanEnd

\* Children one after the other on the tokens from b to e - 1.
Row(ns, kids, b, e) ==
  /\ KidsIn(kids, Len(ns)) /\ Apart(ns, kids)
  /\ \A i \in 1..Len(kids) : Fits(ns[kids[i]].span, b, e)
\* The children `all` are `kids` and perhaps id.
Extends(all, kids, id) ==
  /\ \A i \in 1..Len(all) : \/ all[i] = id /\ id # 0
                            \/ i \in 1..Len(kids) /\ all[i] = kids[i]
  /\ kids # <<>> => all # <<>> /\ 1 \in 1..Len(kids) /\ all[1] = kids[1]

\* One child more, behind those before the token m.
LEMMA KidAdded ==
  ASSUME NEW ns \in Seq(Node), NEW kids, NEW id \in 0..Len(ns),
         NEW b \in Nat \ {0}, NEW m \in Nat, NEW p \in Nat, b <= m, m <= p,
         Row(ns, kids, b, m), id # 0 => Fits(ns[id].span, m, p)
  PROVE  /\ Row(ns, WithKid(kids, id), b, p)
         /\ Extends(WithKid(kids, id), kids, id)
<1> PICK all : all = WithKid(kids, id)
  OBVIOUS
<1>0. /\ KidsIn(kids, Len(ns)) /\ Apart(ns, kids)
      /\ \A i \in 1..Len(kids) : Fits(ns[kids[i]].span, b, m)
  BY DEF Row
<1>1. Len(ns) \in Nat
  BY LenProperties
<1>2. /\ KidsIn(all, Len(ns)) /\ Len(kids) \in Nat
      /\ Len(all) = IF id = 0 THEN Len(kids) ELSE Len(kids) + 1
      /\ \A i \in 1..Len(kids) : all[i] = kids[i]
      /\ id # 0 => all[Len(kids) + 1] = id
  BY <1>0, <1>1, WithKidOK
<1>3. \A i \in 1..Len(all) : \/ i \in 1..Len(kids) /\ all[i] = kids[i]
                             \/ i = Len(kids) + 1 /\ all[i] = id /\ id # 0
  BY <1>2
<1>4. \A k \in 1..Len(ns) : /\ ns[k].span \in Span /\ ns[k].span.start \in Nat
                            /\ SpanEnd(ns[k].span) \in Nat
  <2> TAKE k \in 1..Len(ns)
  <2>1. ns[k] \in Node
    BY ElementOfSeq
  <2>2. ns[k].span \in Span
    BY <2>1 DEF Node
  <2> QED BY <2>2, SpanFields
<1>5. \A i \in 1..Len(kids) : kids[i] \in 1..Len(ns)
  BY <1>0 DEF KidsIn
<1>6. ASSUME NEW i \in 1..Len(all) PROVE Fits(ns[all[i]].span, b, p)
  <2>1. CASE i \in 1..Len(kids) /\ all[i] = kids[i]
    <3>1. Fits(ns[kids[i]].span, b, m) /\ SpanEnd(ns[kids[i]].span) \in Nat
      BY <1>0, <1>4, <1>5, <2>1
    <3> QED BY <2>1, <3>1 DEF Fits
  <2>2. CASE all[i] = id /\ id # 0
    <3>1. Fits(ns[id].span, m, p) /\ ns[id].span.start \in Nat
      BY <1>1, <1>4, <2>2
    <3> QED BY <2>2, <3>1 DEF Fits
  <2> QED BY <1>3, <2>1, <2>2
<1>7. ASSUME NEW i \in 1..Len(all), NEW j \in 1..i - 1
      PROVE  SpanEnd(ns[all[j]].span) <= ns[all[i]].span.start
  <2>1. CASE i \in 1..Len(kids) /\ all[i] = kids[i]
    <3>1. j \in 1..Len(kids)
      BY <1>2, <2>1
    <3>2. all[j] = kids[j]
      BY <1>2, <3>1
    <3> QED BY <1>0, <2>1, <3>2 DEF Apart
  <2>2. CASE i = Len(kids) + 1 /\ all[i] = id /\ id # 0
    <3>1. j \in 1..Len(kids) /\ id \in 1..Len(ns)
      BY <1>1, <1>2, <2>2
    <3>2. all[j] = kids[j]
      BY <1>2, <3>1
    <3>3. /\ Fits(ns[kids[j]].span, b, m) /\ SpanEnd(ns[kids[j]].span) \in Nat
          /\ Fits(ns[id].span, m, p) /\ ns[id].span.start \in Nat
      BY <1>0, <1>4, <1>5, <2>2, <3>1
    <3>4. m \in Int
      BY <1>0
    <3>5. SpanEnd(ns[kids[j]].span) <= m - 1 /\ m - 1 <= ns[id].span.start
      BY <3>3 DEF Fits
    <3>6. SpanEnd(ns[kids[j]].span) <= ns[id].span.start
      BY <3>3, <3>4, <3>5
    <3> QED BY <2>2, <3>2, <3>6
  <2> QED BY <1>3, <2>1, <2>2
<1>8. ASSUME kids # <<>> PROVE all # <<>> /\ 1 \in 1..Len(kids) /\ all[1] = kids[1]
  <2>1. Len(kids) # 0
    <3>1. kids \in Seq(Nat)
      BY <1>0 DEF KidsIn
    <3> QED BY <1>8, <3>1, EmptySeq
  <2>2. 1 \in 1..Len(kids) /\ Len(all) # 0
    BY <1>2, <2>1
  <2>3. all # <<>>
    BY <2>2, EmptySeq
  <2> QED BY <1>2, <2>2, <2>3
<1>9. Row(ns, all, b, p)
  BY <1>2, <1>6, <1>7 DEF Row, Apart
<1>10. Extends(all, kids, id)
  BY <1>3, <1>8 DEF Extends
<1> QED BY <1>9, <1>10

\* The node a group or a call makes, with what was returned below it.
LEMMA GrownKids ==
  ASSUME ParserInv, SpansInv, NEW place \in {"group", "argument"}, Returned(place), Top.node # 0
  PROVE  LET m    == Top.node
             kids == WithKid(nodes[m].kids, ret)
             b    == From(Len(stack))
         IN  /\ m = Held(Top) /\ m \in 1..Len(nodes) /\ Orphan(nodes, m) /\ nodes[m] \in Node
             /\ nodes[m].span = [start |-> Top.op - 1, len |-> 1]
             /\ Row(nodes, kids, b, pos) /\ (\A i \in 1..Len(kids) : kids[i] # m)
             /\ place = "argument" =>
                  /\ kids # <<>> /\ 1 \in 1..Len(kids)
                  /\ Tight => Fills(nodes[kids[1]].span, b, Top.op)
<1> PICK m : m = Top.node
  OBVIOUS
<1> PICK old : old = nodes[m].kids
  OBVIOUS
<1> PICK kids : kids = WithKid(old, ret)
  OBVIOUS
<1> PICK b : b = From(Len(stack))
  OBVIOUS
<1> PICK mk : mk = IF place = "argument" THEN Top.mark ELSE Top.op + 1
  OBVIOUS
<1>1. /\ ControlOK /\ Forest(nodes) /\ nodes \in Seq(Node) /\ Len(nodes) \in Nat
      /\ Top.wait = place /\ FrameOK(Top, Len(nodes), Len(toks)) /\ stack # <<>>
      /\ b \in Nat \ {0} /\ Top.op \in Nat /\ b <= Top.op /\ mk \in Nat /\ Top.op < mk
      /\ FrameSpans(Top, nodes, b, Tight)
      /\ ret \in 0..Len(nodes) /\ (ret # 0 => Held(Top) < ret)
      /\ Produced(nodes, ret, mk, pos, AtEof, Tight) /\ pos \in 1..Len(toks)
  BY ReturnFacts DEF Waits
<1>2. m = Held(Top) /\ m \in 1..Len(nodes)
  BY <1>1 DEF Held, FrameOK
<1>3. Orphan(nodes, m)
  BY <1>1, <1>2, TopGood DEF Over
<1>4. nodes[m] \in Node /\ KidsIn(old, Len(nodes))
  BY <1>1, <1>2, ChildrenIn
<1>5. nodes[m].span = [start |-> Top.op - 1, len |-> 1]
  BY <1>1 DEF FrameSpans
<1>6. /\ Row(nodes, old, b, mk)
      /\ place = "argument" => old # <<>> /\ (Tight => Fills(nodes[old[1]].span, b, Top.op))
  <2>1. CASE place = "argument"
    BY <1>1, <1>4, <2>1 DEF FrameSpans, Row
  <2>2. CASE place = "group"
    <3>1. old = <<>>
      BY <1>1, <2>2 DEF FrameSpans
    <3> QED BY <1>4, <2>2, <3>1 DEF Apart, Row
  <2> QED BY <2>1, <2>2
<1>7. b <= mk /\ mk <= pos /\ pos \in Nat /\ (ret # 0 => Fits(nodes[ret].span, mk, pos))
  BY <1>1 DEF Produced
<1>8. Row(nodes, kids, b, pos) /\ Extends(kids, old, ret)
  BY <1>1, <1>6, <1>7, KidAdded
<1>9. \A i \in 1..Len(old) : old[i] # m
  <2>1. \A i \in 1..Len(old) : Child(nodes, m, i, old[i])
    BY <1>2 DEF Child
  <2> QED BY <1>3, <2>1 DEF Orphan
<1>10. ret # 0 => ret # m
  BY <1>1, <1>2
<1>11. \A i \in 1..Len(kids) : kids[i] # m
  BY <1>8, <1>9, <1>10 DEF Extends
<1>12. old # <<>> => kids # <<>> /\ 1 \in 1..Len(kids) /\ kids[1] = old[1]
  <2>1. kids # <<>> => Len(kids) # 0
    BY <1>8, EmptySeq DEF Row, KidsIn
  <2>2. Len(kids) \in Nat
    BY <1>8, LenProperties DEF Row, KidsIn
  <2> QED BY <1>8, <2>1, <2>2 DEF Extends
<1> QED BY <1>2, <1>3, <1>4, <1>5, <1>6, <1>8, <1>11, <1>12

\* A node is rewritten with its children.
Rewrites(next, m, node) ==
  /\ m \in 1..Len(nodes) /\ Orphan(nodes, m) /\ next = [nodes EXCEPT ![m] = node]
  /\ KidsIn(node.kids, Len(nodes)) /\ Apart(nodes, node.kids)
  /\ \A i \in 1..Len(node.kids) : node.kids[i] # m
OnlyFresh(next, m) == \A n \in 1..Len(next) : Fresh(n, m) => n = m
Holds(n) == \A i \in 1..Len(n.kids) : Inside(nodes[n.kids[i]].span, n.span)
Same(next, kids) == \A i \in 1..Len(kids) : next[kids[i]] = nodes[kids[i]]

LEMMA RewrittenNests ==
  ASSUME ParserInv, ParserInv', NEW m, NEW node, Rewrites(nodes', m, node)
  PROVE  /\ Changed(nodes, nodes', m) /\ nodes'[m] = node
         /\ OnlyFresh(nodes', m) /\ Same(nodes', node.kids) /\ Apart(nodes', node.kids)
         /\ Holds(node) => Nests(nodes', m)
<1>0. /\ m \in 1..Len(nodes) /\ Orphan(nodes, m) /\ nodes' = [nodes EXCEPT ![m] = node]
      /\ KidsIn(node.kids, Len(nodes)) /\ Apart(nodes, node.kids)
      /\ \A i \in 1..Len(node.kids) : node.kids[i] # m
  BY DEF Rewrites
<1>1. nodes \in Seq(Node) /\ Len(nodes) \in Nat /\ nodes' \in Seq(Node)
  BY NodesLen DEF ParserInv, ControlOK, Forest
<1>2. /\ Len(nodes') = Len(nodes) /\ nodes'[m] = node
      /\ \A n \in 1..Len(nodes) : n # m => nodes'[n] = nodes[n]
  BY <1>0, <1>1
<1>3. Changed(nodes, nodes', m)
  BY <1>0, <1>1, <1>2 DEF Changed
<1>4. \A i \in 1..Len(node.kids) : nodes'[node.kids[i]] = nodes[node.kids[i]]
  BY <1>0, <1>2 DEF KidsIn
<1>5. \A n \in 1..Len(nodes') : Fresh(n, m) => n = m
  BY <1>0, <1>1, <1>2 DEF Fresh
<1>6. Len(node.kids) \in Nat
  BY <1>0, LenProperties DEF KidsIn
<1>7. \A i \in 1..Len(node.kids) : \A j \in 1..i - 1 : j \in 1..Len(node.kids)
  BY <1>6
<1>8. Apart(nodes', node.kids)
  BY <1>0, <1>4, <1>7 DEF Apart
<1>9. Holds(node) => Nests(nodes', m)
  BY <1>2, <1>4, <1>8 DEF Nests, Holds
<1>10. OnlyFresh(nodes', m) /\ Same(nodes', node.kids)
  BY <1>4, <1>5 DEF OnlyFresh, Same
<1> QED BY <1>2, <1>3, <1>8, <1>9, <1>10

LEMMA CompletedSpans ==
  ASSUME ParserInv, ParserInv', SpansInv, NEW place \in {"group", "argument"}, Returned(place),
         Top.node # 0, NEW p \in 1..Len(toks), pos <= p, Tight' => Tight, start' = start,
         nodes' = [nodes EXCEPT ![Top.node] = Completed(Top.node, p)]
  PROVE  /\ Moving(Top.node) /\ Top.node \in Nat
         /\ \A n \in 1..Len(nodes') : Fresh(n, Top.node) => Nests(nodes', n)
         /\ nodes'[Top.node].span.len > 0 /\ From(Len(stack)) <= p
         /\ Fits(nodes'[Top.node].span, From(Len(stack)), p)
         /\ Tight => Fills(nodes'[Top.node].span, From(Len(stack)), p)
<1> PICK m : m = Top.node
  OBVIOUS
<1> PICK kids : kids = WithKid(nodes[m].kids, ret)
  OBVIOUS
<1> PICK b : b = From(Len(stack))
  OBVIOUS
<1> PICK mk : mk = IF place = "argument" THEN Top.mark ELSE Top.op + 1
  OBVIOUS
<1> PICK op : op = Top.op
  OBVIOUS
<1>1. /\ nodes \in Seq(Node) /\ Len(nodes) \in Nat /\ stack # <<>> /\ TokensOK
      /\ Top.wait = place /\ pos \in 1..Len(toks) /\ Len(toks) \in Nat
      /\ b \in Nat \ {0} /\ op \in Nat /\ b <= op /\ mk \in Nat /\ op < mk
      /\ FrameSpans(Top, nodes, b, Tight) /\ Produced(nodes, ret, mk, pos, AtEof, Tight)
  BY ReturnFacts DEF Waits
<1>2. /\ m = Held(Top) /\ m \in 1..Len(nodes) /\ Orphan(nodes, m) /\ nodes[m] \in Node
      /\ nodes[m].span = [start |-> op - 1, len |-> 1]
      /\ Row(nodes, kids, b, pos) /\ (\A i \in 1..Len(kids) : kids[i] # m)
      /\ place = "argument" => /\ kids # <<>> /\ 1 \in 1..Len(kids)
                               /\ Tight => Fills(nodes[kids[1]].span, b, op)
  BY GrownKids
<1>20. /\ KidsIn(kids, Len(nodes)) /\ Apart(nodes, kids)
       /\ \A i \in 1..Len(kids) : Fits(nodes[kids[i]].span, b, pos)
  BY <1>2 DEF Row
<1> PICK open : open = [nodes[m] EXCEPT !.kids = kids]
  OBVIOUS
<1>3. /\ open \in Node /\ open.kids = kids /\ open.span = nodes[m].span
      /\ open.span.start = op - 1 /\ open.span.len = 1
  <2>1. nodes[m] \in Node /\ kids \in Seq(Nat)
    BY <1>2, <1>20 DEF KidsIn
  <2>2. nodes[m].span.start = op - 1 /\ nodes[m].span.len = 1
    BY <1>2
  <2> QED BY <2>1, <2>2 DEF Node
<1> PICK node : node = Finished(open, p)
  OBVIOUS
<1>4. node = Completed(m, p) /\ p \in Nat \ {0}
  BY DEF Completed
<1>5. node \in Node /\ node.kids = kids
  <2>1. nodes \in Seq(Node) /\ open \in Node /\ p \in Nat \ {0} /\ KidsIn(open.kids, Len(nodes))
    BY <1>1, <1>20, <1>3, <1>4
  <2> QED BY <1>3, <2>1, FinishedOK
<1>6. op + 1 <= pos /\ pos \in Nat /\ pos <= p
  <2>1. mk <= pos
    BY <1>1 DEF Produced
  <2>2. mk \in Nat /\ op \in Nat /\ op < mk /\ pos \in Nat /\ pos <= p
    BY <1>1
  <2> QED BY <2>1, <2>2
<1>7. /\ SpanOf(p - 1) \in Span /\ SpanOf(p - 1).start = p - 2 /\ SpanOf(p - 1).len = 1
      /\ SpanEnd(SpanOf(p - 1)) = p - 1 /\ p > 1
  <2>1. op \in Nat /\ pos \in Nat /\ p \in Nat /\ op + 1 <= pos /\ pos <= p /\ op # 0
    BY <1>1, <1>4, <1>6
  <2>2. p - 1 \in Nat \ {0} /\ p - 1 < p /\ p > 1 /\ p - 1 - 1 = p - 2
    BY <2>1
  <2> QED BY <1>1, <2>2, TokenBefore
<1>8. SpanOf(p - 1).start >= open.span.start
  <2>1. op \in Nat /\ p \in Nat /\ op + 1 <= p
    BY <1>1, <1>4, <1>6
  <2>2. SpanOf(p - 1).start = p - 2 /\ open.span.start = op - 1
    BY <1>3, <1>7
  <2> QED BY <2>1, <2>2
<1> PICK u : u = node.span
  OBVIOUS
<1>9. /\ u \in Span /\ Inside(open.span, u) /\ Inside(SpanOf(p - 1), u)
      /\ \A i \in 1..Len(kids) : Inside(nodes[kids[i]].span, u)
      /\ \A from, to \in Int :
           /\ Fits(open.span, from, to) /\ Fits(SpanOf(p - 1), from, to)
           /\ \A i \in 1..Len(kids) : Fits(nodes[kids[i]].span, from, to)
           => Fits(u, from, to)
  <2>1. open.span.len > 0
    BY <1>3
  <2>2. Covers(open, u, p)
    BY <1>1, <1>20, <1>3, <1>4, <2>1, FinishedCovers
  <2>3. u \in Span /\ Inside(open.span, u) /\ Inside(SpanOf(p - 1), u)
    BY <1>7, <1>8, <2>2 DEF Covers
  <2>4. \A i \in 1..Len(kids) : Inside(nodes[kids[i]].span, u)
    BY <1>3, <2>2 DEF Covers
  <2>5. ASSUME NEW from \in Int, NEW to \in Int,
               Fits(open.span, from, to), Fits(SpanOf(p - 1), from, to),
               \A i \in 1..Len(kids) : Fits(nodes[kids[i]].span, from, to)
        PROVE  Fits(u, from, to)
    BY <1>3, <1>7, <1>8, <2>2, <2>5 DEF Covers
  <2> QED BY <2>3, <2>4, <2>5
<1>10. Fits(open.span, b, p) /\ Fits(SpanOf(p - 1), b, p) /\ b <= p /\ b < p
  <2>1. SpanEnd(open.span) = op /\ open.span.start = op - 1
    BY <1>1, <1>3 DEF SpanEnd
  <2>2. b \in Nat /\ op \in Nat /\ p \in Nat /\ b <= op /\ op + 1 <= p
    BY <1>1, <1>4, <1>6
  <2>3. Fits(open.span, b, p) /\ b <= p /\ b < p
    BY <2>1, <2>2 DEF Fits
  <2>4. SpanOf(p - 1).start = p - 2 /\ SpanEnd(SpanOf(p - 1)) = p - 1
    BY <1>7
  <2>5. Fits(SpanOf(p - 1), b, p)
    BY <2>2, <2>3, <2>4 DEF Fits
  <2> QED BY <2>3, <2>5
<1>11. \A k \in 1..Len(nodes) : nodes[k].span \in Span /\ SpanEnd(nodes[k].span) \in Nat
  <2> TAKE k \in 1..Len(nodes)
  <2>1. nodes[k] \in Node
    BY <1>1, ElementOfSeq
  <2>2. nodes[k].span \in Span
    BY <2>1 DEF Node
  <2> QED BY <2>2, SpanFields
<1>12. Fits(u, b, p)
  <2>1. ASSUME NEW i \in 1..Len(kids) PROVE Fits(nodes[kids[i]].span, b, p)
    <3>1. Fits(nodes[kids[i]].span, b, pos) /\ nodes[kids[i]].span \in Span
      BY <1>20, <1>11 DEF KidsIn
    <3>2. b \in Int /\ pos \in Int /\ p \in Int /\ b <= b /\ pos <= p
      BY <1>1, <1>4, <1>6
    <3> QED BY <3>1, <3>2, FitsWider
  <2>2. b \in Int /\ p \in Int
    BY <1>1, <1>4
  <2> QED BY <1>9, <1>10, <2>1, <2>2
<1>13. u.len > 0
  <2>1. Inside(open.span, u) /\ u \in Span /\ open.span.len = 1
    BY <1>3, <1>9
  <2>2. open.span \in Span
    BY <1>3 DEF Node
  <2> QED BY <2>1, <2>2 DEF Inside, SpanEnd, Span
<1>14. ASSUME Tight PROVE Fills(u, b, p)
  <2>1. SpanOf(p - 1).len > 0 /\ p \in Nat \ {0} /\ b \in Nat \ {0}
    BY <1>1, <1>4, <1>7
  <2>2. CASE place = "group"
    <3>1. op = b
      BY <1>1, <2>2 DEF FrameSpans
    <3>2. open.span \in Span /\ open.span.len > 0 /\ open.span.start = b - 1
      BY <1>3, <3>1 DEF Node
    <3> QED BY <1>7, <1>9, <1>10, <1>12, <2>1, <3>2, ReachesBoth
  <2>3. CASE place = "argument"
    <3> PICK s : s = nodes[kids[1]].span
      OBVIOUS
    <3>1. 1 \in 1..Len(kids) /\ Fills(s, b, op)
      BY <1>2, <1>14, <2>3
    <3>2. kids[1] \in 1..Len(nodes)
      BY <1>20, <3>1 DEF KidsIn
    <3>3. s \in Span /\ Inside(s, u)
      BY <1>9, <1>11, <3>1, <3>2
    <3>4. s.len > 0 /\ s.start = b - 1
      <4>1. b \in Nat /\ op \in Nat
        BY <1>1
      <4> QED BY <3>1, <3>3, <4>1, FillsSolid
    <3> QED BY <1>7, <1>9, <1>10, <1>12, <2>1, <3>3, <3>4, ReachesBoth
  <2> QED BY <2>2, <2>3
<1>15. nodes' = [nodes EXCEPT ![m] = node]
  BY <1>4
<1>16. /\ Changed(nodes, nodes', m) /\ nodes'[m] = node /\ Nests(nodes', m)
       /\ OnlyFresh(nodes', m)
  <2>1. Rewrites(nodes', m, node)
    BY <1>2, <1>5, <1>15, <1>20 DEF Rewrites
  <2>2. Holds(node)
    BY <1>5, <1>9 DEF Holds
  <2> QED BY <2>1, <2>2, RewrittenNests
<1>17. Moving(m)
  BY <1>1, <1>2, <1>16 DEF Moving
<1>18. \A n \in 1..Len(nodes') : Fresh(n, m) => Nests(nodes', n)
  BY <1>16 DEF OnlyFresh
<1>19. nodes'[m].span = u
  BY <1>16
<1> HIDE DEF Moving
<1>21. /\ m \in Nat /\ nodes'[m].span.len > 0 /\ b <= p /\ Fits(nodes'[m].span, b, p)
       /\ Tight => Fills(nodes'[m].span, b, p)
  <2>1. m \in Nat
    BY <1>1, <1>2
  <2> QED BY <1>10, <1>12, <1>13, <1>14, <1>19, <2>1
<1> QED BY <1>17, <1>18, <1>21, Zenon

LEMMA CloseGroupSpans == ASSUME ParserInv, ParserInv', SpansInv, CloseGroup PROVE SpansInv'
<1>1. Returned("group") /\ UNCHANGED driver /\ HavePrefix(Top.node)
  BY DEF CloseGroup
<1>2. PICK after :
        /\ after \in Expecting(")", "expected )")
        /\ pos' = after.pos /\ diags' = after.diags
        /\ nodes' = IF Top.node = 0 THEN nodes
                    ELSE [nodes EXCEPT ![Top.node] = Completed(Top.node, after.pos)]
  BY DEF CloseGroup
<1> PICK p : p = pos'
  OBVIOUS
<1>3. /\ InputOK /\ ControlOK /\ stack # <<>> /\ Top.wait = "group" /\ pos \in Nat
      /\ pos \in 1..Len(toks) /\ FrameSpans(Top, nodes, From(Len(stack)), Tight)
      /\ From(Len(stack)) <= pos
  <2>1. "group" \in Waits \ {"none"}
    BY DEF Waits
  <2> PICK b : b = From(Len(stack))
    OBVIOUS
  <2>2. /\ InputOK /\ ControlOK /\ stack # <<>> /\ Top.wait = "group"
        /\ pos \in 1..Len(toks) /\ FrameSpans(Top, nodes, b, Tight)
        /\ b \in Nat /\ Top.op \in Nat /\ b <= Top.op /\ Len(toks) \in Nat
        /\ Produced(nodes, ret, Top.op + 1, pos, AtEof, Tight)
    BY <1>1, <2>1, ReturnFacts
  <2>3. pos \in Nat
    BY <2>2
  <2>4. Top.op + 1 <= pos
    BY <2>2 DEF Produced
  <2>5. b <= pos
    <3> PICK o : o = Top.op
      OBVIOUS
    <3>1. b \in Nat /\ o \in Nat /\ b <= o /\ o + 1 <= pos
      BY <2>2, <2>4
    <3> QED BY <2>3, <3>1
  <2> QED BY <2>2, <2>3, <2>5
<1>4. /\ (Tight' => Tight) /\ start' = start /\ toks' = toks
      /\ p \in 1..Len(toks) /\ (p = pos \/ p = pos + 1) /\ after.pos = p
  <2>1. ")" # "eof" /\ "expected )" \in Messages
    BY DEF Messages
  <2>2. /\ (Tight' => Tight) /\ start' = start /\ toks' = toks
        /\ pos' \in 1..Len(toks) /\ (pos' = pos \/ pos' = pos + 1)
    BY <1>1, <1>2, <1>3, <2>1, TightExpecting
  <2> QED BY <1>2, <2>2, Zenon
<1>5. pos <= p
  BY <1>3, <1>4
<1>6. CASE Top.node = 0
  <2>1. Leave(0) /\ nodes' = nodes
    BY <1>1, <1>2, <1>6 DEF HavePrefix
  <2>2. ~Tight /\ ~Tight'
    BY <1>3, <1>4, <1>6 DEF FrameSpans
  <2>3. Changed(nodes, nodes', 0) /\ \A n \in 1..Len(nodes') : ~Fresh(n, 0)
    BY <2>1, SameNodes
  <2>4. From(Len(stack)) <= pos'
    <3> PICK b : b = From(Len(stack))
      OBVIOUS
    <3>1. b \in Nat /\ b <= pos /\ p \in Nat
      BY <1>3, <1>4, FromOK
    <3>2. b <= p
      BY <1>3, <1>5, <3>1
    <3> QED BY <3>2
  <2>5. Produced(nodes', 0, From(Len(stack)), pos', AtEof', Tight')
    BY <2>2, <2>4 DEF Produced
  <2>6. Moving(0)
    BY <1>3, <1>4, <2>3 DEF Moving
  <2> QED BY <1>3, <2>1, <2>3, <2>5, <2>6, LeaveSpans
<1>7. CASE Top.node # 0
  <2> PICK m : m = Top.node
    OBVIOUS
  <2>1. nodes' = [nodes EXCEPT ![Top.node] = Completed(Top.node, p)]
    BY <1>2, <1>7
  <2>2. /\ Moving(m) /\ m \in Nat
        /\ \A n \in 1..Len(nodes') : Fresh(n, m) => Nests(nodes', n)
        /\ nodes'[m].span.len > 0 /\ From(Len(stack)) <= p
        /\ Fits(nodes'[m].span, From(Len(stack)), p)
        /\ Tight => Fills(nodes'[m].span, From(Len(stack)), p)
    <3>1. "group" \in {"group", "argument"}
      OBVIOUS
    <3> QED BY <1>1, <1>4, <1>5, <1>7, <2>1, <3>1, CompletedSpans
  <2>3. Produced(nodes', m, From(Len(stack)), pos', AtEof', Tight')
    BY <1>4, <1>7, <2>2 DEF Produced
  <2>4. HavePrefix(m)
    BY <1>1
  <2> QED BY <1>3, <2>2, <2>3, <2>4, HavePrefixSpans
<1> QED BY <1>6, <1>7

LEMMA CloseCallSpans == ASSUME ParserInv, ParserInv', SpansInv, CloseCall PROVE SpansInv'
<1>0. PICK comma \in BOOLEAN : comma <=> (pos > Top.mark /\ toks[pos] = ",")
  OBVIOUS
<1>1. /\ Returned("argument") /\ UNCHANGED driver /\ Continue(Top.node)
      /\ comma => toks[pos + 1] = ")"
  BY <1>0 DEF CloseCall, MoreArguments
<1>2. PICK after :
        /\ after \in IF comma THEN {[pos |-> pos + 2, diags |-> diags]}
                    ELSE Expecting(")", "expected closing")
        /\ pos' = after.pos /\ diags' = after.diags
        /\ nodes' = [nodes EXCEPT ![Top.node] = Completed(Top.node, after.pos)]
  BY <1>0 DEF CloseCall
<1> PICK p : p = pos'
  OBVIOUS
<1>3. /\ InputOK /\ ControlOK /\ stack # <<>> /\ Top.wait = "argument"
      /\ pos \in 1..Len(toks) /\ TokensOK /\ Len(toks) \in Nat /\ Top.node # 0
  <2>1. "argument" \in Waits \ {"none"}
    BY DEF Waits
  <2>2. /\ InputOK /\ ControlOK /\ stack # <<>> /\ Top.wait = "argument" /\ TokensOK
        /\ pos \in 1..Len(toks) /\ Len(toks) \in Nat /\ FrameOK(Top, Len(nodes), Len(toks))
    BY <1>1, <2>1, ReturnFacts
  <2> QED BY <2>2 DEF FrameOK
<1>4. (Tight' => Tight) /\ start' = start /\ toks' = toks
  <2>1. CASE comma
    <3>1. diags' = diags
      BY <1>2, <2>1
    <3> QED BY <1>1, <3>1, TightKept
  <2>2. CASE ~comma
    <3>1. after \in Expecting(")", "expected closing")
      BY <1>2, <2>2
    <3>2. ")" # "eof" /\ "expected closing" \in Messages
      BY DEF Messages
    <3> QED BY <1>1, <1>2, <1>3, <3>1, <3>2, TightExpecting
  <2> QED BY <2>1, <2>2
<1>8. p \in 1..Len(toks) /\ pos <= p
  <2>1. p \in 1..Len(toks)
    <3>1. pos' \in 1..Len(toks')
      BY DEF ParserInv, InputOK
    <3> QED BY <1>4, <3>1
  <2>2. p = pos \/ p = pos + 1 \/ p = pos + 2
    <3>1. CASE comma
      BY <1>2, <3>1
    <3>2. CASE ~comma
      <4>1. \E symbol, msg : after \in Expecting(symbol, msg)
        BY <1>2, <3>2
      <4>2. PICK symbol, msg : after \in Expecting(symbol, msg)
        BY <4>1
      <4>3. p = after.pos
        BY <1>2
      <4> QED BY <4>2, <4>3 DEF Expecting
    <3> QED BY <3>1, <3>2
  <2>3. pos \in Nat
    BY <1>3
  <2> QED BY <2>1, <2>2, <2>3
<1> PICK m : m = Top.node
  OBVIOUS
<1>5. nodes' = [nodes EXCEPT ![Top.node] = Completed(Top.node, p)]
  BY <1>2
<1>6. /\ Moving(m) /\ m \in Nat
      /\ \A n \in 1..Len(nodes') : Fresh(n, m) => Nests(nodes', n)
      /\ nodes'[m].span.len > 0 /\ From(Len(stack)) <= p
      /\ Fits(nodes'[m].span, From(Len(stack)), p)
      /\ Tight => Fills(nodes'[m].span, From(Len(stack)), p)
  <2>1. "argument" \in {"group", "argument"}
    OBVIOUS
  <2> QED BY <1>1, <1>3, <1>4, <1>5, <1>8, <2>1, CompletedSpans
<1>7. Produced(nodes', m, From(Len(stack)), pos', AtEof', Tight')
  BY <1>3, <1>4, <1>6 DEF Produced
<1> QED BY <1>1, <1>3, <1>6, <1>7, ContinueSpans

LEMMA FinishPrefixSpans == ASSUME ParserInv, ParserInv', SpansInv, FinishPrefix PROVE SpansInv'
<1> PICK m : m = Top.node
  OBVIOUS
<1> PICK node : node = MakeNode("unary", Top.op, SpanUnion(SpanOf(Top.op), SpanIn(ret)),
                                WithKid(<<>>, ret))
  OBVIOUS
<1> PICK b : b = From(Len(stack))
  OBVIOUS
<1> PICK op : op = Top.op
  OBVIOUS
<1> PICK l, r : l = SpanOf(op) /\ r = SpanIn(ret)
  OBVIOUS
<1>1. /\ Returned("prefix") /\ UNCHANGED driver /\ HavePrefix(m) /\ pos' = pos
      /\ diags' = diags
      /\ nodes' = IF m = 0 THEN nodes ELSE [nodes EXCEPT ![m] = node]
  BY DEF FinishPrefix
<1>2. /\ InputOK /\ ControlOK /\ nodes \in Seq(Node) /\ stack # <<>>
      /\ Len(nodes) \in Nat /\ TokensOK /\ pos \in 1..Len(toks) /\ Len(toks) \in Nat
      /\ Top.wait = "prefix" /\ FrameOK(Top, Len(nodes), Len(toks))
      /\ b \in Nat \ {0} /\ op \in Nat
      /\ FrameSpans(Top, nodes, b, Tight)
      /\ ret \in 0..Len(nodes) /\ (ret # 0 => Held(Top) < ret)
      /\ r \in Span /\ (ret # 0 => r = nodes[ret].span)
      /\ Produced(nodes, ret, op + 1, pos, AtEof, Tight)
  <2>1. "prefix" \in Waits \ {"none"} /\ "prefix" # "argument"
    BY DEF Waits
  <2> QED BY <1>1, <2>1, ReturnFacts
<1>3. op = b /\ b + 1 <= pos /\ pos \in Nat
  BY <1>2 DEF FrameSpans, Produced
<1>4. (Tight' => Tight) /\ start' = start /\ toks' = toks
  BY <1>1, TightKept
<1>5. CASE m = 0
  <2>1. Leave(0) /\ nodes' = nodes
    BY <1>1, <1>5 DEF HavePrefix
  <2>2. ~Tight /\ ~Tight'
    BY <1>2, <1>4, <1>5 DEF FrameSpans
  <2>3. Changed(nodes, nodes', 0) /\ \A n \in 1..Len(nodes') : ~Fresh(n, 0)
    BY <2>1, SameNodes
  <2>4. b <= pos /\ pos' = pos
    BY <1>1, <1>2, <1>3
  <2>5. Produced(nodes', 0, b, pos', AtEof', Tight')
    BY <2>2, <2>4 DEF Produced
  <2>6. Moving(0)
    BY <1>2, <1>4, <2>3 DEF Moving
  <2> QED BY <1>2, <2>1, <2>3, <2>5, <2>6, LeaveSpans
<1>6. CASE m # 0
  <2>1. m = Held(Top) /\ m \in 1..Len(nodes) /\ m \in Nat
    BY <1>2, <1>6 DEF Held, FrameOK
  <2>2. Orphan(nodes, m)
    BY <1>2, <2>1, TopGood DEF Over
  <2>3. /\ l \in Span /\ l.start = b - 1 /\ l.len = 1 /\ SpanEnd(l) = b
    <3>1. b < pos
      BY <1>2, <1>3
    <3> QED BY <1>2, <1>3, <3>1, TokenBefore
  <2> PICK u : u = SpanUnion(l, r)
    OBVIOUS
  <2>4. ret # 0 => Fits(r, b + 1, pos)
    BY <1>2, <1>3 DEF Produced
  <2>5. r.len > 0 => Fits(r, b, pos) /\ ret # 0
    <3>1. ret = 0 => r.len = 0
      BY DEF SpanIn, NoSpan
    <3>2. r.start \in Nat
      BY <1>2, SpanFields
    <3> QED BY <1>2, <1>3, <2>4, <3>1, <3>2 DEF Fits
  <2>6. Fits(l, b, pos)
    BY <1>2, <1>3, <2>3 DEF Fits
  <2>7. u \in Span /\ Inside(l, u) /\ Inside(r, u) /\ Fits(u, b, pos)
    <3>1. b \in Int /\ pos \in Int /\ l.len > 0
      BY <1>2, <1>3, <2>3
    <3> QED BY <1>2, <2>3, <2>5, <2>6, <3>1, UnionSpans
  <2>8. u.len > 0
    BY <2>3, <2>7 DEF Inside
  <2>9. ASSUME Tight PROVE Fills(u, b, pos)
    <3>1. Fills(r, b + 1, pos) /\ ret # 0
      BY <1>2, <1>3, <2>9 DEF Produced
    <3>2. b + 1 \in Nat /\ pos \in Nat \ {0} /\ l.len > 0 /\ b < pos
      BY <1>2, <1>3, <2>3
    <3>3. r.len > 0 /\ SpanEnd(r) = pos - 1
      BY <1>2, <3>1, <3>2, FillsSolid
    <3> QED BY <1>2, <2>3, <2>7, <3>2, <3>3, ReachesBoth
  <2> PICK kids : kids = WithKid(<<>>, ret)
    OBVIOUS
  <2>10. node.kids = kids /\ node.span = u
    <3>1. node.span = SpanUnion(l, r)
      BY DEF MakeNode
    <3> QED BY <3>1 DEF MakeNode
  <2>11. Row(nodes, kids, b, pos) /\ Extends(kids, <<>>, ret)
    <3>1. Row(nodes, <<>>, b, b + 1)
      <4>1. <<>> \in Seq(Nat) /\ Len(<<>>) = 0
        OBVIOUS
      <4> QED BY <4>1 DEF Row, KidsIn, Apart
    <3>2. b + 1 \in Nat /\ b <= b + 1
      BY <1>2
    <3> QED BY <1>2, <1>3, <2>4, <3>1, <3>2, KidAdded
  <2>12. \A i \in 1..Len(kids) : kids[i] = ret /\ ret # 0
    <3>1. Len(<<>>) = 0
      OBVIOUS
    <3> QED BY <2>11, <3>1 DEF Extends
  <2>13. Rewrites(nodes', m, node)
    <3>1. ret # 0 => ret # m
      BY <1>2, <2>1
    <3>2. nodes' = [nodes EXCEPT ![m] = node]
      BY <1>1, <1>6
    <3> QED BY <2>1, <2>2, <2>10, <2>11, <2>12, <3>1, <3>2 DEF Rewrites, Row
  <2>14. Holds(node)
    BY <1>2, <2>7, <2>10, <2>12 DEF Holds
  <2>15. Changed(nodes, nodes', m) /\ nodes'[m] = node /\ OnlyFresh(nodes', m) /\ Nests(nodes', m)
    BY <2>13, <2>14, RewrittenNests
  <2>16. \A n \in 1..Len(nodes') : Fresh(n, m) => Nests(nodes', n)
    BY <2>15 DEF OnlyFresh
  <2>17. Moving(m)
    BY <1>2, <1>4, <2>1, <2>15 DEF Moving
  <2>18. b <= pos
    BY <1>2, <1>3
  <2>19. Produced(nodes', m, b, pos', AtEof', Tight')
    BY <1>1, <1>4, <1>6, <2>7, <2>8, <2>9, <2>10, <2>15, <2>18 DEF Produced
  <2> QED BY <1>1, <1>2, <2>1, <2>16, <2>17, <2>19, HavePrefixSpans
<1> QED BY <1>5, <1>6

LEMMA FinishInfixSpans == ASSUME ParserInv, ParserInv', SpansInv, FinishInfix PROVE SpansInv'
<1> PICK node : node = MakeNode("binary", Top.op, SpanUnion(SpanIn(Top.lhs), SpanIn(ret)),
                                WithKid(<<Top.lhs>>, ret))
  OBVIOUS
<1> PICK b : b = From(Len(stack))
  OBVIOUS
<1> PICK op : op = Top.op
  OBVIOUS
<1> PICK lhs : lhs = Top.lhs
  OBVIOUS
<1> PICK l, r : l = SpanIn(lhs) /\ r = SpanIn(ret)
  OBVIOUS
<1> PICK u : u = SpanUnion(l, r)
  OBVIOUS
<1> PICK kids : kids = WithKid(<<lhs>>, ret)
  OBVIOUS
<1> PICK chained \in BOOLEAN : chained <=> Chained(OperatorFor(toks[Top.op], "infix"))
  OBVIOUS
<1>1. /\ Returned("infix") /\ UNCHANGED driver /\ pos' = pos
  BY DEF FinishInfix
<1>2. PICK id \in Allocated :
        /\ nodes' = Store(id, node)
        /\ IF id # 0 /\ chained
           THEN diags' \in Reported(diags, "cannot be chained", pos) /\ Leave(id)
           ELSE HavePrefix(id) /\ UNCHANGED diags
  BY DEF FinishInfix
<1>3. /\ InputOK /\ ControlOK /\ nodes \in Seq(Node) /\ stack # <<>>
      /\ Len(nodes) \in Nat /\ TokensOK /\ pos \in 1..Len(toks) /\ Len(toks) \in Nat
      /\ Top.wait = "infix" /\ FrameOK(Top, Len(nodes), Len(toks))
      /\ b \in Nat \ {0} /\ op \in Nat /\ b <= op
      /\ FrameSpans(Top, nodes, b, Tight)
      /\ ret \in 0..Len(nodes) /\ (ret # 0 => Held(Top) < ret)
      /\ r \in Span /\ (ret # 0 => r = nodes[ret].span)
      /\ Produced(nodes, ret, op + 1, pos, AtEof, Tight)
  <2>1. "infix" \in Waits \ {"none"} /\ "infix" # "argument"
    BY DEF Waits
  <2> QED BY <1>1, <2>1, ReturnFacts
<1>4. op + 1 <= pos /\ pos \in Nat /\ op + 1 \in Nat /\ b <= op + 1
  BY <1>3 DEF Produced
<1>5. lhs \in 1..Len(nodes) /\ lhs \in Nat /\ lhs # 0
  BY <1>3 DEF FrameOK
<1>6. /\ l \in Span /\ l = nodes[lhs].span /\ l.len > 0 /\ Fits(l, b, op)
      /\ Tight => Fills(l, b, op)
  <2>1. l = nodes[lhs].span
    BY <1>5 DEF SpanIn
  <2>2. nodes[lhs] \in Node
    BY <1>3, <1>5, ElementOfSeq
  <2>3. l \in Span
    BY <2>1, <2>2 DEF Node
  <2> QED BY <1>3, <2>1, <2>3 DEF FrameSpans
<1>7. Fits(l, b, op + 1) /\ Fits(l, b, pos) /\ l.start \in Nat
  <2>1. b \in Int /\ op \in Int /\ op + 1 \in Int /\ pos \in Int
        /\ b <= b /\ op <= op + 1 /\ op <= pos
    BY <1>3, <1>4
  <2>2. l \in Span /\ Fits(l, b, op)
    BY <1>6
  <2>3. Fits(l, b, op + 1) /\ Fits(l, b, pos)
    BY <2>1, <2>2, FitsWider
  <2> QED BY <2>2, <2>3, SpanFields
<1>8. ret # 0 => Fits(r, op + 1, pos)
  BY <1>3 DEF Produced
<1>9. r.len > 0 => Fits(r, b, pos)
  <2>1. ret = 0 => r.len = 0
    BY DEF SpanIn, NoSpan
  <2>2. r \in Span /\ b \in Int /\ op + 1 \in Int /\ pos \in Int /\ b <= op + 1 /\ pos <= pos
    BY <1>3, <1>4
  <2>3. ret # 0 => Fits(r, b, pos)
    BY <1>8, <2>2, FitsWider
  <2> QED BY <2>1, <2>3
<1>10. u \in Span /\ Inside(l, u) /\ Inside(r, u) /\ Fits(u, b, pos)
  <2>1. b \in Int /\ pos \in Int
    BY <1>3, <1>4
  <2> QED BY <1>3, <1>6, <1>7, <1>9, <2>1, UnionSpans
<1>11. u.len > 0
  BY <1>6, <1>10 DEF Inside
<1>12. ASSUME Tight PROVE Fills(u, b, pos)
  <2>1. Fills(r, op + 1, pos) /\ Fills(l, b, op)
    BY <1>3, <1>6, <1>12 DEF Produced
  <2>2. pos \in Nat \ {0} /\ b < pos /\ b \in Nat
    BY <1>3, <1>4
  <2>3. r.len > 0 /\ SpanEnd(r) = pos - 1 /\ l.start = b - 1
    BY <1>3, <1>4, <1>6, <2>1, <2>2, FillsSolid
  <2> QED BY <1>3, <1>6, <1>10, <2>2, <2>3, ReachesBoth
<1>13. Row(nodes, kids, b, pos) /\ Extends(kids, <<lhs>>, ret)
  <2>1. Apart(nodes, <<lhs>>) /\ Len(<<lhs>>) = 1 /\ <<lhs>>[1] = lhs
    BY OneKidApart
  <2>2. \A i \in 1..1 : i = 1
    OBVIOUS
  <2>3. <<lhs>> \in Seq(Nat)
    BY <1>5
  <2>4. Row(nodes, <<lhs>>, b, op + 1)
    BY <1>5, <1>6, <1>7, <2>1, <2>2, <2>3 DEF Row, KidsIn
  <2> QED BY <1>3, <1>4, <1>8, <2>4, KidAdded
<1>14. KidsIn(kids, Len(nodes)) /\ Apart(nodes, kids) /\ kids \in Seq(Nat)
  BY <1>13 DEF Row, KidsIn
<1>15. \A i \in 1..Len(kids) : (kids[i] = ret /\ ret # 0) \/ kids[i] = lhs
  <2>1. Len(<<lhs>>) = 1 /\ <<lhs>>[1] = lhs
    OBVIOUS
  <2> QED BY <1>13, <2>1 DEF Extends
<1>16. node \in Node /\ node.kids = kids /\ node.span = u
  <2>1. "binary" \in Kinds /\ node = MakeNode("binary", op, u, kids)
    BY DEF Kinds
  <2> QED BY <1>3, <1>10, <1>14, <2>1, MakeNodeOK DEF MakeNode
<1>17. \A i \in 1..Len(node.kids) : Inside(nodes[node.kids[i]].span, node.span)
  BY <1>3, <1>6, <1>10, <1>15, <1>16
<1>18. /\ Changed(nodes, nodes', 0) /\ id \in Nat /\ (id = 0 => mayFail)
       /\ (id # 0 => nodes'[id] = node)
       /\ \A n \in 1..Len(nodes') : Fresh(n, 0) => n = id /\ id # 0
  BY <1>2, <1>16, StoredNode
<1>19. id # 0 => Nests(nodes', id)
  BY <1>14, <1>16, <1>17, <1>18, NewNests
<1>20. \A n \in 1..Len(nodes') : Fresh(n, 0) => Nests(nodes', n)
  BY <1>18, <1>19
<1>21. (Tight' => Tight /\ id # 0) /\ start' = start
  <2>1. CASE id # 0 /\ chained
    <3>1. diags' \in Reported(diags, "cannot be chained", pos) /\ "cannot be chained" \in Messages
      BY <1>2, <2>1 DEF Messages
    <3> QED BY <1>1, <1>3, <1>4, <3>1, TightReported
  <2>2. CASE ~(id # 0 /\ chained)
    <3>1. (Tight' => Tight) /\ start' = start
      BY <1>1, <1>2, <2>2, TightKept
    <3> QED BY <1>18, <3>1 DEF Tight
  <2> QED BY <2>1, <2>2
<1>22. b <= pos
  BY <1>3, <1>4
<1>23. Produced(nodes', id, b, pos', AtEof', Tight')
  BY <1>1, <1>10, <1>11, <1>12, <1>16, <1>18, <1>21, <1>22 DEF Produced
<1>24. Moving(0)
  BY <1>3, <1>18, <1>21 DEF Moving
<1>25. CASE Leave(id)
  BY <1>3, <1>18, <1>20, <1>23, <1>24, <1>25, LeaveSpans
<1>26. CASE HavePrefix(id)
  BY <1>3, <1>18, <1>20, <1>23, <1>24, <1>26, HavePrefixSpans
<1> QED BY <1>2, <1>25, <1>26

LEMMA EmptyCallSpans == ASSUME ParserInv, ParserInv', SpansInv, EmptyCall PROVE SpansInv'
<1> PICK b : b = From(Len(stack))
  OBVIOUS
<1> PICK lhs : lhs = Top.lhs
  OBVIOUS
<1> PICK open : open = MakeNode("call", pos, SpanOf(pos), <<lhs>>)
  OBVIOUS
<1> PICK p, id : p = pos + 2 /\ id = Len(nodes) + 1
  OBVIOUS
<1> PICK node : node = Finished(open, p)
  OBVIOUS
<1> PICK l, last : l = nodes[lhs].span /\ last = SpanOf(p - 1)
  OBVIOUS
<1>1. /\ step = "loop" /\ UNCHANGED driver /\ diags' = diags /\ pos' = p
      /\ nodes' = Append(nodes, node) /\ Continue(id) /\ toks[pos] = "("
  BY DEF EmptyCall, AtCall
<1>2. /\ InputOK /\ ControlOK /\ nodes \in Seq(Node) /\ stack # <<>>
      /\ Top.wait = "none" /\ TokensOK /\ pos \in 1..Len(toks) /\ pos \in Nat \ {0}
      /\ b \in Nat \ {0} /\ lhs \in 1..Len(nodes) /\ lhs \in Nat /\ lhs # 0 /\ l \in Span
      /\ Produced(nodes, lhs, b, pos, AtEof, Tight)
  BY <1>1, LoopFacts
<1>3. /\ b <= pos /\ Fits(l, b, pos) /\ l.len > 0 /\ (Tight => Fills(l, b, pos))
  BY <1>1, <1>2 DEF Produced, AtEof
<1>4. (Tight' => Tight) /\ start' = start /\ toks' = toks
  BY <1>1, TightKept
<1>5. p \in 1..Len(toks)
  BY <1>1, <1>4 DEF ParserInv, InputOK
<1>6. /\ SpanOf(pos) \in Span /\ SpanOf(pos).start = pos - 1 /\ SpanOf(pos).len = 1
      /\ SpanEnd(SpanOf(pos)) = pos
  <2>1. pos < p
    BY <1>2
  <2> QED BY <1>2, <1>5, <2>1, TokenBefore
<1>7. /\ last \in Span /\ last.start = pos /\ last.len = 1 /\ SpanEnd(last) = pos + 1
  <2>1. p - 1 \in Nat \ {0} /\ p - 1 < p /\ p - 1 - 1 = pos /\ p - 1 = pos + 1
    BY <1>2
  <2> QED BY <1>2, <1>5, <2>1, TokenBefore
<1>8. Apart(nodes, <<lhs>>) /\ Len(<<lhs>>) = 1 /\ <<lhs>>[1] = lhs
  BY OneKidApart
<1>9. <<lhs>> \in Seq(Nat) /\ (\A i \in 1..Len(<<lhs>>) : <<lhs>>[i] = lhs)
  BY <1>2, <1>8
<1> PICK kids : kids = <<lhs>>
  OBVIOUS
<1>10. /\ Apart(nodes, kids) /\ KidsIn(kids, Len(nodes)) /\ kids \in Seq(Nat)
       /\ \A i \in 1..Len(kids) : kids[i] = lhs
       /\ 1 \in 1..Len(kids) /\ kids[1] = lhs
  BY <1>2, <1>8, <1>9 DEF KidsIn
<1>11. open \in Node /\ open.kids = kids /\ open.span = SpanOf(pos)
  <2>1. "call" \in Kinds /\ open = MakeNode("call", pos, SpanOf(pos), kids)
    BY DEF Kinds
  <2>2. pos \in Nat /\ SpanOf(pos) \in Span /\ kids \in Seq(Nat)
    BY <1>2, <1>6, <1>10
  <2> PICK at : at = SpanOf(pos)
    OBVIOUS
  <2>3. MakeNode("call", pos, at, kids) \in Node
    BY <2>1, <2>2, MakeNodeOK
  <2>4. MakeNode("call", pos, at, kids).kids = kids /\ MakeNode("call", pos, at, kids).span = at
    BY DEF MakeNode
  <2> QED BY <2>3, <2>4
<1> PICK u : u = node.span
  OBVIOUS
<1>12. Covers(open, u, p)
  <2>1. open.span.len > 0 /\ KidsIn(open.kids, Len(nodes))
    BY <1>6, <1>10, <1>11
  <2>3. p \in Nat \ {0}
    BY <1>2
  <2> QED BY <1>2, <1>11, <2>1, <2>3, FinishedCovers
<1>13. /\ u \in Span /\ Inside(last, u) /\ Inside(l, u)
  <2>1. p > 1 /\ last.start >= open.span.start
    BY <1>2, <1>6, <1>7, <1>11
  <2> QED BY <1>10, <1>11, <1>12, <2>1 DEF Covers
<1>14. Fits(SpanOf(pos), b, p) /\ Fits(last, b, p) /\ Fits(l, b, p)
  <2>1. l \in Span /\ b \in Nat /\ pos \in Nat
    BY <1>2
  <2>2. SpanEnd(l) \in Nat
    BY <2>1, SpanFields
  <2> QED BY <1>3, <1>6, <1>7, <2>1, <2>2 DEF Fits
<1>15. Fits(u, b, p)
  <2>1. b \in Int /\ p \in Int
    BY <1>2
  <2>2. \A i \in 1..Len(kids) : Fits(nodes[kids[i]].span, b, p)
    BY <1>10, <1>14
  <2> QED BY <1>11, <1>12, <1>14, <2>1, <2>2 DEF Covers
<1>16. u.len > 0 /\ b <= p /\ b < p /\ p \in Nat \ {0}
  <2>1. u.len > 0
    BY <1>3, <1>13 DEF Inside
  <2> QED BY <1>2, <1>3, <2>1
<1>17. ASSUME Tight PROVE Fills(u, b, p)
  <2>1. last.len > 0 /\ SpanEnd(last) = p - 1 /\ l.start = b - 1
    BY <1>2, <1>3, <1>7, <1>17 DEF Fills
  <2> QED BY <1>2, <1>3, <1>7, <1>13, <1>15, <1>16, <2>1, ReachesBoth
<1>18. node \in Node /\ node.kids = kids
  <2>1. KidsIn(open.kids, Len(nodes)) /\ p \in Nat \ {0}
    BY <1>10, <1>11, <1>16
  <2> QED BY <1>2, <1>11, <2>1, FinishedOK
<1>19. /\ Changed(nodes, nodes', 0) /\ id \in Nat /\ id # 0 /\ nodes'[id] = node
       /\ \A n \in 1..Len(nodes') : Fresh(n, 0) => n = id
  <2>1. Len(nodes) \in Nat
    BY <1>2, LenProperties
  <2>2. id # 0 /\ id \in Allocated /\ nodes' = Store(id, node)
    BY <1>1, <2>1 DEF Allocated, Store
  <2> QED BY <1>18, <2>2, StoredNode
<1>20. Nests(nodes', id)
  <2>1. \A i \in 1..Len(node.kids) : Inside(nodes[node.kids[i]].span, node.span)
    BY <1>10, <1>13, <1>18
  <2> QED BY <1>10, <1>18, <1>19, <2>1, NewNests
<1>21. \A n \in 1..Len(nodes') : Fresh(n, 0) => Nests(nodes', n)
  BY <1>19, <1>20
<1>22. Produced(nodes', id, b, pos', AtEof', Tight')
  BY <1>1, <1>4, <1>15, <1>16, <1>17, <1>19 DEF Produced
<1>23. Moving(0)
  BY <1>2, <1>4, <1>19 DEF Moving
<1> QED BY <1>1, <1>2, <1>19, <1>21, <1>22, <1>23, ContinueSpans

LEMMA OpenCallSpans == ASSUME ParserInv, ParserInv', SpansInv, OpenCall PROVE SpansInv'
<1> PICK b : b = From(Len(stack))
  OBVIOUS
<1> PICK lhs : lhs = Top.lhs
  OBVIOUS
<1> PICK node : node = MakeNode("call", pos, SpanOf(pos), <<lhs>>)
  OBVIOUS
<1> PICK p, id : p = pos + 1 /\ id = Len(nodes) + 1
  OBVIOUS
<1> PICK l : l = nodes[lhs].span
  OBVIOUS
<1> PICK f : f = [Top EXCEPT !.wait = "argument", !.node = id, !.op = pos, !.mark = p]
  OBVIOUS
<1>1. /\ step = "loop" /\ UNCHANGED driver /\ diags' = diags /\ pos' = p
      /\ nodes' = Append(nodes, node) /\ Call(f, 0) /\ toks[pos] = "("
  BY DEF OpenCall, AtCall
<1>2. /\ InputOK /\ ControlOK /\ nodes \in Seq(Node) /\ stack # <<>> /\ Top \in Frame
      /\ Top.wait = "none" /\ TokensOK /\ pos \in 1..Len(toks) /\ pos \in Nat \ {0}
      /\ b \in Nat \ {0} /\ lhs \in 1..Len(nodes) /\ lhs \in Nat /\ lhs # 0 /\ l \in Span
      /\ Produced(nodes, lhs, b, pos, AtEof, Tight)
  BY <1>1, LoopFacts
<1>3. /\ b <= pos /\ Fits(l, b, pos) /\ l.len > 0 /\ (Tight => Fills(l, b, pos))
  BY <1>1, <1>2 DEF Produced, AtEof
<1>4. (Tight' => Tight) /\ start' = start
  BY <1>1, TightKept
<1>5. SpanOf(pos) = [start |-> pos - 1, len |-> 1]
  BY <1>1 DEF SpanOf
<1>6. Len(<<lhs>>) = 1 /\ <<lhs>>[1] = lhs /\ <<lhs>> # <<>>
  BY OneKidApart
<1> PICK kids : kids = <<lhs>>
  OBVIOUS
<1>7. node \in Node /\ node.kids = kids /\ node.span = [start |-> pos - 1, len |-> 1]
  BY <1>1, <1>5, CallNode DEF MakeNode
<1>8. /\ Changed(nodes, nodes', 0) /\ id \in Nat /\ id # 0 /\ nodes'[id] = node
      /\ \A n \in 1..Len(nodes) : nodes'[n] = nodes[n]
      /\ \A n \in 1..Len(nodes') : Fresh(n, 0) => n = id
  <2>1. Len(nodes) \in Nat
    BY <1>2, LenProperties
  <2>2. id # 0 /\ id \in Allocated /\ nodes' = Store(id, node)
    BY <1>1, <2>1 DEF Allocated, Store
  <2> QED BY <1>7, <2>2, StoredNode
<1>9. f \in Frame /\ f.wait = "argument" /\ f.node = id /\ f.op = pos /\ f.mark = p
  <2>1. pos \in Nat /\ p \in Nat /\ id \in Nat
    BY <1>2, <1>8
  <2> QED BY <1>2, <2>1 DEF Frame, Waits
<1>10. /\ Apart(nodes', kids) /\ kids # <<>> /\ kids[1] = lhs
       /\ nodes'[kids[1]].span = l /\ \A i \in 1..Len(kids) : nodes'[kids[i]].span = l
  <2>1. nodes'[lhs].span = l
    BY <1>2, <1>8
  <2>2. \A i \in 1..1 : i = 1
    OBVIOUS
  <2> QED BY <1>6, <2>1, <2>2, OneKidApart
<1>11. Fits(l, b, p) /\ pos < p
  <2>1. l \in Span /\ b \in Nat /\ pos \in Nat
    BY <1>2
  <2>2. SpanEnd(l) \in Nat
    BY <2>1, SpanFields
  <2> QED BY <1>3, <2>1, <2>2 DEF Fits
<1>12. FrameSpans(f, nodes', b, Tight')
  <2> PICK ns : ns = nodes'
    OBVIOUS
  <2>1. /\ ns[f.node].span = [start |-> f.op - 1, len |-> 1] /\ ns[f.node].kids = kids
        /\ b <= f.op /\ f.op < f.mark
    BY <1>3, <1>7, <1>8, <1>9, <1>11
  <2>2. /\ Apart(ns, kids) /\ kids # <<>>
        /\ \A i \in 1..Len(kids) : Fits(ns[kids[i]].span, b, f.mark)
    BY <1>9, <1>10, <1>11
  <2>3. Tight' => Fills(ns[kids[1]].span, b, f.op)
    BY <1>3, <1>4, <1>9, <1>10
  <2> QED BY <1>9, <2>1, <2>2, <2>3 DEF FrameSpans
<1>13. \A n \in 1..Len(nodes') :
         Fresh(n, 0) => Nests(nodes', n) \/ (f.wait = "argument" /\ f.node = n)
  BY <1>8, <1>9
<1>14. pos' = IF f.wait = "argument" THEN f.mark ELSE f.op + 1
  BY <1>1, <1>9
<1>15. Moving(0)
  BY <1>2, <1>4, <1>8 DEF Moving
<1>16. f \in Frame /\ Call(f, 0) /\ ControlOK
  BY <1>1, <1>2, <1>9
<1> QED BY <1>12, <1>13, <1>14, <1>15, <1>16, CallSpans

LEMMA NextArgumentSpans == ASSUME ParserInv, ParserInv', SpansInv, NextArgument PROVE SpansInv'
<1> PICK b : b = From(Len(stack))
  OBVIOUS
<1> PICK m, op : m = Top.node /\ op = Top.op
  OBVIOUS
<1> PICK kids : kids = WithKid(nodes[m].kids, ret)
  OBVIOUS
<1> PICK node : node = [nodes[m] EXCEPT !.kids = kids]
  OBVIOUS
<1> PICK p : p = pos + 1
  OBVIOUS
<1> PICK f : f = [Top EXCEPT !.mark = p]
  OBVIOUS
<1>1. /\ Returned("argument") /\ UNCHANGED driver /\ diags' = diags /\ pos' = p
      /\ nodes' = [nodes EXCEPT ![m] = node] /\ Call(f, 0)
  BY DEF NextArgument
<1>2. /\ InputOK /\ ControlOK /\ stack # <<>> /\ Top.wait = "argument" /\ Top \in Frame
      /\ pos \in 1..Len(toks) /\ Len(toks) \in Nat
      /\ FrameOK(Top, Len(nodes), Len(toks)) /\ FrameSpans(Top, nodes, b, Tight)
      /\ b \in Nat \ {0} /\ op \in Nat /\ Top.mark \in Nat /\ op < Top.mark
      /\ Produced(nodes, ret, Top.mark, pos, AtEof, Tight)
  <2>1. "argument" \in Waits \ {"none"}
    BY DEF Waits
  <2> QED BY <1>1, <2>1, ReturnFacts
<1>3. m # 0
  BY <1>2 DEF FrameOK
<1>4. /\ m = Held(Top) /\ m \in 1..Len(nodes) /\ Orphan(nodes, m) /\ nodes[m] \in Node
      /\ nodes[m].span = [start |-> op - 1, len |-> 1]
      /\ Row(nodes, kids, b, pos) /\ (\A i \in 1..Len(kids) : kids[i] # m)
      /\ kids # <<>> /\ 1 \in 1..Len(kids) /\ (Tight => Fills(nodes[kids[1]].span, b, op))
  <2>1. "argument" \in {"group", "argument"}
    OBVIOUS
  <2> QED BY <1>1, <1>3, <2>1, GrownKids
<1>5. node.kids = kids /\ node.span = [start |-> op - 1, len |-> 1]
  BY <1>4 DEF Node
<1>6. (Tight' => Tight) /\ start' = start
  BY <1>1, TightKept
<1>7. /\ Changed(nodes, nodes', m) /\ nodes'[m] = node /\ OnlyFresh(nodes', m)
      /\ Same(nodes', kids) /\ Apart(nodes', kids)
  <2>1. Rewrites(nodes', m, node)
    BY <1>1, <1>4, <1>5 DEF Rewrites, Row
  <2>2. /\ Changed(nodes, nodes', m) /\ nodes'[m] = node /\ OnlyFresh(nodes', m)
        /\ Same(nodes', node.kids) /\ Apart(nodes', node.kids)
    BY <2>1, RewrittenNests
  <2> QED BY <1>5, <2>2, Zenon
<1>8. pos \in Nat /\ p \in Nat /\ op < p /\ b <= op
  <2>1. pos \in Nat
    BY <1>2
  <2>2. Top.mark <= pos
    BY <1>2 DEF Produced
  <2>3. b <= op
    BY <1>2 DEF FrameSpans
  <2> PICK mk : mk = Top.mark
    OBVIOUS
  <2>4. mk \in Nat /\ op < mk /\ mk <= pos /\ op \in Nat
    BY <1>2, <2>2
  <2> QED BY <2>1, <2>3, <2>4
<1>9. f \in Frame /\ f.wait = "argument" /\ f.node = m /\ f.op = op /\ f.mark = p
  BY <1>2, <1>8 DEF Frame
<1>10. \A i \in 1..Len(kids) : Fits(nodes'[kids[i]].span, b, p)
  <2>1. ASSUME NEW i \in 1..Len(kids) PROVE Fits(nodes[kids[i]].span, b, p)
    <3> PICK s : s = nodes[kids[i]].span
      OBVIOUS
    <3>1. kids[i] \in 1..Len(nodes) /\ Fits(s, b, pos) /\ nodes \in Seq(Node)
      BY <1>2, <1>4, NodesLen DEF Row, KidsIn
    <3>2. nodes[kids[i]] \in Node
      BY <3>1, ElementOfSeq
    <3>3. s \in Span
      BY <3>2 DEF Node
    <3>4. b \in Int /\ pos \in Int /\ p \in Int /\ b <= b /\ pos <= p
      BY <1>2, <1>8
    <3> QED BY <3>1, <3>3, <3>4, FitsWider
  <2> QED BY <1>7, <2>1 DEF Same
<1>11. FrameSpans(f, nodes', b, Tight')
  <2> PICK ns : ns = nodes'
    OBVIOUS
  <2>1. /\ ns[f.node].span = [start |-> f.op - 1, len |-> 1] /\ ns[f.node].kids = kids
        /\ b <= f.op /\ f.op < f.mark
    BY <1>5, <1>7, <1>8, <1>9
  <2>2. /\ Apart(ns, kids) /\ kids # <<>>
        /\ \A i \in 1..Len(kids) : Fits(ns[kids[i]].span, b, f.mark)
    BY <1>4, <1>7, <1>9, <1>10
  <2>3. Tight' => Fills(ns[kids[1]].span, b, f.op)
    BY <1>4, <1>6, <1>7, <1>9 DEF Same
  <2> QED BY <1>9, <2>1, <2>2, <2>3 DEF FrameSpans
<1>12. \A n \in 1..Len(nodes') :
         Fresh(n, m) => Nests(nodes', n) \/ (f.wait = "argument" /\ f.node = n)
  BY <1>7, <1>9 DEF OnlyFresh
<1>13. pos' = IF f.wait = "argument" THEN f.mark ELSE f.op + 1
  BY <1>1, <1>9
<1>14. Moving(m)
  BY <1>2, <1>4, <1>6, <1>7 DEF Moving
<1>15. f \in Frame /\ Call(f, 0) /\ ControlOK
  BY <1>1, <1>2, <1>9
<1> QED BY <1>11, <1>12, <1>13, <1>14, <1>15, CallSpans

\* Between statements no activation is live.
LEMMA IdleSpans ==
  ASSUME SpansInv, stack = <<>>, stack' = stack, nodes' = nodes
  PROVE  AllNest(nodes', stack') /\ FramesSpan(stack', nodes', start'.pos, Tight')
<1>1. Len(stack) = 0
  OBVIOUS
<1>2. 1..Len(stack) = {}
  BY <1>1
<1>3. AllNest(nodes', stack')
  BY DEF SpansInv
<1>4. stack' = <<>> /\ 1..Len(stack') = {}
  BY <1>2
<1> QED BY <1>3, <1>4 DEF FramesSpan

LEMMA BeginSpans == ASSUME SpansInv, BeginStatement PROVE SpansInv'
<1>1. /\ step = "idle" /\ step' = "enter" /\ pos' = pos /\ stack' = stack /\ nodes' = nodes
      /\ start' = [pos |-> pos, diags |-> Len(diags)]
  BY DEF BeginStatement, parserUnchanged
<1>2. stack = <<>>
  BY <1>1 DEF SpansInv
<1>3. AllNest(nodes', stack') /\ FramesSpan(stack', nodes', start'.pos, Tight')
  BY <1>1, <1>2, IdleSpans
<1>4. (From(Len(stack) + 1))' = pos'
  <2>1. Len(stack') + 1 = 1 /\ start'.pos = pos'
    BY <1>1, <1>2
  <2> QED BY <2>1 DEF From, Begin
<1> QED BY <1>1, <1>3, <1>4 DEF SpansInv

LEMMA RewindSpans == ASSUME SpansInv, Rewind PROVE SpansInv'
<1>1. stack = <<>> /\ step' = "idle" /\ stack' = stack /\ nodes' = nodes
  BY DEF Rewind, Finishing, parserUnchanged
<1>2. AllNest(nodes', stack') /\ FramesSpan(stack', nodes', start'.pos, Tight')
  BY <1>1, IdleSpans
<1> QED BY <1>1, <1>2 DEF SpansInv

LEMMA EndStatementSpans == ASSUME SpansInv, EndStatement PROVE SpansInv'
<1>1. stack = <<>> /\ step' = "idle" /\ stack' = stack /\ nodes' = nodes
  BY Zenon DEF EndStatement, Finishing, parserUnchanged
<1>2. AllNest(nodes', stack') /\ FramesSpan(stack', nodes', start'.pos, Tight')
  BY <1>1, IdleSpans
<1> QED BY <1>1, <1>2 DEF SpansInv

LEMMA StutterSpans == ASSUME SpansInv, UNCHANGED vars PROVE SpansInv'
<1>1. /\ toks' = toks /\ mayFail' = mayFail /\ pos' = pos /\ nodes' = nodes
      /\ diags' = diags /\ stack' = stack /\ step' = step /\ ret' = ret /\ start' = start
  BY DEF vars
<1>2. (Tight' <=> Tight) /\ (AtEof' <=> AtEof) /\ Top' = Top
      /\ (From(Len(stack)))' = From(Len(stack)) /\ (From(Len(stack) + 1))' = From(Len(stack) + 1)
  BY <1>1 DEF Tight, AtEof, Top, From
<1>3. FramesSpan(stack', nodes', start'.pos, Tight')
  <2>1. FramesSpan(stack, nodes, start.pos, Tight)
    BY DEF SpansInv
  <2> QED BY <1>1, <1>2, <2>1 DEF FramesSpan, FrameSpans
<1>4. /\ step' = "loop" => Produced(nodes', Top'.lhs, (From(Len(stack)))', pos', AtEof', Tight')
      /\ step' = "return" => Produced(nodes', ret', (From(Len(stack) + 1))', pos', AtEof', Tight')
  BY <1>1, <1>2 DEF SpansInv, Produced
<1> QED BY <1>1, <1>2, <1>3, <1>4 DEF SpansInv

LEMMA SpansStart == Init => SpansInv
<1> SUFFICES ASSUME Init PROVE SpansInv
  OBVIOUS
<1>1. nodes = <<>> /\ stack = <<>> /\ step = "idle"
  BY DEF Init
<1>2. 1..Len(nodes) = {} /\ 1..Len(stack) = {}
  BY <1>1
<1>3. AllNest(nodes, stack) /\ FramesSpan(stack, nodes, start.pos, Tight)
  BY <1>2 DEF AllNest, FramesSpan
<1> QED BY <1>1, <1>3 DEF SpansInv

LEMMA SpansSteps == ParserInv /\ ParserInv' /\ SpansInv /\ [Next]_vars => SpansInv'
  BY TooDeepSpans, EnterSpans, AtomSpans, OpenGroupSpans, CloseGroupSpans,
     PrefixOperatorSpans, FinishPrefixSpans, NoExpressionSpans, EndLoopSpans, PostfixSpans,
     SelectorSpans, SelectorWithoutNameSpans, InfixSpans, FinishInfixSpans, EmptyCallSpans,
     OpenCallSpans, NextArgumentSpans, CloseCallSpans, BeginSpans, RewindSpans,
     EndStatementSpans, StutterSpans, Zenon DEF Next, Stop

(* Spans nest for every input: when an expression has ended, every node of *)
(* the arena lies over its children, which stand apart in source order,    *)
(* wherever the input is damaged or an allocation failed, and a tree about *)
(* which nothing was reported is as long as the tokens it was made of      *)
(* (src/src/parser.c:274 kavak_parser_finish_node).                        *)
THEOREM SpansAlwaysNest == Spec => []SpansNest
<1>1. ParserInv /\ SpansInv => SpansNest
  <2> SUFFICES ASSUME ParserInv, SpansInv, Finishing PROVE SpansNest
    BY DEF SpansNest
  <2>1. /\ stack = <<>> /\ step = "return" /\ nodes \in Seq(Node) /\ ret \in 0..Len(nodes)
        /\ Len(nodes) \in Nat /\ Forest(nodes) /\ pos \in Nat /\ start.pos \in Nat
    <3>1. pos \in Nat /\ start.pos \in Nat
      BY InputFacts DEF ParserInv, InputOK
    <3> QED BY <3>1, NodesLen DEF Finishing, ParserInv, ControlOK
  <2>2. Len(stack) = 0 /\ 1..Len(stack) = {} /\ Len(stack) + 1 = 1
    BY <2>1
  <2>3. \A id \in 1..Len(nodes) : Nests(nodes, id)
    BY <2>2 DEF SpansInv, AllNest, Open
  <2>4. ASSUME NEW id \in 1..Len(nodes),
               NEW i \in {k \in 1..KidCount(id) : nodes[Kid(id, k)].span.len > 0}
        PROVE  LET kid == nodes[Kid(id, i)].span
               IN  /\ nodes[id].span.start <= kid.start
                   /\ SpanEnd(kid) <= SpanEnd(nodes[id].span)
                   /\ \A j \in 1..i - 1 : SpanEnd(nodes[Kid(id, j)].span) <= kid.start
    <3>1. Nests(nodes, id) /\ i \in 1..Len(nodes[id].kids) /\ nodes[nodes[id].kids[i]].span.len > 0
      BY <2>3 DEF KidCount, Kid
    <3>2. Inside(nodes[nodes[id].kids[i]].span, nodes[id].span) /\ Apart(nodes, nodes[id].kids)
      BY <3>1 DEF Nests
    <3> QED BY <3>1, <3>2 DEF Inside, Apart, Kid
  <2>5. ASSUME Clean PROVE nodes[ret].span = [start |-> start.pos - 1, len |-> pos - start.pos]
    <3>1. Tight
      BY <2>5 DEF Clean, Tight
    <3>2. From(1) = start.pos
      BY DEF From, Begin
    <3>3. ret # 0 /\ Fills(nodes[ret].span, start.pos, pos)
      BY <2>1, <2>2, <3>1, <3>2 DEF SpansInv, Produced
    <3>4. ret \in 1..Len(nodes)
      BY <2>1, <3>3
    <3>5. nodes[ret].span \in Span
      <4>1. nodes[ret] \in Node
        BY <2>1, <3>4, ElementOfSeq
      <4> QED BY <4>1 DEF Node
    <3> PICK s : s = nodes[ret].span
      OBVIOUS
    <3>6. s \in Span /\ s.start \in Nat /\ s.len \in Nat /\ SpanEnd(s) = s.start + s.len
      BY <3>5, SpanFields
    <3>7. s.start = start.pos - 1 /\ s.len = pos - start.pos
      <4>1. s.start = start.pos - 1 /\ SpanEnd(s) = pos - 1
        BY <3>3 DEF Fills
      <4>2. pos \in Nat /\ start.pos \in Nat
        BY <2>1
      <4> QED BY <3>6, <4>1, <4>2
    <3> QED BY <3>6, <3>7 DEF Span
  <2> QED BY <2>4, <2>5 DEF SpansNest
<1>2. Spec => [](ParserInv /\ SpansInv)
  BY ParserStarts, ParserSteps, SpansStart, SpansSteps, PTL DEF Spec
<1> QED BY <1>1, <1>2, PTL
-----------------------------------------------------------------------------
(* Trees: what a statement has made while nothing was reported.            *)

\* The minimum that n's right operand was parsed with: RightMin, but for the
\* clamp of NextMin.
Floor(t, n) == IF IsPrefix(n) THEN OpOf(t, n).prec ELSE NextMin(OpOf(t, n))

\* An operator loop of minimum k goes on at p.
Ahead(t, p, k) ==
  \/ /\ IsOperator(t[p], "postfix") /\ OperatorFor(t[p], "postfix").prec >= k
     /\ "infix" \notin OperatorFor(t[p], "postfix").roles
  \/ IsOperator(t[p], "infix") /\ OperatorFor(t[p], "infix").prec >= k
  \/ Calls /\ t[p] = "("
\* m, with its right operand before p, has left what stands there to others.
Passes(t, m, p) ==
  /\ ~Ahead(t, p, Floor(t, m))
  /\ m.kind = "binary" /\ OpOf(t, m).assoc = "none" /\ IsOperator(t[p], "infix") =>
       OperatorFor(t[p], "infix").prec # OpOf(t, m).prec

\* Nodes of D among which, with x, are all on the right (left) edge of x.
RightSpine(ns, D, x, S) == S \in SUBSET D /\ x \in S /\ \A n \in S : RightOf(ns[n]) \subseteq S
LeftSpine(ns, D, x, S)  == S \in SUBSET D /\ x \in S /\ \A n \in S : LeftOf(ns[n]) \subseteq S

\* What ends where x does has left what stands at p to others; what begins
\* where x does was taken by a loop of minimum k.
Free(t, ns, D, x, p) ==
  \E S : RightSpine(ns, D, x, S) /\ \A m \in S : Takes(ns[m]) => Passes(t, ns[m], p)
Grips(t, ns, D, x, k) ==
  \E S : LeftSpine(ns, D, x, S) /\ \A m \in S : Joined(ns[m]) => OpOf(t, ns[m]).prec >= k

\* The token at which the operator loop made n, and what it is.
OpAt(n) == IF n.kind = "selector" THEN n.tok - 1 ELSE n.tok
Looped(t, n) ==
  /\ n.kind \in {"binary", "selector"} => IsOperator(t[OpAt(n)], "infix")
  /\ IsPostfix(n) => "infix" \notin OperatorFor(t[n.tok], "postfix").roles
  /\ n.kind = "call" => Calls

\* Node x of D is as the grammar and the operators say.
Good(t, ns, D, x) ==
  /\ KidsOf(ns[x]) \subseteq D
  /\ Derived(t, ns, ns[x])
  /\ Looped(t, ns[x])
  /\ \A l \in LeftOf(ns[x]) : Free(t, ns, D, l, OpAt(ns[x]))
  /\ \A r \in RightOf(ns[x]) : Grips(t, ns, D, r, Floor(t, ns[x]))
Whole(t, ns, D) == D \in SUBSET (1..Len(ns)) /\ \A x \in D : Good(t, ns, D, x)

\* The nodes of D are still there.
Keeps(ns, next, D, E) == D \in SUBSET E /\ \A n \in D : next[n] = ns[n]

LEMMA FreeKept ==
  ASSUME NEW t, NEW ns, NEW next, NEW D, NEW E, Keeps(ns, next, D, E), NEW x, NEW p,
         Free(t, ns, D, x, p)
  PROVE  Free(t, next, E, x, p)
<1>1. PICK S : RightSpine(ns, D, x, S) /\ \A m \in S : Takes(ns[m]) => Passes(t, ns[m], p)
  BY DEF Free
<1>2. \A n \in S : next[n] = ns[n]
  BY <1>1 DEF Keeps, RightSpine
<1>3. RightSpine(next, E, x, S)
  BY <1>1, <1>2 DEF Keeps, RightSpine
<1> QED BY <1>1, <1>2, <1>3 DEF Free

LEMMA GripsKept ==
  ASSUME NEW t, NEW ns, NEW next, NEW D, NEW E, Keeps(ns, next, D, E), NEW x, NEW k,
         Grips(t, ns, D, x, k)
  PROVE  Grips(t, next, E, x, k)
<1>1. PICK S : LeftSpine(ns, D, x, S) /\ \A m \in S : Joined(ns[m]) => OpOf(t, ns[m]).prec >= k
  BY DEF Grips
<1>2. \A n \in S : next[n] = ns[n]
  BY <1>1 DEF Keeps, LeftSpine
<1>3. LeftSpine(next, E, x, S)
  BY <1>1, <1>2 DEF Keeps, LeftSpine
<1> QED BY <1>1, <1>2, <1>3 DEF Grips

\* Only the spans of a node's children count.
LEMMA ListedKept ==
  ASSUME NEW t, NEW ns, NEW next, NEW n, Len(n.kids) \in Nat,
         \A k \in 1..Len(n.kids) : next[n.kids[k]] = ns[n.kids[k]]
  PROVE  /\ \A k \in 1..Len(n.kids) : Behind(next, n, k) = Behind(ns, n, k)
         /\ Listed(t, ns, n) => Listed(t, next, n)
<1>1. \A k \in 1..Len(n.kids) : Behind(next, n, k) = Behind(ns, n, k)
  BY DEF Behind
<1>2. \A k \in 2..Len(n.kids) : k \in 1..Len(n.kids) /\ k - 1 \in 1..Len(n.kids)
  OBVIOUS
<1> QED BY <1>1, <1>2 DEF Listed

LEMMA DerivedKept ==
  ASSUME NEW t, NEW ns, NEW next, NEW n, Len(n.kids) \in Nat, n.kids # <<>> => Len(n.kids) # 0,
         \A k \in 1..Len(n.kids) : next[n.kids[k]] = ns[n.kids[k]], Derived(t, ns, n)
  PROVE  Derived(t, next, n)
<1>1. Len(n.kids) # 0 => next[n.kids[1]] = ns[n.kids[1]]
  OBVIOUS
<1>2. Len(n.kids) = 2 => next[n.kids[2]] = ns[n.kids[2]]
  OBVIOUS
<1>3. /\ n.kids # <<>> => Behind(next, n, Len(n.kids)) = Behind(ns, n, Len(n.kids))
      /\ Listed(t, ns, n) => Listed(t, next, n)
  <2>1. n.kids # <<>> => Len(n.kids) \in 1..Len(n.kids)
    OBVIOUS
  <2>2. \A k \in 1..Len(n.kids) : Behind(next, n, k) = Behind(ns, n, k)
    BY ListedKept
  <2>3. Listed(t, ns, n) => Listed(t, next, n)
    BY ListedKept
  <2> QED BY <2>1, <2>2, <2>3, Zenon
<1>4. \A e : n.kids # <<>> /\ Closed(t, ns, n, e) => Closed(t, next, n, e)
  BY <1>3 DEF Closed
<1> HIDE DEF Listed, Closed
<1> QED BY <1>1, <1>2, <1>3, <1>4 DEF Derived

LEMMA GoodKept ==
  ASSUME NEW t, NEW ns, NEW next, NEW D, NEW E, Keeps(ns, next, D, E), NEW x \in D,
         ns[x] \in Node, Good(t, ns, D, x)
  PROVE  Good(t, next, E, x)
<1> PICK n : n = ns[x]
  OBVIOUS
<1>1. next[x] = n /\ n.kids \in Seq(Nat) /\ Len(n.kids) \in Nat
      /\ (n.kids # <<>> => Len(n.kids) # 0)
  <2>1. n.kids \in Seq(Nat)
    BY DEF Node
  <2> QED BY <2>1, LenProperties, EmptySeq DEF Keeps
<1>2. \A k \in 1..Len(n.kids) : next[n.kids[k]] = ns[n.kids[k]]
  <2> TAKE k \in 1..Len(n.kids)
  <2>1. n.kids[k] \in D
    BY DEF Good, KidsOf
  <2> QED BY <2>1 DEF Keeps
<1>3. KidsOf(n) \in SUBSET E /\ Looped(t, n)
  BY DEF Good, Keeps
<1>4. Derived(t, next, n)
  BY <1>1, <1>2, DerivedKept DEF Good
<1>5. \A l \in LeftOf(n) : Free(t, next, E, l, OpAt(n))
  BY FreeKept DEF Good
<1>6. \A r \in RightOf(n) : Grips(t, next, E, r, Floor(t, n))
  BY GripsKept DEF Good
<1> QED BY <1>1, <1>3, <1>4, <1>5, <1>6 DEF Good

\* One more node, and what it may be.
LEMMA WholeGrows ==
  ASSUME NEW t, NEW ns \in Seq(Node), NEW next, NEW D, Whole(t, ns, D),
         NEW id \in 1..Len(next), Len(ns) <= Len(next), Len(next) \in Nat,
         Keeps(ns, next, D, D \cup {id}), Good(t, next, D \cup {id}, id)
  PROVE  Whole(t, next, D \cup {id})
<1>1. Len(ns) \in Nat /\ D \in SUBSET (1..Len(ns)) /\ \A x \in D : Good(t, ns, D, x)
  BY LenProperties DEF Whole
<1>2. D \cup {id} \in SUBSET (1..Len(next))
  BY <1>1
<1>3. ASSUME NEW x \in D PROVE Good(t, next, D \cup {id}, x)
  <2>1. ns[x] \in Node
    BY <1>1, ElementOfSeq
  <2> QED BY <1>1, <2>1, GoodKept
<1> QED BY <1>2, <1>3 DEF Whole

LEMMA FreeAlone ==
  ASSUME NEW t, NEW ns, NEW E, NEW id \in E, NEW p, ~Takes(ns[id])
  PROVE  Free(t, ns, E, id, p)
<1> PICK S : S = {id}
  OBVIOUS
<1>1. RightSpine(ns, E, id, S)
  BY DEF RightSpine, RightOf
<1> QED BY <1>1 DEF Free

LEMMA FreeOver ==
  ASSUME NEW t, NEW ns, NEW E, NEW id \in E, NEW r, NEW p, RightOf(ns[id]) \subseteq {r},
         Free(t, ns, E, r, p), Passes(t, ns[id], p)
  PROVE  Free(t, ns, E, id, p)
<1>1. PICK S : RightSpine(ns, E, r, S) /\ \A m \in S : Takes(ns[m]) => Passes(t, ns[m], p)
  BY DEF Free
<1> PICK T : T = S \cup {id}
  OBVIOUS
<1>2. RightSpine(ns, E, id, T)
  BY <1>1 DEF RightSpine
<1> QED BY <1>1, <1>2 DEF Free

LEMMA GripsAlone ==
  ASSUME NEW t, NEW ns, NEW E, NEW id \in E, NEW k, ~Joined(ns[id]), ns[id].kind # "call"
  PROVE  Grips(t, ns, E, id, k)
<1> PICK S : S = {id}
  OBVIOUS
<1>1. LeftSpine(ns, E, id, S)
  BY DEF LeftSpine, LeftOf
<1> QED BY <1>1 DEF Grips

LEMMA GripsOver ==
  ASSUME NEW t, NEW ns, NEW E, NEW id \in E, NEW l, NEW k, LeftOf(ns[id]) \subseteq {l},
         Grips(t, ns, E, l, k), Joined(ns[id]) => OpOf(t, ns[id]).prec >= k
  PROVE  Grips(t, ns, E, id, k)
<1>1. PICK S : LeftSpine(ns, E, l, S) /\ \A m \in S : Joined(ns[m]) => OpOf(t, ns[m]).prec >= k
  BY DEF Grips
<1> PICK T : T = S \cup {id}
  OBVIOUS
<1>2. LeftSpine(ns, E, id, T)
  BY <1>1 DEF LeftSpine
<1> QED BY <1>1, <1>2 DEF Grips
-----------------------------------------------------------------------------
(* What the activations know of the trees they build on.                   *)

\* The minimum of the activation that f waits for.
WaitMin(t, f) ==
  IF f.wait = "infix" THEN NextMin(OperatorFor(t[f.op], "infix"))
  ELSE IF f.wait = "prefix" THEN OperatorFor(t[f.op], "prefix").prec ELSE 0
\* The minimum of the activation above frame k.
Wanted(t, stk, k) == IF k = 0 THEN 0 ELSE WaitMin(t, stk[k])

\* x, finished, ends before p and was made with minimum k.
Made(t, ns, D, x, p, k) == x \in D /\ Free(t, ns, D, x, p) /\ Grips(t, ns, D, x, k)

\* The call n, its arguments so far made, goes on at mark.
CallSoFar(t, ns, n, mark) ==
  /\ Listed(t, ns, n) /\ mark = Behind(ns, n, Len(n.kids))
  /\ Len(n.kids) > 1 => t[mark - 1] = Separator
CallBegun(t, ns, D, n, op, k) ==
  /\ n.kind = "call" /\ n.tok = op /\ t[op] = "(" /\ Calls
  /\ n.kids # <<>> /\ KidsOf(n) \subseteq D
  /\ Free(t, ns, D, n.kids[1], op) /\ Grips(t, ns, D, n.kids[1], k)

FrameBinds(t, f, k, ns, D) ==
  /\ f.min = k
  /\ f.wait \in {"group", "prefix", "argument"} => f.node # 0 /\ f.node \notin D
  /\ f.wait = "group" => ns[f.node].kind = "group" /\ ns[f.node].tok = f.op /\ t[f.op] = "("
  /\ f.wait = "prefix" => IsOperator(t[f.op], "prefix")
  /\ f.wait = "infix" =>
       /\ IsOperator(t[f.op], "infix") /\ OperatorFor(t[f.op], "infix").prec >= k
       /\ Made(t, ns, D, f.lhs, f.op, k)
  /\ f.wait = "argument" =>
       /\ CallBegun(t, ns, D, ns[f.node], f.op, k)
       /\ CallSoFar(t, ns, ns[f.node], f.mark)
FramesBind(t, stk, ns, D) ==
  \A k \in 1..Len(stk) : FrameBinds(t, stk[k], Wanted(t, stk, k - 1), ns, D)

\* The finished nodes of a statement are D.
TreesOf(D) ==
  /\ Whole(toks, nodes, D)
  /\ FramesBind(toks, stack, nodes, D)
  /\ step = "enter"  => minArg = Wanted(toks, stack, Len(stack))
  /\ step = "loop"   => Made(toks, nodes, D, Top.lhs, pos, Top.min)
  /\ step = "return" =>
       /\ Made(toks, nodes, D, ret, pos, Wanted(toks, stack, Len(stack)))
       /\ ~Ahead(toks, pos, Wanted(toks, stack, Len(stack)))
TreesInv == Tight /\ step # "idle" => \E D : TreesOf(D)

LEMMA MadeKept ==
  ASSUME NEW t, NEW ns, NEW next, NEW D, NEW E, Keeps(ns, next, D, E), NEW x, NEW p, NEW k,
         Made(t, ns, D, x, p, k)
  PROVE  Made(t, next, E, x, p, k)
<1>1. x \in E
  BY DEF Made, Keeps
<1> QED BY <1>1, FreeKept, GripsKept DEF Made

LEMMA CallSoFarSame ==
  ASSUME NEW t, NEW ns, NEW next, NEW n, Len(n.kids) \in Nat,
         Len(n.kids) \in 1..Len(n.kids),
         \A k \in 1..Len(n.kids) : next[n.kids[k]] = ns[n.kids[k]],
         NEW mark, CallSoFar(t, ns, n, mark)
  PROVE  CallSoFar(t, next, n, mark)
<1>1. \A k \in 1..Len(n.kids) : Behind(next, n, k) = Behind(ns, n, k)
  BY DEF Behind
<1>2. Listed(t, ns, n) => Listed(t, next, n)
  BY ListedKept
<1>3. Behind(next, n, Len(n.kids)) = Behind(ns, n, Len(n.kids))
  BY <1>1
<1> QED BY <1>2, <1>3, Zenon DEF CallSoFar

LEMMA CallSoFarKept ==
  ASSUME NEW t, NEW ns, NEW next, NEW D, NEW E, Keeps(ns, next, D, E), NEW n,
         Len(n.kids) \in Nat, Len(n.kids) # 0, KidsOf(n) \subseteq D,
         NEW mark, CallSoFar(t, ns, n, mark)
  PROVE  CallSoFar(t, next, n, mark)
<1>1. Len(n.kids) \in 1..Len(n.kids)
  OBVIOUS
<1>2. \A k \in 1..Len(n.kids) : next[n.kids[k]] = ns[n.kids[k]]
  <2> TAKE k \in 1..Len(n.kids)
  <2>1. n.kids[k] \in D
    BY DEF KidsOf
  <2> QED BY <2>1 DEF Keeps
<1> QED BY <1>1, <1>2, CallSoFarSame

LEMMA CallBegunKept ==
  ASSUME NEW t, NEW ns, NEW next, NEW D, NEW E, Keeps(ns, next, D, E), NEW n, NEW op, NEW k,
         CallBegun(t, ns, D, n, op, k)
  PROVE  CallBegun(t, next, E, n, op, k)
<1>1. KidsOf(n) \subseteq E
  BY DEF CallBegun, Keeps
<1>2. Free(t, next, E, n.kids[1], op)
  BY FreeKept DEF CallBegun
<1>3. Grips(t, next, E, n.kids[1], k)
  BY GripsKept DEF CallBegun
<1> QED BY <1>1, <1>2, <1>3 DEF CallBegun

LEMMA FrameBindsKept ==
  ASSUME NEW t, NEW ns \in Seq(Node), NEW next, NEW D, NEW E, Keeps(ns, next, D, E), NEW f, NEW k,
         f.wait \in {"group", "prefix", "argument"} =>
           f.node \in 1..Len(ns) /\ next[f.node] = ns[f.node] /\ f.node \notin E,
         FrameBinds(t, f, k, ns, D)
  PROVE  FrameBinds(t, f, k, next, E)
<1>1. f.min = k
  BY DEF FrameBinds
<1>2. CASE f.wait = "argument"
  <2> PICK n : n = ns[f.node]
    OBVIOUS
  <2>1. CallBegun(t, ns, D, n, f.op, k) /\ CallSoFar(t, ns, n, f.mark)
    BY <1>2 DEF FrameBinds
  <2>2. n \in Node
    BY <1>2, ElementOfSeq
  <2>3. n.kids \in Seq(Nat)
    BY <2>2 DEF Node
  <2>4. CallBegun(t, next, E, n, f.op, k)
    BY <2>1, CallBegunKept
  <2>5. CallSoFar(t, next, n, f.mark)
    <3>1. n.kids # <<>> /\ KidsOf(n) \subseteq D
      BY <2>1 DEF CallBegun
    <3> QED BY <2>1, <2>3, <3>1, CallSoFarKept
  <2>6. next[f.node] = n /\ f.node \notin E
    BY <1>2
  <2> QED BY <1>1, <1>2, <2>4, <2>5, <2>6 DEF FrameBinds
<1>3. CASE f.wait = "infix"
  <2>1. Made(t, next, E, f.lhs, f.op, k)
    BY <1>3, MadeKept DEF FrameBinds
  <2> QED BY <1>1, <1>3, <2>1 DEF FrameBinds
<1>4. CASE f.wait \in {"group", "prefix"}
  BY <1>1, <1>4 DEF FrameBinds
<1>5. CASE f.wait \notin {"group", "prefix", "infix", "argument"}
  BY <1>1, <1>5 DEF FrameBinds
<1> QED BY <1>2, <1>3, <1>4, <1>5

\* Nodes that a step finished, beside those that were.
Grown(D, E, m) == E = D \/ \E id : id # 0 /\ Fresh(id, m) /\ E = D \cup {id}

LEMMA KeepsGrown ==
  ASSUME NEW next, NEW m, Changed(nodes, next, m), NEW D, D \in SUBSET (1..Len(nodes)), m \notin D,
         NEW E, Grown(D, E, m)
  PROVE  Keeps(nodes, next, D, E)
<1>1. D \in SUBSET E
  BY DEF Grown
<1>2. \A n \in D : next[n] = nodes[n]
  BY DEF Changed
<1> QED BY <1>1, <1>2 DEF Keeps

\* The activations below the top one.
LEMMA RestBinds ==
  ASSUME ControlOK, stack # <<>>, NEW D, Whole(toks, nodes, D), FramesBind(toks, stack, nodes, D),
         NEW next, NEW m, Changed(nodes, next, m), m # 0 => m = Held(Top), m \notin D,
         NEW E, Grown(D, E, m)
  PROVE  /\ FramesBind(toks, Rest, next, E)
         /\ Wanted(toks, Rest, Len(Rest)) = Wanted(toks, stack, Len(stack) - 1)
         /\ Keeps(nodes, next, D, E)
<1>1. /\ StackGood(Rest, nodes, Len(toks))
      /\ Len(Rest) = Len(stack) - 1 /\ Len(stack) \in Nat \ {0}
      /\ Over(Rest, nodes, Held(Top)) /\ FrameOK(Top, Len(nodes), Len(toks))
  BY TopGood
<1>2. nodes \in Seq(Node) /\ Len(nodes) \in Nat /\ stack \in Seq(Frame)
  BY NodesLen DEF ControlOK, StackGood
<1> PICK n : n = Len(stack)
  OBVIOUS
<1>3. \A i \in 1..n - 1 : Rest[i] = stack[i]
  BY <1>1, <1>2 DEF Rest
<1>4. \A k \in 0..n - 1 : Wanted(toks, Rest, k) = Wanted(toks, stack, k)
  <2> TAKE k \in 0..n - 1
  <2>1. k # 0 => k \in 1..n - 1
    BY <1>1
  <2> QED BY <1>3, <2>1 DEF Wanted
<1>5. Keeps(nodes, next, D, E)
  BY KeepsGrown DEF Whole
<1>6. ASSUME NEW k \in 1..n - 1
      PROVE  FrameBinds(toks, Rest[k], Wanted(toks, stack, k - 1), next, E)
  <2>1. FrameBinds(toks, stack[k], Wanted(toks, stack, k - 1), nodes, D) /\ stack[k] = Rest[k]
    <3>1. k \in 1..Len(stack)
      BY <1>1
    <3> QED BY <1>3, <3>1 DEF FramesBind
  <2> PICK f : f = Rest[k]
    OBVIOUS
  <2>2. FrameOK(f, Len(nodes), Len(toks))
    BY <1>1 DEF StackGood
  <2>3. Held(f) \in 0..Len(nodes) /\ (Held(f) # 0 => Held(f) # m)
    <3>1. Held(f) \in 0..Len(nodes) /\ Held(Top) \in 0..Len(nodes)
      BY <1>1, <1>2, <2>2, HeldIn
    <3>2. Held(Top) # 0 => Held(f) < Held(Top)
      BY <1>1 DEF Over
    <3> QED BY <3>1, <3>2
  <2>4. ASSUME f.wait \in {"group", "prefix", "argument"}, f.node # 0
        PROVE  f.node \in 1..Len(nodes) /\ next[f.node] = nodes[f.node] /\ f.node \notin E
    <3>1. Held(f) = f.node
      BY <2>4 DEF Held
    <3>2. f.node \in 1..Len(nodes) /\ f.node # m
      BY <1>2, <2>3, <2>4, <3>1
    <3>3. f.node \notin D
      BY <2>1, <2>4 DEF FrameBinds
    <3>4. ~Fresh(f.node, m)
      BY <1>2, <3>2 DEF Fresh
    <3> QED BY <3>2, <3>3, <3>4 DEF Changed, Grown
  <2>5. f.wait \in {"group", "prefix", "argument"} => f.node # 0
    BY <2>1 DEF FrameBinds
  <2> QED BY <1>2, <1>5, <2>1, <2>4, <2>5, FrameBindsKept
<1>7. FramesBind(toks, Rest, next, E)
  <2>1. \A k \in 1..n - 1 : k - 1 \in 0..n - 1
    BY <1>1
  <2> QED BY <1>1, <1>4, <1>6, <2>1 DEF FramesBind
<1>8. n - 1 \in 0..n - 1
  BY <1>1
<1> QED BY <1>1, <1>4, <1>5, <1>7, <1>8

LEMMA PushBinds ==
  ASSUME NEW t, NEW rest \in Seq(Frame), NEW f \in Frame, NEW ns, NEW D, FramesBind(t, rest, ns, D),
         FrameBinds(t, f, Wanted(t, rest, Len(rest)), ns, D)
  PROVE  /\ FramesBind(t, Append(rest, f), ns, D)
         /\ Wanted(t, Append(rest, f), Len(Append(rest, f))) = WaitMin(t, f)
<1> PICK stk : stk = Append(rest, f)
  OBVIOUS
<1> PICK n : n = Len(rest)
  OBVIOUS
<1>1. /\ n \in Nat /\ Len(stk) = n + 1 /\ stk[n + 1] = f
      /\ \A i \in 1..n : stk[i] = rest[i]
  BY AppendProperties, LenProperties
<1>2. \A k \in 1..n + 1 : Wanted(t, stk, k - 1) = Wanted(t, rest, k - 1)
  <2> TAKE k \in 1..n + 1
  <2>1. k - 1 # 0 => k - 1 \in 1..n
    BY <1>1
  <2> QED BY <1>1, <2>1 DEF Wanted
<1>3. n + 1 - 1 = n /\ \A k \in 1..n + 1 : k # n + 1 => k \in 1..n
  BY <1>1
<1>4. FramesBind(t, stk, ns, D)
  <2> SUFFICES ASSUME NEW k \in 1..Len(stk)
               PROVE  FrameBinds(t, stk[k], Wanted(t, stk, k - 1), ns, D)
    BY DEF FramesBind
  <2>1. CASE k = n + 1
    <3>1. Wanted(t, stk, k - 1) = Wanted(t, rest, n)
      BY <1>1, <1>2, <1>3, <2>1
    <3> QED BY <1>1, <2>1, <3>1
  <2>2. CASE k # n + 1
    <3>1. k \in 1..n /\ k \in 1..n + 1
      BY <1>1, <1>3, <2>2
    <3> QED BY <1>1, <1>2, <3>1 DEF FramesBind
  <2> QED BY <2>1, <2>2
<1>5. Wanted(t, stk, n + 1) = WaitMin(t, f)
  <2>1. n + 1 # 0
    BY <1>1
  <2> QED BY <1>1, <2>1 DEF Wanted
<1> QED BY <1>1, <1>4, <1>5

\* What the top activation knows, and that its minimum is what was wanted.
LEMMA TopBinds ==
  ASSUME ControlOK, stack # <<>>, NEW D, FramesBind(toks, stack, nodes, D)
  PROVE  FrameBinds(toks, Top, Top.min, nodes, D) /\ Top.min = Wanted(toks, stack, Len(stack) - 1)
<1>1. Len(stack) \in 1..Len(stack)
  BY TopGood
<1>2. FrameBinds(toks, Top, Wanted(toks, stack, Len(stack) - 1), nodes, D)
  BY <1>1 DEF FramesBind, Top
<1>3. Top.min = Wanted(toks, stack, Len(stack) - 1)
  BY <1>2 DEF FrameBinds
<1> QED BY <1>2, <1>3

\* A frame in the top one's place, with the nodes that are finished then.
LEMMA ReplaceBinds ==
  ASSUME ControlOK, NEW D, Whole(toks, nodes, D), FramesBind(toks, stack, nodes, D),
         NEW m, Moving(m), m \notin D, NEW E, Grown(D, E, m), NEW f \in Frame,
         FrameBinds(toks, f, Top.min, nodes', E), stack' = Append(Rest, f), toks' = toks
  PROVE  /\ FramesBind(toks', stack', nodes', E) /\ Top' = f
         /\ Wanted(toks', stack', Len(stack')) = WaitMin(toks, f)
<1>1. /\ FramesBind(toks, Rest, nodes', E)
      /\ Wanted(toks, Rest, Len(Rest)) = Wanted(toks, stack, Len(stack) - 1)
  BY RestBinds DEF Moving
<1>2. Top.min = Wanted(toks, Rest, Len(Rest))
  BY <1>1, TopBinds DEF Moving
<1>3. Rest \in Seq(Frame)
  <2>1. StackGood(Rest, nodes, Len(toks))
    BY TopGood DEF Moving
  <2> QED BY <2>1 DEF StackGood
<1>4. /\ FramesBind(toks, Append(Rest, f), nodes', E)
      /\ Wanted(toks, Append(Rest, f), Len(Append(Rest, f))) = WaitMin(toks, f)
  BY <1>1, <1>2, <1>3, PushBinds
<1>5. Top' = f
  BY <1>3, AppendProperties DEF Top
<1> QED BY <1>4, <1>5

\* The operator loop goes on with a node finished in this step.
LEMMA ContinueTrees ==
  ASSUME ControlOK, NEW D, Whole(toks, nodes, D), FramesBind(toks, stack, nodes, D),
         NEW m, Moving(m), m \notin D, NEW id \in 1..Len(nodes'), Fresh(id, m), Continue(id),
         NEW E, E = D \cup {id}, toks' = toks,
         Good(toks, nodes', E, id),
         Free(toks, nodes', E, id, pos'), Grips(toks, nodes', E, id, Top.min)
  PROVE  TreesInv'
<1> PICK f : f = [Top EXCEPT !.lhs = id, !.wait = "none"]
  OBVIOUS
<1>0. nodes \in Seq(Node) /\ nodes' \in Seq(Node) /\ Len(nodes') \in Nat
      /\ Len(nodes) <= Len(nodes') /\ id \in Nat /\ id # 0
  <2>1. Len(nodes') \in Nat
    BY LenProperties DEF Moving, Changed
  <2> QED BY <2>1 DEF Moving, Changed
<1>1. Top \in Frame
  BY TopGood DEF Moving
<1>2. f \in Frame /\ f.lhs = id /\ f.wait = "none" /\ f.min = Top.min
  BY <1>0, <1>1 DEF Frame, Waits
<1>3. stack' = Append(Rest, f) /\ step' = "loop"
  BY DEF Continue
<1>4. FrameBinds(toks, f, Top.min, nodes', E)
  BY <1>2 DEF FrameBinds
<1>5. Grown(D, E, m)
  BY <1>0 DEF Grown
<1>6. FramesBind(toks', stack', nodes', E) /\ Top' = f
  BY <1>2, <1>3, <1>4, <1>5, ReplaceBinds
<1>7. Keeps(nodes, nodes', D, E)
  BY <1>5, KeepsGrown DEF Whole, Moving
<1>8. Whole(toks', nodes', E)
  BY <1>0, <1>7, WholeGrows
<1>9. Made(toks', nodes', E, Top'.lhs, pos', Top'.min)
  BY <1>2, <1>6 DEF Made
<1>10. TreesOf(E)'
  BY <1>3, <1>6, <1>8, <1>9 DEF TreesOf
<1> QED BY <1>10 DEF TreesInv

\* The nodes finished before stay whole when no other is.
LEMMA WholeKept ==
  ASSUME NEW t, NEW ns \in Seq(Node), NEW next, NEW D, Whole(t, ns, D),
         Len(ns) <= Len(next), Len(next) \in Nat, Keeps(ns, next, D, D)
  PROVE  Whole(t, next, D)
<1>1. Len(ns) \in Nat /\ D \in SUBSET (1..Len(ns)) /\ \A x \in D : Good(t, ns, D, x)
  BY LenProperties DEF Whole
<1>2. D \in SUBSET (1..Len(next))
  BY <1>1
<1>3. ASSUME NEW x \in D PROVE Good(t, next, D, x)
  <2>1. ns[x] \in Node
    BY <1>1, ElementOfSeq
  <2> QED BY <1>1, <2>1, GoodKept
<1> QED BY <1>2, <1>3 DEF Whole

\* An activation calls another and waits for it.
LEMMA CallTrees ==
  ASSUME ControlOK, NEW D, Whole(toks, nodes, D), FramesBind(toks, stack, nodes, D),
         NEW m, Moving(m), m \notin D, NEW f \in Frame, NEW min, Call(f, min), toks' = toks,
         FrameBinds(toks, f, Top.min, nodes', D), min = WaitMin(toks, f)
  PROVE  TreesInv'
<1>1. stack' = Append(Rest, f) /\ step' = "enter" /\ minArg' = min
  BY DEF Call
<1>2. Grown(D, D, m)
  BY DEF Grown
<1>3. /\ FramesBind(toks', stack', nodes', D)
      /\ Wanted(toks', stack', Len(stack')) = WaitMin(toks, f)
  BY <1>1, <1>2, ReplaceBinds
<1>4. Keeps(nodes, nodes', D, D)
  BY <1>2, KeepsGrown DEF Whole, Moving
<1>5. Whole(toks', nodes', D)
  <2>1. Len(nodes') \in Nat
    BY LenProperties DEF Moving, Changed
  <2> QED BY <1>4, <2>1, WholeKept DEF Moving, Changed
<1>6. TreesOf(D)'
  BY <1>1, <1>3, <1>5 DEF TreesOf
<1> QED BY <1>6 DEF TreesInv
-----------------------------------------------------------------------------
(* Every step keeps the trees.                                             *)

LEMMA EnterTrees == ASSUME ParserInv, TreesInv, Enter PROVE TreesInv'
<1> SUFFICES ASSUME Tight' PROVE \E D : TreesOf(D)'
  BY DEF TreesInv
<1> DEFINE f == [min |-> minArg, lhs |-> 0, wait |-> "none", node |-> 0, op |-> 0, mark |-> 0]
<1>1. /\ stack' = Append(stack, f) /\ step' = "prefix" /\ step = "enter"
      /\ UNCHANGED <<driver, pos, nodes, diags>>
  BY DEF Enter
<1>2. f \in Frame /\ f.wait = "none" /\ f.min = minArg /\ stack \in Seq(Frame)
  <2>1. minArg \in Nat
    BY ConstantsOK DEF ParserInv, ControlOK
  <2> QED BY <2>1 DEF Frame, Waits, ParserInv, ControlOK, StackGood
<1> HIDE DEF f
<1>3. Tight /\ toks' = toks /\ nodes' = nodes
  BY <1>1, TightKept
<1>4. PICK D : TreesOf(D)
  BY <1>1, <1>3 DEF TreesInv
<1>5. /\ Whole(toks, nodes, D) /\ FramesBind(toks, stack, nodes, D)
      /\ minArg = Wanted(toks, stack, Len(stack))
  BY <1>1, <1>4 DEF TreesOf
<1>6. FrameBinds(toks, f, Wanted(toks, stack, Len(stack)), nodes, D)
  BY <1>2, <1>5 DEF FrameBinds
<1>7. FramesBind(toks, Append(stack, f), nodes, D)
  BY <1>2, <1>5, <1>6, PushBinds
<1>8. TreesOf(D)'
  BY <1>1, <1>3, <1>5, <1>7 DEF TreesOf
<1> QED BY <1>8

LEMMA EndLoopTrees == ASSUME ParserInv, SpansInv, TreesInv, EndLoop PROVE TreesInv'
<1> SUFFICES ASSUME Tight' PROVE \E D : TreesOf(D)'
  BY DEF TreesInv
<1>1. /\ step = "loop" /\ Leave(Top.lhs) /\ UNCHANGED driver
      /\ pos' = pos /\ nodes' = nodes /\ diags' = diags
      /\ ~AtPostfix /\ ~AtInfix /\ (AtCall => mayFail)
  BY DEF EndLoop
<1>2. ControlOK /\ stack # <<>>
  BY <1>1, LoopFacts
<1>3. Tight /\ toks' = toks /\ ~mayFail
  BY <1>1, TightKept DEF Tight
<1>4. PICK D : TreesOf(D)
  BY <1>1, <1>3 DEF TreesInv
<1>5. /\ Whole(toks, nodes, D) /\ FramesBind(toks, stack, nodes, D)
      /\ Made(toks, nodes, D, Top.lhs, pos, Top.min)
  BY <1>1, <1>4 DEF TreesOf
<1>6. /\ FramesBind(toks, Rest, nodes, D)
      /\ Top.min = Wanted(toks, Rest, Len(Rest))
  <2> PICK none : none = 0
    OBVIOUS
  <2>1. Changed(nodes, nodes', none)
    BY <1>1, SameNodes
  <2>2. none \notin D /\ Grown(D, D, none)
    BY <1>5 DEF Whole, Grown
  <2>3. /\ FramesBind(toks, Rest, nodes', D)
        /\ Wanted(toks, Rest, Len(Rest)) = Wanted(toks, stack, Len(stack) - 1)
    BY <1>2, <1>5, <2>1, <2>2, RestBinds
  <2> QED BY <1>1, <1>2, <1>5, <2>3, TopBinds
<1>7. stack' = Rest /\ ret' = Top.lhs /\ step' = "return"
  BY <1>1 DEF Leave
<1>8. ~Ahead(toks, pos, Top.min)
  BY <1>1, <1>3 DEF Ahead, AtPostfix, AtInfix, AtCall
<1>9. TreesOf(D)'
  BY <1>1, <1>3, <1>5, <1>6, <1>7, <1>8 DEF TreesOf
<1> QED BY <1>9

LEMMA PlainGood ==
  ASSUME NEW t, NEW ns, NEW E, NEW id \in E, NEW n, n = ns[id],
         n.kind \in {"ident", "literal", "group"}, KidsOf(n) \subseteq E, Derived(t, ns, n)
  PROVE  /\ Good(t, ns, E, id)
         /\ \A p : Free(t, ns, E, id, p)
         /\ \A k : Grips(t, ns, E, id, k)
<1>1. /\ n.kind \notin {"unary", "binary", "selector", "call"}
  OBVIOUS
<1>2. ~Takes(n) /\ ~Joined(n) /\ n.kind # "call" /\ ~IsPostfix(n)
  BY <1>1 DEF Takes, Joined, IsPrefix, IsPostfix
<1>3. LeftOf(n) = {} /\ RightOf(n) = {}
  BY <1>2 DEF LeftOf, RightOf
<1>4. Looped(t, n)
  BY <1>1, <1>2 DEF Looped
<1>5. Good(t, ns, E, id)
  BY <1>3, <1>4 DEF Good
<1> QED BY <1>2, <1>5, FreeAlone, GripsAlone

\* What a step that reports nothing begins from.
LEMMA TreesBefore ==
  ASSUME TreesInv, step # "idle", UNCHANGED driver, Tight' => Tight, Tight'
  PROVE  /\ toks' = toks /\ start' = start /\ ~mayFail /\ Tight
         /\ \E D : /\ TreesOf(D) /\ D \in SUBSET (1..Len(nodes)) /\ Whole(toks, nodes, D)
                   /\ FramesBind(toks, stack, nodes, D)
<1>1. toks' = toks /\ start' = start /\ ~mayFail
  BY DEF driver, Tight
<1>2. PICK D : TreesOf(D)
  BY DEF TreesInv
<1> QED BY <1>1, <1>2 DEF TreesOf, Whole

LEMMA NoKids ==
  ASSUME NEW n, n.kids = <<>>
  PROVE  KidsOf(n) = {}
<1>1. 1..Len(n.kids) = {}
  OBVIOUS
<1> QED BY <1>1 DEF KidsOf

LEMMA AtomTrees == ASSUME ParserInv, SpansInv, TreesInv, Atom PROVE TreesInv'
<1> SUFFICES ASSUME Tight' PROVE TreesInv'
  BY DEF TreesInv
<1>1. /\ step = "prefix" /\ pos' = Advance(pos) /\ UNCHANGED driver /\ diags' = diags
      /\ AtAtom /\ toks[pos] # "eof"
  BY DEF Atom, AtAtom
<1> PICK kind : kind = IF toks[pos] = "id" THEN "ident" ELSE "literal"
  OBVIOUS
<1> PICK node : node = MakeNode(kind, pos, SpanOf(pos), <<>>)
  OBVIOUS
<1>2. PICK id \in Allocated : nodes' = Store(id, node) /\ HavePrefix(id)
  BY <1>1 DEF Atom
<1>3. /\ InputOK /\ ControlOK /\ stack # <<>> /\ Top.wait = "none"
      /\ pos \in Nat \ {0} /\ pos \in 1..Len(toks) /\ TokensOK
  BY <1>1, AtPrefix, InputFacts DEF ControlOK, StepOK
<1>4. (Tight' => Tight) /\ toks' = toks /\ ~mayFail /\ start' = start
  BY <1>1, TightKept, TreesBefore
<1>5. PICK D : /\ D \in SUBSET (1..Len(nodes)) /\ Whole(toks, nodes, D)
               /\ FramesBind(toks, stack, nodes, D)
  BY <1>1, <1>4, TreesBefore
<1>6. /\ node \in Node /\ node.kids = <<>> /\ node.span = SpanOf(pos)
      /\ node.kind = kind /\ node.tok = pos
  <2>1. pos \in Nat /\ SpanOf(pos) \in Span /\ <<>> \in Seq(Nat)
    BY <1>3, InputFacts
  <2>2. kind \in Kinds
    BY DEF Kinds
  <2> QED BY <2>1, <2>2, MakeNodeOK DEF MakeNode
<1>7. /\ Changed(nodes, nodes', 0) /\ id \in 0..Len(nodes') /\ id # 0 /\ nodes'[id] = node
  BY <1>2, <1>4, <1>6, StoredNode
<1>8. id \in 1..Len(nodes') /\ Fresh(id, 0)
  <2>1. Len(nodes) \in Nat /\ id = Len(nodes) + 1 /\ Len(nodes') \in Nat
    BY <1>2, <1>3, <1>7, NodesLen, LenProperties DEF Allocated, Changed
  <2> QED BY <1>7, <2>1 DEF Fresh
<1> PICK E : E = D \cup {id}
  OBVIOUS
<1>9. Derived(toks, nodes', node)
  <2>1. node.span.start + 1 = pos /\ SpanEnd(node.span) = pos
    BY <1>1, <1>3, <1>6, TokenSpan DEF Advance
  <2>2. (kind = "ident" /\ toks[pos] = "id") \/ (kind = "literal" /\ toks[pos] = "lit")
    BY <1>1 DEF AtAtom
  <2> QED BY <1>3, <1>6, <2>1, <2>2 DEF Derived
<1>10. /\ Good(toks, nodes', E, id)
       /\ Free(toks, nodes', E, id, pos') /\ Grips(toks, nodes', E, id, Top.min)
  <2>1. kind \in {"ident", "literal", "group"} /\ KidsOf(node) \subseteq E
    BY <1>6, NoKids
  <2> QED BY <1>6, <1>7, <1>9, <2>1, PlainGood
<1>11. Moving(0)
  BY <1>3, <1>4, <1>7 DEF Moving
<1>12. Continue(id)
  BY <1>2, <1>7 DEF HavePrefix
<1> QED BY <1>3, <1>4, <1>5, <1>8, <1>10, <1>11, <1>12, ContinueTrees

\* An activation that opens a group or applies a prefix operator.
LEMMA OpenedTrees ==
  ASSUME ParserInv, SpansInv, TreesInv, step = "prefix", UNCHANGED driver, diags' = diags,
         NEW kind \in Kinds, NEW id \in Allocated,
         nodes' = Store(id, MakeNode(kind, pos, SpanOf(pos), <<>>)),
         NEW wait \in {"group", "prefix"}, NEW min, Call(Awaiting(Top, wait, id, pos), min),
         wait = "group" => kind = "group" /\ toks[pos] = "(" /\ min = 0,
         wait = "prefix" => /\ IsOperator(toks[pos], "prefix")
                            /\ min = OperatorFor(toks[pos], "prefix").prec
  PROVE  TreesInv'
<1> SUFFICES ASSUME Tight' PROVE TreesInv'
  BY DEF TreesInv
<1> PICK node : node = MakeNode(kind, pos, SpanOf(pos), <<>>)
  OBVIOUS
<1> PICK f : f = Awaiting(Top, wait, id, pos)
  OBVIOUS
<1>1. /\ InputOK /\ ControlOK /\ stack # <<>> /\ Top.wait = "none" /\ Top \in Frame
      /\ pos \in Nat \ {0} /\ SpanOf(pos) \in Span
  BY AtPrefix, InputFacts DEF ControlOK, StepOK
<1>2. (Tight' => Tight) /\ toks' = toks /\ ~mayFail /\ start' = start
  BY TightKept, TreesBefore
<1>3. PICK D : /\ D \in SUBSET (1..Len(nodes)) /\ Whole(toks, nodes, D)
               /\ FramesBind(toks, stack, nodes, D)
  BY <1>2, TreesBefore
<1>4. node \in Node /\ node.kind = kind /\ node.tok = pos
  <2>1. <<>> \in Seq(Nat) /\ pos \in Nat
    BY <1>1
  <2> QED BY <1>1, <2>1, MakeNodeOK DEF MakeNode
<1>5. /\ Changed(nodes, nodes', 0) /\ id \in Nat /\ id # 0 /\ nodes'[id] = node
  BY <1>2, <1>4, StoredNode
<1>6. id \notin D
  <2>1. Len(nodes) \in Nat /\ id = Len(nodes) + 1
    BY <1>1, <1>5, NodesLen DEF Allocated
  <2> QED BY <1>3, <2>1
<1>7. f \in Frame /\ f.wait = wait /\ f.node = id /\ f.op = pos /\ f.min = Top.min
  BY <1>1, <1>5 DEF Awaiting, Frame, Waits
<1>8. FrameBinds(toks, f, Top.min, nodes', D)
  BY <1>4, <1>5, <1>6, <1>7 DEF FrameBinds
<1>9. min = WaitMin(toks, f)
  BY <1>7 DEF WaitMin
<1>10. Moving(0)
  BY <1>1, <1>2, <1>5 DEF Moving
<1>11. 0 \notin D
  BY <1>3
<1>12. Call(f, min) /\ f \in Frame
  BY <1>7
<1> QED BY <1>1, <1>2, <1>3, <1>8, <1>9, <1>10, <1>11, <1>12, CallTrees

LEMMA OpenGroupTrees == ASSUME ParserInv, SpansInv, TreesInv, OpenGroup PROVE TreesInv'
<1>1. step = "prefix" /\ UNCHANGED driver /\ diags' = diags /\ toks[pos] = "("
  BY DEF OpenGroup
<1>2. PICK id \in Allocated :
        /\ nodes' = Store(id, MakeNode("group", pos, SpanOf(pos), <<>>))
        /\ Call(Awaiting(Top, "group", id, pos), 0)
  BY DEF OpenGroup, Awaiting
<1>3. "group" \in Kinds /\ "group" \in {"group", "prefix"} /\ "group" # "prefix"
  BY DEF Kinds
<1> QED BY <1>1, <1>2, <1>3, OpenedTrees

LEMMA PrefixOperatorTrees ==
  ASSUME ParserInv, SpansInv, TreesInv, PrefixOperator PROVE TreesInv'
<1>1. /\ step = "prefix" /\ UNCHANGED driver /\ diags' = diags
      /\ IsOperator(toks[pos], "prefix")
  BY DEF PrefixOperator
<1> PICK min : min = OperatorFor(toks[pos], "prefix").prec
  OBVIOUS
<1>2. PICK id \in Allocated :
        /\ nodes' = Store(id, MakeNode("unary", pos, SpanOf(pos), <<>>))
        /\ Call(Awaiting(Top, "prefix", id, pos), min)
  BY DEF PrefixOperator, Awaiting
<1>3. "unary" \in Kinds /\ "prefix" \in {"group", "prefix"} /\ "prefix" # "group"
  BY DEF Kinds
<1> QED BY <1>1, <1>2, <1>3, OpenedTrees

LEMMA InfixTrees == ASSUME ParserInv, SpansInv, TreesInv, InfixOperator PROVE TreesInv'
<1> SUFFICES ASSUME Tight' PROVE TreesInv'
  BY DEF TreesInv
<1> PICK f : f = [Top EXCEPT !.wait = "infix", !.op = pos]
  OBVIOUS
<1> PICK min : min = NextMin(OperatorFor(toks[pos], "infix"))
  OBVIOUS
<1>1. /\ step = "loop" /\ UNCHANGED driver /\ diags' = diags /\ nodes' = nodes
      /\ AtInfix /\ Call(f, min)
  BY DEF InfixOperator
<1>2. /\ ControlOK /\ stack # <<>> /\ Top.wait = "none" /\ Top \in Frame /\ pos \in Nat
  BY <1>1, LoopFacts
<1>3. (Tight' => Tight) /\ toks' = toks /\ start' = start
  BY <1>1, TightKept
<1>4. PICK D : /\ TreesOf(D) /\ D \in SUBSET (1..Len(nodes)) /\ Whole(toks, nodes, D)
               /\ FramesBind(toks, stack, nodes, D)
  BY <1>1, <1>3, TreesBefore
<1>5. Made(toks, nodes, D, Top.lhs, pos, Top.min)
  BY <1>1, <1>4 DEF TreesOf
<1>6. f \in Frame /\ f.wait = "infix" /\ f.op = pos /\ f.lhs = Top.lhs /\ f.min = Top.min
  BY <1>2 DEF Frame, Waits
<1>7. FrameBinds(toks, f, Top.min, nodes', D)
  BY <1>1, <1>5, <1>6 DEF FrameBinds, AtInfix
<1>8. min = WaitMin(toks, f)
  BY <1>6 DEF WaitMin
<1>9. Moving(0)
  <2>1. Changed(nodes, nodes', 0)
    BY <1>1, SameNodes
  <2> QED BY <1>2, <1>3, <2>1 DEF Moving
<1>10. 0 \notin D
  BY <1>4
<1> QED BY <1>1, <1>2, <1>3, <1>4, <1>6, <1>7, <1>8, <1>9, <1>10, CallTrees

\* An infix operator in the selector's role is a selector.
LEMMA SelectorIs ==
  ASSUME NEW symbol, IsOperator(symbol, "infix"),
         "selector" \in OperatorFor(symbol, "infix").roles
  PROVE  IsOperator(symbol, "selector")
<1> DEFINE E == Entries(symbol, "infix")
           first == CHOOSE i \in E : \A j \in E : i <= j
<1>1. /\ E # {} /\ E \subseteq DOMAIN Operators
      /\ \A i \in E : Operators[i].symbol = symbol
  BY DEF IsOperator, Entries
<1>2. Operators \in Seq(Operator) /\ DOMAIN Operators = 1..Len(Operators)
  BY ConstantsOK, LenProperties
<1>3. E \in SUBSET Nat
  BY <1>1, <1>2
<1> HIDE DEF E
<1>4. \E i \in E : \A j \in E : i <= j
  BY <1>1, <1>3, LeastNumber
<1>5. first \in E
  BY <1>4
<1>6. OperatorFor(symbol, "infix") = Operators[first]
  BY DEF OperatorFor, E
<1> HIDE DEF first
<1>7. first \in DOMAIN Operators /\ Operators[first].symbol = symbol
  BY <1>1, <1>5
<1>8. first \in Entries(symbol, "selector")
  BY <1>6, <1>7 DEF Entries
<1> QED BY <1>8 DEF IsOperator

\* A node over the left-hand side, its operator after that.
LEMMA LhsTrees ==
  ASSUME ParserInv, SpansInv, TreesInv, Tight', step = "loop", UNCHANGED driver, diags' = diags,
         NEW id \in Allocated, NEW node \in Node, node.kids = <<Top.lhs>>,
         nodes' = Store(id, node), HavePrefix(id), ~Takes(node), Joined(node),
         OpAt(node) = pos, OpOf(toks, node).prec >= Top.min, Looped(toks, node),
         Derived(toks, nodes, node)
  PROVE  TreesInv'
<1>1. /\ ControlOK /\ stack # <<>> /\ Top.wait = "none" /\ nodes \in Seq(Node)
      /\ Top.lhs \in 1..Len(nodes) /\ Top.lhs \in Nat
  BY LoopFacts
<1>2. (Tight' => Tight) /\ toks' = toks /\ ~mayFail /\ start' = start
  BY TightKept, TreesBefore
<1>3. PICK D : /\ TreesOf(D) /\ D \in SUBSET (1..Len(nodes)) /\ Whole(toks, nodes, D)
               /\ FramesBind(toks, stack, nodes, D)
  BY <1>2, TreesBefore
<1> PICK lhs : lhs = Top.lhs
  OBVIOUS
<1>4. Made(toks, nodes, D, lhs, pos, Top.min)
  BY <1>3 DEF TreesOf
<1>5. /\ Changed(nodes, nodes', 0) /\ id \in 0..Len(nodes') /\ id # 0 /\ nodes'[id] = node
  BY <1>2, StoredNode
<1>6. id \in 1..Len(nodes') /\ Fresh(id, 0)
  <2>1. Len(nodes) \in Nat /\ id = Len(nodes) + 1 /\ Len(nodes') \in Nat
    BY <1>1, <1>5, NodesLen, LenProperties DEF Allocated, Changed
  <2> QED BY <1>5, <2>1 DEF Fresh
<1> PICK E : E = D \cup {id}
  OBVIOUS
<1>7. Keeps(nodes, nodes', D, E)
  <2>1. Grown(D, E, 0)
    BY <1>5, <1>6 DEF Grown
  <2>2. 0 \notin D
    BY <1>3
  <2> QED BY <1>3, <1>5, <2>1, <2>2, KeepsGrown
<1>8. Made(toks, nodes', E, lhs, pos, Top.min)
  BY <1>4, <1>7, MadeKept
<1>9. Len(node.kids) = 1 /\ node.kids[1] = lhs /\ node.kids # <<>>
  BY OneKidApart
<1>10. KidsOf(node) = {lhs} /\ LeftOf(node) = {lhs} /\ RightOf(node) = {}
  <2>1. \A i \in 1..Len(node.kids) : i = 1
    BY <1>9
  <2>2. 1 \in 1..Len(node.kids)
    BY <1>9
  <2>3. KidsOf(node) = {lhs}
    BY <1>9, <2>1, <2>2 DEF KidsOf
  <2> QED BY <1>9, <2>3 DEF LeftOf, RightOf, Joined
<1>11. Derived(toks, nodes', node)
  <2>1. \A k \in 1..Len(node.kids) : nodes'[node.kids[k]] = nodes[node.kids[k]]
    <3>1. \A k \in 1..Len(node.kids) : k = 1
      BY <1>9
    <3>2. lhs \in D
      BY <1>4 DEF Made
    <3> QED BY <1>7, <1>9, <3>1, <3>2 DEF Keeps
  <2>2. Len(node.kids) \in Nat /\ (node.kids # <<>> => Len(node.kids) # 0)
    BY <1>9
  <2> QED BY <2>1, <2>2, DerivedKept
<1>12. Good(toks, nodes', E, id)
  <2>1. Free(toks, nodes', E, lhs, OpAt(node)) /\ lhs \in E
    BY <1>8 DEF Made
  <2> QED BY <1>5, <1>10, <1>11, <2>1 DEF Good
<1>13. Free(toks, nodes', E, id, pos') /\ Grips(toks, nodes', E, id, Top.min)
  <2>1. id \in E
    OBVIOUS
  <2>2. Free(toks, nodes', E, id, pos')
    BY <1>5, <2>1, FreeAlone
  <2>3. Grips(toks, nodes', E, lhs, Top.min)
    BY <1>8 DEF Made
  <2>4. LeftOf(nodes'[id]) \subseteq {lhs}
    BY <1>5, <1>10
  <2>5. Joined(nodes'[id]) => OpOf(toks, nodes'[id]).prec >= Top.min
    BY <1>5
  <2>6. Grips(toks, nodes', E, id, Top.min)
    BY <2>1, <2>3, <2>4, <2>5, GripsOver
  <2> QED BY <2>2, <2>6
<1>14. Moving(0)
  BY <1>1, <1>2, <1>5 DEF Moving
<1>15. Continue(id) /\ 0 \notin D
  BY <1>3, <1>5 DEF HavePrefix
<1> QED BY <1>1, <1>2, <1>3, <1>6, <1>12, <1>13, <1>14, <1>15, ContinueTrees

LEMMA PostfixTrees == ASSUME ParserInv, SpansInv, TreesInv, PostfixOperator PROVE TreesInv'
<1> SUFFICES ASSUME Tight' PROVE TreesInv'
  BY DEF TreesInv
<1>1. /\ step = "loop" /\ UNCHANGED driver /\ diags' = diags /\ AtPostfix
      /\ IsOperator(toks[pos], "postfix")
  BY DEF PostfixOperator, AtPostfix
<1> PICK node : node = MakeNode("unary", pos, SpanUnion(SpanIn(Top.lhs), SpanOf(pos)),
                                <<Top.lhs>>)
  OBVIOUS
<1>2. PICK id \in Allocated : nodes' = Store(id, node) /\ HavePrefix(id)
  BY DEF PostfixOperator
<1> PICK b : b = From(Len(stack))
  OBVIOUS
<1>3. toks[pos] # "eof" /\ Tight
  BY <1>1, OperatorForOK, TightKept
<1>4. /\ pos \in 1..Len(toks) /\ pos \in Nat \ {0} /\ b \in Nat \ {0}
      /\ SpanIn(Top.lhs) = nodes[Top.lhs].span
      /\ Fills(nodes[Top.lhs].span, b, pos)
  BY <1>1, <1>3, LoopFacts DEF Produced
<1>5. b < pos
  BY <1>4 DEF Fills
<1>6. /\ node \in Node /\ node.kids = <<Top.lhs>> /\ node.kind = "unary" /\ node.tok = pos
      /\ node.span = SpanUnion(nodes[Top.lhs].span, SpanOf(pos))
  <2>1. SpanUnion(SpanIn(Top.lhs), SpanOf(pos)) \in Span /\ <<Top.lhs>> \in Seq(Nat)
    BY <1>1, OneKid, InputFacts, SpanUnionOK DEF ParserInv
  <2>2. "unary" \in Kinds
    BY DEF Kinds
  <2> QED BY <1>4, <2>1, <2>2, MakeNodeOK DEF MakeNode
<1>7. Fills(node.span, b, pos + 1)
  <2>1. pos + 1 = Advance(pos) /\ pos + 1 \in Nat \ {0} /\ pos <= pos
    BY <1>3, <1>4 DEF Advance
  <2> QED BY <1>1, <1>3, <1>4, <1>6, <2>1, LhsUnion
<1>8. node.span.start + 1 = b /\ SpanEnd(node.span) = pos
  BY <1>4, <1>7 DEF Fills
<1>9. ~IsPrefix(node) /\ IsPostfix(node)
  BY <1>4, <1>5, <1>6, <1>8 DEF IsPrefix, IsPostfix
<1>10. /\ ~Takes(node) /\ Joined(node) /\ OpAt(node) = pos
       /\ OpOf(toks, node) = OperatorFor(toks[pos], "postfix")
  BY <1>6, <1>9 DEF Takes, Joined, OpAt, OpOf
<1>11. Looped(toks, node) /\ OpOf(toks, node).prec >= Top.min
  BY <1>1, <1>6, <1>10 DEF Looped, AtPostfix
<1>12. Derived(toks, nodes, node)
  <2>1. Len(node.kids) = 1 /\ node.kids[1] = Top.lhs
    BY <1>6, OneKidApart
  <2>2. Fills(nodes[node.kids[1]].span, b, pos - 1 + 1)
    BY <1>4, <2>1
  <2>3. b <= pos
    BY <1>4, <1>5
  <2> QED BY <1>1, <1>6, <1>8, <1>9, <2>1, <2>2, <2>3 DEF Derived
<1> QED BY <1>1, <1>2, <1>6, <1>10, <1>11, <1>12, LhsTrees

LEMMA SelectorTrees == ASSUME ParserInv, SpansInv, TreesInv, Selector PROVE TreesInv'
<1> SUFFICES ASSUME Tight' PROVE TreesInv'
  BY DEF TreesInv
<1> PICK next : next = pos + 1
  OBVIOUS
<1>1. /\ step = "loop" /\ UNCHANGED driver /\ diags' = diags /\ AtSelector
      /\ toks[next] = "id" /\ IsOperator(toks[pos], "infix")
      /\ OperatorFor(toks[pos], "infix").prec >= Top.min
      /\ IsOperator(toks[pos], "selector")
  BY SelectorIs DEF Selector, AtSelector, AtInfix
<1> PICK node : node = MakeNode("selector", next, SpanUnion(SpanIn(Top.lhs), SpanOf(next)),
                                <<Top.lhs>>)
  OBVIOUS
<1>2. PICK id \in Allocated : nodes' = Store(id, node) /\ HavePrefix(id)
  BY DEF Selector
<1> PICK b : b = From(Len(stack))
  OBVIOUS
<1>3. toks[pos] # "eof" /\ toks[next] # "eof" /\ Tight
  BY <1>1, OperatorForOK, TightKept
<1>4. /\ InputOK /\ pos \in 1..Len(toks) /\ pos \in Nat \ {0} /\ b \in Nat \ {0}
      /\ SpanIn(Top.lhs) = nodes[Top.lhs].span
      /\ Fills(nodes[Top.lhs].span, b, pos)
  BY <1>1, <1>3, LoopFacts DEF Produced
<1>5. b < pos /\ next \in 1..Len(toks) /\ next \in Nat \ {0} /\ pos <= next
  <2>1. b < pos
    BY <1>4 DEF Fills
  <2>2. next \in 1..Len(toks) /\ next \in Nat \ {0}
    BY <1>1, <1>4, AfterSelector
  <2> QED BY <1>4, <2>1, <2>2
<1>6. /\ node \in Node /\ node.kids = <<Top.lhs>> /\ node.kind = "selector" /\ node.tok = next
      /\ node.span = SpanUnion(nodes[Top.lhs].span, SpanOf(next))
  <2>1. SpanUnion(SpanIn(Top.lhs), SpanOf(next)) \in Span /\ <<Top.lhs>> \in Seq(Nat)
    BY <1>1, <1>5, OneKid, SpanOfOK, SpanUnionOK
  <2>2. "selector" \in Kinds /\ next \in Nat
    BY <1>5 DEF Kinds
  <2> QED BY <1>4, <2>1, <2>2, MakeNodeOK DEF MakeNode
<1>7. Fills(node.span, b, next + 1)
  <2>1. next + 1 = Advance(next) /\ next + 1 \in Nat \ {0}
    BY <1>3, <1>5 DEF Advance
  <2> QED BY <1>1, <1>3, <1>5, <1>6, <2>1, LhsUnion
<1>8. node.span.start + 1 = b /\ SpanEnd(node.span) = next
  BY <1>4, <1>5, <1>7 DEF Fills
<1>9. ~IsPrefix(node) /\ ~IsPostfix(node)
  BY <1>6 DEF IsPrefix, IsPostfix
<1>10. /\ ~Takes(node) /\ Joined(node) /\ OpAt(node) = pos
       /\ OpOf(toks, node) = OperatorFor(toks[pos], "infix")
  <2>1. next - 1 = pos
    BY <1>4
  <2> QED BY <1>6, <1>9, <2>1 DEF Takes, Joined, OpAt, OpOf
<1>11. Looped(toks, node) /\ OpOf(toks, node).prec >= Top.min
  BY <1>1, <1>6, <1>9, <1>10 DEF Looped
<1>12. Derived(toks, nodes, node)
  <2>1. Len(node.kids) = 1 /\ node.kids[1] = Top.lhs
    BY <1>6, OneKidApart
  <2>2. Fills(nodes[node.kids[1]].span, b, next - 2 + 1) /\ next - 1 = pos /\ b <= next
    <3>1. next - 2 + 1 = pos /\ next - 1 = pos /\ b <= next
      BY <1>4, <1>5
    <3> QED BY <1>4, <2>1, <3>1
  <2> QED BY <1>1, <1>6, <1>8, <2>1, <2>2 DEF Derived
<1> QED BY <1>1, <1>2, <1>6, <1>10, <1>11, <1>12, LhsTrees

\* What an activation finds when the one above it has returned a tree.
LEMMA ReturnTrees ==
  ASSUME ParserInv, SpansInv, NEW place \in Waits \ {"none"}, Returned(place), Tight,
         NEW D, TreesOf(D)
  PROVE  LET mk == IF place = "argument" THEN Top.mark ELSE Top.op + 1
             k  == WaitMin(toks, Top)
         IN  /\ Whole(toks, nodes, D) /\ FramesBind(toks, stack, nodes, D)
             /\ D \in SUBSET (1..Len(nodes))
             /\ ret \in D /\ ret \in 1..Len(nodes) /\ ret \in Nat /\ ret # 0
             /\ Fills(nodes[ret].span, mk, pos)
             /\ Free(toks, nodes, D, ret, pos) /\ Grips(toks, nodes, D, ret, k)
             /\ ~Ahead(toks, pos, k)
             /\ FrameBinds(toks, Top, Top.min, nodes, D)
<1> PICK mk : mk = IF place = "argument" THEN Top.mark ELSE Top.op + 1
  OBVIOUS
<1> PICK k : k = WaitMin(toks, Top)
  OBVIOUS
<1>1. /\ ControlOK /\ stack # <<>> /\ Top.wait = place
      /\ Produced(nodes, ret, mk, pos, AtEof, Tight) /\ step = "return"
  BY ReturnFacts DEF Returned
<1>2. ret # 0 /\ Fills(nodes[ret].span, mk, pos)
  BY <1>1 DEF Produced
<1>3. Whole(toks, nodes, D) /\ FramesBind(toks, stack, nodes, D)
  BY DEF TreesOf
<1>4. Wanted(toks, stack, Len(stack)) = k
  <2>1. Len(stack) # 0
    BY <1>1, TopGood
  <2> QED BY <2>1 DEF Wanted, Top
<1>5. Made(toks, nodes, D, ret, pos, k) /\ ~Ahead(toks, pos, k)
  BY <1>1, <1>4 DEF TreesOf
<1>6. FrameBinds(toks, Top, Top.min, nodes, D)
  BY <1>1, <1>3, TopBinds
<1>7. D \in SUBSET (1..Len(nodes))
  BY <1>3 DEF Whole
<1>8. ret \in D /\ Free(toks, nodes, D, ret, pos) /\ Grips(toks, nodes, D, ret, k)
  BY <1>5 DEF Made
<1>9. ret \in 1..Len(nodes) /\ ret \in Nat
  BY <1>7, <1>8
<1> QED BY <1>2, <1>3, <1>5, <1>6, <1>7, <1>8, <1>9

\* Finishing a node changes nothing but its span.
LEMMA FinishedSame ==
  ASSUME NEW node \in Node, NEW p
  PROVE  LET n == Finished(node, p)
         IN  n.kind = node.kind /\ n.tok = node.tok /\ n.kids = node.kids
<1>1. \E s : Finished(node, p) = [node EXCEPT !.span = s]
  BY Zenon DEF Finished
<1>2. PICK s : Finished(node, p) = [node EXCEPT !.span = s]
  BY <1>1
<1> QED BY <1>2 DEF Node

\* The node that a group or a call completes.
LEMMA CompletedIs ==
  ASSUME ParserInv, SpansInv, NEW place \in {"group", "argument"}, Returned(place), Top.node # 0,
         ret # 0, NEW p
  PROVE  LET n == Completed(Top.node, p)
         IN  /\ n.kind = nodes[Top.node].kind /\ n.tok = nodes[Top.node].tok
             /\ n.kids = Append(nodes[Top.node].kids, ret) /\ n.kids \in Seq(Nat)
<1> PICK m : m = Top.node
  OBVIOUS
<1> PICK kids : kids = WithKid(nodes[m].kids, ret)
  OBVIOUS
<1>1. nodes[m] \in Node /\ Row(nodes, kids, From(Len(stack)), pos)
  BY GrownKids
<1>2. kids \in Seq(Nat) /\ kids = Append(nodes[m].kids, ret)
  BY <1>1 DEF Row, KidsIn, WithKid
<1> PICK open : open = [nodes[m] EXCEPT !.kids = kids]
  OBVIOUS
<1>3. open \in Node /\ open.kind = nodes[m].kind /\ open.tok = nodes[m].tok /\ open.kids = kids
  BY <1>1, <1>2 DEF Node
<1> PICK n : n = Finished(open, p)
  OBVIOUS
<1>4. n = Completed(Top.node, p)
  BY DEF Completed
<1>5. n.kind = open.kind /\ n.tok = open.tok /\ n.kids = open.kids
  BY <1>3, FinishedSame
<1>6. n.kind = nodes[m].kind /\ n.tok = nodes[m].tok /\ n.kids = Append(nodes[m].kids, ret)
  BY <1>2, <1>3, <1>5, Zenon
<1>7. n.kids \in Seq(Nat)
  BY <1>2, <1>3, <1>5, Zenon
<1> QED BY <1>4, <1>6, <1>7, Zenon

LEMMA OneKidOf ==
  ASSUME NEW n, NEW kid, n.kids = <<kid>>
  PROVE  Len(n.kids) = 1 /\ n.kids[1] = kid /\ n.kids # <<>> /\ KidsOf(n) = {kid}
<1>1. Len(n.kids) = 1 /\ n.kids[1] = kid /\ n.kids # <<>>
  BY OneKidApart
<1>2. \A i \in 1..Len(n.kids) : i = 1
  BY <1>1
<1>3. 1 \in 1..Len(n.kids)
  BY <1>1
<1> QED BY <1>1, <1>2, <1>3 DEF KidsOf

\* The span of the node that the operator loop goes on with.
LEMMA ContinuedFills ==
  ASSUME ControlOK, stack # <<>>, SpansInv', NEW id \in Nat, Continue(id), start' = start, Tight'
  PROVE  Fills(nodes'[id].span, From(Len(stack)), pos')
<1> PICK f : f = [Top EXCEPT !.lhs = id, !.wait = "none"]
  OBVIOUS
<1> PICK n : n = Len(stack)
  OBVIOUS
<1>1. /\ Top \in Frame /\ n \in Nat \ {0} /\ Len(Rest) = n - 1 /\ stack \in Seq(Frame)
      /\ StackGood(Rest, nodes, Len(toks))
  BY TopGood DEF ControlOK, StackGood
<1>2. f \in Frame /\ f.lhs = id /\ Rest \in Seq(Frame)
  BY <1>1 DEF Frame, Waits, StackGood
<1>3. stack' = Append(Rest, f) /\ step' = "loop"
  BY DEF Continue
<1>4. Len(stack') = n /\ stack'[n] = f /\ \A k \in 1..n - 1 : stack'[k] = Rest[k]
  BY <1>1, <1>2, <1>3, AppendProperties
<1>5. \A k \in 1..n - 1 : Rest[k] = stack[k]
  BY <1>1 DEF Rest
<1>6. Top' = f
  BY <1>4 DEF Top
<1>7. (From(Len(stack)))' = From(n)
  <2>1. n # 1 => n - 1 \in 1..n - 1
    BY <1>1
  <2>2. n # 1 => stack'[n - 1] = stack[n - 1]
    BY <1>4, <1>5, <2>1
  <2> QED BY <1>4, <2>2 DEF From, Begin
<1>8. Produced(nodes', id, From(n), pos', AtEof', Tight')
  BY <1>2, <1>3, <1>6, <1>7 DEF SpansInv
<1> QED BY <1>8 DEF Produced

LEMMA CloseGroupTrees ==
  ASSUME ParserInv, ParserInv', SpansInv, TreesInv, CloseGroup PROVE TreesInv'
<1> SUFFICES ASSUME Tight' PROVE TreesInv'
  BY DEF TreesInv
<1>1. Returned("group") /\ UNCHANGED driver /\ HavePrefix(Top.node) /\ step = "return"
  BY DEF CloseGroup, Returned
<1>2. PICK after :
        /\ after \in Expecting(")", "expected )")
        /\ pos' = after.pos /\ diags' = after.diags
        /\ nodes' = IF Top.node = 0 THEN nodes
                    ELSE [nodes EXCEPT ![Top.node] = Completed(Top.node, after.pos)]
  BY DEF CloseGroup
<1> PICK b : b = From(Len(stack))
  OBVIOUS
<1>3. /\ InputOK /\ ControlOK /\ stack # <<>> /\ Top.wait = "group" /\ Top.op \in Nat
      /\ pos \in 1..Len(toks) /\ Len(toks) \in Nat /\ FrameSpans(Top, nodes, b, Tight)
      /\ b \in Nat \ {0}
  <2>1. "group" \in Waits \ {"none"}
    BY DEF Waits
  <2> QED BY <1>1, <2>1, ReturnFacts
<1>4. /\ (Tight' => Tight) /\ start' = start /\ toks' = toks
      /\ pos' \in 1..Len(toks) /\ toks[pos] = ")" /\ pos' = pos + 1
  <2>1. ")" # "eof" /\ "expected )" \in Messages
    BY DEF Messages
  <2> QED BY <1>1, <1>2, <1>3, <2>1, TightExpecting
<1>5. PICK D : TreesOf(D)
  BY <1>1, <1>4, TreesBefore
<1>6. /\ Whole(toks, nodes, D) /\ FramesBind(toks, stack, nodes, D)
      /\ ret \in D /\ ret \in 1..Len(nodes) /\ ret # 0 /\ Fills(nodes[ret].span, Top.op + 1, pos)
      /\ FrameBinds(toks, Top, Top.min, nodes, D)
  <2>1. "group" \in Waits \ {"none"} /\ "group" # "argument"
    BY DEF Waits
  <2> QED BY <1>1, <1>4, <1>5, <2>1, ReturnTrees
<1> PICK m : m = Top.node
  OBVIOUS
<1>7. /\ m # 0 /\ m \notin D /\ Top.op = b
      /\ nodes[m].kind = "group" /\ nodes[m].tok = b /\ toks[b] = "(" /\ nodes[m].kids = <<>>
  BY <1>3, <1>6 DEF FrameBinds, FrameSpans
<1>8. nodes' = [nodes EXCEPT ![Top.node] = Completed(Top.node, pos')] /\ pos <= pos'
  <2>1. pos <= pos'
    BY <1>3, <1>4
  <2> QED BY <1>2, <1>7, <2>1
<1>9. /\ Moving(m) /\ m \in Nat /\ Fills(nodes'[m].span, b, pos')
      /\ m \in 1..Len(nodes) /\ nodes'[m] = Completed(Top.node, pos')
  <2>1. "group" \in {"group", "argument"}
    OBVIOUS
  <2>2. Moving(m) /\ m \in Nat /\ Fills(nodes'[m].span, b, pos')
    BY <1>1, <1>4, <1>7, <1>8, <2>1, CompletedSpans
  <2>3. m \in 1..Len(nodes) /\ nodes \in Seq(Node)
    BY <1>1, <1>7, <2>1, <2>2, GrownKids DEF Moving, Changed
  <2> QED BY <1>8, <2>2, <2>3
<1> PICK n : n = nodes'[m]
  OBVIOUS
<1>10. n.kind = "group" /\ n.tok = b /\ n.kids = <<ret>>
  <2>1. "group" \in {"group", "argument"} /\ Append(<<>>, ret) = <<ret>>
    OBVIOUS
  <2> QED BY <1>1, <1>6, <1>7, <1>9, <2>1, CompletedIs
<1>11. Len(n.kids) = 1 /\ n.kids[1] = ret /\ KidsOf(n) = {ret}
  BY <1>10, OneKidOf
<1> PICK E : E = D \cup {m}
  OBVIOUS
<1>12. nodes'[ret] = nodes[ret]
  BY <1>6, <1>7, <1>9 DEF Moving, Changed
<1>13. Derived(toks, nodes', n)
  <2>1. n.span.start + 1 = b /\ SpanEnd(n.span) = pos /\ b <= pos
    BY <1>3, <1>4, <1>9 DEF Fills
  <2>2. Fills(nodes'[n.kids[1]].span, b + 1, pos - 1 + 1)
    BY <1>3, <1>6, <1>7, <1>11, <1>12
  <2> QED BY <1>4, <1>7, <1>10, <1>11, <2>1, <2>2 DEF Derived
<1>14. /\ Good(toks, nodes', E, m)
       /\ Free(toks, nodes', E, m, pos') /\ Grips(toks, nodes', E, m, Top.min)
  BY <1>6, <1>10, <1>11, <1>13, PlainGood
<1>15. m \in 1..Len(nodes') /\ Fresh(m, m)
  <2>1. Len(nodes) \in Nat /\ Len(nodes') \in Nat /\ Len(nodes) <= Len(nodes')
    BY <1>9, LenProperties DEF Moving, Changed
  <2> QED BY <1>9, <2>1 DEF Fresh
<1>16. Continue(m)
  BY <1>1, <1>7 DEF HavePrefix
<1> QED BY <1>3, <1>4, <1>6, <1>7, <1>9, <1>14, <1>15, <1>16, ContinueTrees

LEMMA FinishPrefixTrees ==
  ASSUME ParserInv, ParserInv', SpansInv, SpansInv', TreesInv, FinishPrefix PROVE TreesInv'
<1> SUFFICES ASSUME Tight' PROVE TreesInv'
  BY DEF TreesInv
<1> PICK m : m = Top.node
  OBVIOUS
<1> PICK b : b = From(Len(stack))
  OBVIOUS
<1> PICK op : op = Top.op
  OBVIOUS
<1> PICK u : u = SpanUnion(SpanOf(op), SpanIn(ret))
  OBVIOUS
<1> PICK node : node = MakeNode("unary", op, u, WithKid(<<>>, ret))
  OBVIOUS
<1>1. /\ Returned("prefix") /\ UNCHANGED driver /\ HavePrefix(m) /\ pos' = pos
      /\ diags' = diags /\ step = "return"
      /\ nodes' = IF m = 0 THEN nodes ELSE [nodes EXCEPT ![m] = node]
  BY DEF FinishPrefix, Returned
<1>2. /\ ControlOK /\ nodes \in Seq(Node) /\ stack # <<>> /\ Len(nodes) \in Nat /\ TokensOK
      /\ pos \in 1..Len(toks) /\ Len(toks) \in Nat /\ pos \in Nat \ {0}
      /\ Top.wait = "prefix" /\ FrameOK(Top, Len(nodes), Len(toks))
      /\ b \in Nat \ {0} /\ FrameSpans(Top, nodes, b, Tight)
  <2>1. "prefix" \in Waits \ {"none"} /\ "prefix" # "argument"
    BY DEF Waits
  <2> QED BY <1>1, <2>1, ReturnFacts, InputFacts
<1>3. (Tight' => Tight) /\ toks' = toks /\ start' = start
  BY <1>1, TightKept
<1>4. PICK D : TreesOf(D)
  BY <1>1, <1>3, TreesBefore
<1> PICK k : k = WaitMin(toks, Top)
  OBVIOUS
<1>5. /\ Whole(toks, nodes, D) /\ FramesBind(toks, stack, nodes, D)
      /\ D \in SUBSET (1..Len(nodes))
      /\ ret \in D /\ ret \in 1..Len(nodes) /\ ret # 0 /\ ret \in Nat
      /\ Fills(nodes[ret].span, op + 1, pos)
      /\ Free(toks, nodes, D, ret, pos) /\ Grips(toks, nodes, D, ret, k)
      /\ ~Ahead(toks, pos, k) /\ FrameBinds(toks, Top, Top.min, nodes, D)
  <2>1. "prefix" \in Waits \ {"none"} /\ "prefix" # "argument"
    BY DEF Waits
  <2> QED BY <1>1, <1>3, <1>4, <2>1, ReturnTrees
<1>6. /\ m # 0 /\ m \notin D /\ op = b /\ IsOperator(toks[b], "prefix")
      /\ k = OperatorFor(toks[b], "prefix").prec
  BY <1>2, <1>5 DEF FrameBinds, FrameSpans, WaitMin
<1>7. m = Held(Top) /\ m \in 1..Len(nodes) /\ m \in Nat
  BY <1>2, <1>6 DEF Held, FrameOK
<1>8. Orphan(nodes, m)
  BY <1>2, <1>6, <1>7, TopGood DEF Over
<1>9. Fills(nodes[ret].span, b + 1, pos) /\ b < pos
  <2>1. Fills(nodes[ret].span, b + 1, pos)
    BY <1>2, <1>5, <1>6
  <2> QED BY <1>2, <2>1 DEF Fills
<1>12. node.kids = <<ret>> /\ node.kind = "unary" /\ node.tok = b /\ node.span = u
  <2>1. WithKid(<<>>, ret) = <<ret>>
    BY <1>5 DEF WithKid
  <2> QED BY <1>6, <2>1 DEF MakeNode
<1>13. Len(node.kids) = 1 /\ node.kids[1] = ret /\ KidsOf(node) = {ret}
  BY <1>12, OneKidOf
<1>14. ret # m
  BY <1>5, <1>6
<1>15. Changed(nodes, nodes', m) /\ nodes'[m] = node
  <2>1. KidsIn(node.kids, Len(nodes)) /\ Apart(nodes, node.kids)
    <3>1. \A i \in 1..Len(node.kids) : node.kids[i] = ret
      BY <1>13
    <3>2. node.kids \in Seq(Nat)
      <4>1. <<ret>> \in Seq(Nat)
        BY <1>5
      <4> QED BY <1>12, <4>1
    <3> QED BY <1>5, <1>12, <3>1, <3>2, OneKidApart DEF KidsIn
  <2>2. \A i \in 1..Len(node.kids) : node.kids[i] # m
    BY <1>13, <1>14
  <2>3. Rewrites(nodes', m, node)
    BY <1>1, <1>6, <1>7, <1>8, <2>1, <2>2 DEF Rewrites
  <2> QED BY <2>3, RewrittenNests
<1>16. Moving(m)
  BY <1>2, <1>3, <1>7, <1>15 DEF Moving
<1>10. Continue(m)
  BY <1>1, <1>6 DEF HavePrefix
<1>11. Fills(node.span, b, pos)
  BY <1>1, <1>2, <1>3, <1>7, <1>10, <1>15, ContinuedFills
<1> PICK E : E = D \cup {m}
  OBVIOUS
<1>17. m \in 1..Len(nodes') /\ Fresh(m, m)
  <2>1. Len(nodes') \in Nat /\ Len(nodes) <= Len(nodes')
    BY <1>15, LenProperties DEF Changed
  <2> QED BY <1>2, <1>7, <2>1 DEF Fresh
<1>18. Keeps(nodes, nodes', D, E)
  <2>1. Grown(D, E, m)
    BY <1>6, <1>17 DEF Grown
  <2> QED BY <1>5, <1>6, <1>15, <2>1, KeepsGrown
<1>19. IsPrefix(node) /\ ~IsPostfix(node)
  <2>1. node.span.start + 1 = b
    BY <1>2, <1>11 DEF Fills
  <2> QED BY <1>12, <2>1 DEF IsPrefix, IsPostfix
<1>20. /\ Takes(node) /\ ~Joined(node) /\ node.kind \notin {"call", "binary", "selector"}
       /\ LeftOf(node) = {} /\ RightOf(node) = {ret} /\ Floor(toks, node) = k
  BY <1>6, <1>12, <1>13, <1>19 DEF Takes, Joined, LeftOf, RightOf, Floor, OpOf
<1>21. Derived(toks, nodes', node)
  <2>1. node.span.start + 1 = b /\ SpanEnd(node.span) = pos - 1 /\ b <= pos - 1
    BY <1>2, <1>9, <1>11 DEF Fills
  <2>2. Fills(nodes'[node.kids[1]].span, b + 1, pos - 1 + 1)
    <3>1. nodes'[ret] = nodes[ret] /\ pos - 1 + 1 = pos
      BY <1>2, <1>5, <1>18 DEF Keeps
    <3> QED BY <1>2, <1>5, <1>9, <1>13, <3>1
  <2> QED BY <1>6, <1>13, <1>19, <2>1, <2>2 DEF Derived
<1>22. Free(toks, nodes', E, ret, pos) /\ Grips(toks, nodes', E, ret, k) /\ ret \in E
  BY <1>5, <1>18, FreeKept, GripsKept
<1>23. Good(toks, nodes', E, m)
  <2>1. Looped(toks, node)
    BY <1>19, <1>20 DEF Looped
  <2> QED BY <1>13, <1>15, <1>20, <1>21, <1>22, <2>1 DEF Good
<1>24. Free(toks, nodes', E, m, pos')
  <2>1. Passes(toks, node, pos)
    BY <1>5, <1>20 DEF Passes
  <2> QED BY <1>1, <1>15, <1>20, <1>22, <2>1, FreeOver
<1>25. Grips(toks, nodes', E, m, Top.min)
  BY <1>15, <1>20, GripsAlone
<1> QED BY <1>2, <1>3, <1>5, <1>6, <1>10, <1>16, <1>17, <1>23, <1>24, <1>25, ContinueTrees

LEMMA TwoKids ==
  ASSUME NEW x \in Nat, NEW y \in Nat
  PROVE  Append(<<x>>, y) = <<x, y>>
<1> PICK s, t : s = Append(<<x>>, y) /\ t = <<x, y>>
  OBVIOUS
<1>1. <<x>> \in Seq(Nat) /\ Len(<<x>>) = 1 /\ <<x>>[1] = x
  OBVIOUS
<1>2. s \in Seq(Nat) /\ Len(s) = 2 /\ s[1] = x /\ s[2] = y
  BY <1>1, AppendProperties
<1>3. t \in Seq(Nat) /\ Len(t) = 2 /\ t[1] = x /\ t[2] = y
  OBVIOUS
<1>4. \A i \in 1..Len(s) : s[i] = t[i]
  <2>1. \A i \in 1..Len(s) : i = 1 \/ i = 2
    BY <1>2
  <2> QED BY <1>2, <1>3, <2>1
<1> QED BY <1>2, <1>3, <1>4, SeqEqual

LEMMA FinishInfixTrees ==
  ASSUME ParserInv, SpansInv, SpansInv', TreesInv, FinishInfix PROVE TreesInv'
<1> SUFFICES ASSUME Tight' PROVE TreesInv'
  BY DEF TreesInv
<1> PICK b : b = From(Len(stack))
  OBVIOUS
<1> PICK op, lhs : op = Top.op /\ lhs = Top.lhs
  OBVIOUS
<1> PICK u : u = SpanUnion(SpanIn(lhs), SpanIn(ret))
  OBVIOUS
<1> PICK oper : oper = OperatorFor(toks[op], "infix")
  OBVIOUS
<1> PICK node : node = MakeNode("binary", op, u, WithKid(<<lhs>>, ret))
  OBVIOUS
<1>1. /\ Returned("infix") /\ UNCHANGED driver /\ pos' = pos /\ step = "return"
  BY DEF FinishInfix, Returned
<1>2. PICK id \in Allocated :
        /\ nodes' = Store(id, node)
        /\ IF id # 0 /\ Chained(oper)
           THEN diags' \in Reported(diags, "cannot be chained", pos) /\ Leave(id)
           ELSE HavePrefix(id) /\ UNCHANGED diags
  BY DEF FinishInfix
<1>3. /\ InputOK /\ ControlOK /\ nodes \in Seq(Node) /\ stack # <<>> /\ Len(nodes) \in Nat
      /\ pos \in 1..Len(toks) /\ Len(toks) \in Nat /\ pos \in Nat \ {0}
      /\ Top.wait = "infix" /\ FrameOK(Top, Len(nodes), Len(toks))
      /\ b \in Nat \ {0} /\ op \in Nat /\ b <= op /\ FrameSpans(Top, nodes, b, Tight)
  <2>1. "infix" \in Waits \ {"none"} /\ "infix" # "argument"
    BY DEF Waits
  <2> QED BY <1>1, <2>1, ReturnFacts, InputFacts
<1>4. ~(id # 0 /\ Chained(oper))
  <2> SUFFICES ASSUME id # 0, Chained(oper) PROVE FALSE
    OBVIOUS
  <2>1. diags' \in Reported(diags, "cannot be chained", pos) /\ "cannot be chained" \in Messages
    BY <1>2 DEF Messages
  <2> QED BY <1>1, <1>3, <2>1, TightReported
<1>5. HavePrefix(id) /\ diags' = diags
  BY <1>2, <1>4
<1>6. (Tight' => Tight) /\ toks' = toks /\ start' = start /\ ~mayFail
  BY <1>1, <1>5, TightKept, TreesBefore
<1>7. PICK D : TreesOf(D)
  BY <1>1, <1>6, TreesBefore
<1> PICK k : k = WaitMin(toks, Top)
  OBVIOUS
<1>8. /\ Whole(toks, nodes, D) /\ FramesBind(toks, stack, nodes, D)
      /\ D \in SUBSET (1..Len(nodes))
      /\ ret \in D /\ ret \in 1..Len(nodes) /\ ret # 0 /\ ret \in Nat
      /\ Fills(nodes[ret].span, op + 1, pos)
      /\ Free(toks, nodes, D, ret, pos) /\ Grips(toks, nodes, D, ret, k)
      /\ ~Ahead(toks, pos, k) /\ FrameBinds(toks, Top, Top.min, nodes, D)
  <2>1. "infix" \in Waits \ {"none"} /\ "infix" # "argument"
    BY DEF Waits
  <2> QED BY <1>1, <1>6, <1>7, <2>1, ReturnTrees
<1>9. /\ IsOperator(toks[op], "infix") /\ oper.prec >= Top.min
      /\ lhs \in D /\ Free(toks, nodes, D, lhs, op) /\ Grips(toks, nodes, D, lhs, Top.min)
      /\ k = NextMin(oper)
  BY <1>3, <1>8 DEF FrameBinds, WaitMin, Made
<1>10. /\ lhs \in 1..Len(nodes) /\ lhs \in Nat /\ lhs # 0 /\ Fills(nodes[lhs].span, b, op)
  <2>1. lhs \in 1..Len(nodes)
    BY <1>8, <1>9, Zenon
  <2>2. Fills(nodes[lhs].span, b, op)
    BY <1>3, <1>6 DEF FrameSpans
  <2> QED BY <2>1, <2>2
<1>11. b < op /\ op + 1 < pos
  BY <1>3, <1>8, <1>10 DEF Fills
<1>12. u \in Span
  <2> PICK x, y : x = SpanIn(lhs) /\ y = SpanIn(ret)
    OBVIOUS
  <2>1. lhs \in 0..Len(nodes) /\ ret \in 0..Len(nodes)
    BY <1>3, <1>8, <1>10
  <2>2. x \in Span /\ y \in Span
    BY <1>3, <2>1, SpanInOK
  <2> QED BY <2>2, SpanUnionOK
<1> PICK kids : kids = <<lhs, ret>>
  OBVIOUS
<1>13. node.kids = kids /\ node.kind = "binary" /\ node.tok = op /\ node.span = u
  <2>1. WithKid(<<lhs>>, ret) = <<lhs, ret>>
    BY <1>8, <1>10, TwoKids DEF WithKid
  <2> QED BY <2>1 DEF MakeNode
<1>14. Len(kids) = 2 /\ kids[1] = lhs /\ kids[2] = ret /\ kids \in Seq(Nat)
  BY <1>8, <1>10
<1>15. node \in Node
  <2>1. "binary" \in Kinds
    BY DEF Kinds
  <2>2. WithKid(<<lhs>>, ret) = kids
    BY <1>8, <1>10, TwoKids DEF WithKid
  <2> QED BY <1>3, <1>12, <1>14, <2>1, <2>2, MakeNodeOK
<1>16. /\ Changed(nodes, nodes', 0) /\ id \in 0..Len(nodes') /\ id # 0 /\ nodes'[id] = node
  BY <1>2, <1>6, <1>15, StoredNode
<1>17. id \in 1..Len(nodes') /\ Fresh(id, 0)
  <2>1. id = Len(nodes) + 1 /\ Len(nodes') \in Nat
    BY <1>2, <1>16, LenProperties DEF Allocated, Changed
  <2> QED BY <1>3, <1>16, <2>1 DEF Fresh
<1>28. Continue(id) /\ id \in Nat
  BY <1>5, <1>16, <1>17 DEF HavePrefix
<1>29. Fills(node.span, b, pos)
  BY <1>1, <1>3, <1>6, <1>16, <1>28, ContinuedFills
<1> PICK E : E = D \cup {id}
  OBVIOUS
<1>18. Keeps(nodes, nodes', D, E) /\ 0 \notin D
  <2>1. Grown(D, E, 0)
    BY <1>16, <1>17 DEF Grown
  <2>2. 0 \notin D
    BY <1>8
  <2> QED BY <1>8, <1>16, <2>1, <2>2, KeepsGrown
<1>19. ~IsPrefix(node) /\ ~IsPostfix(node)
  BY <1>13 DEF IsPrefix, IsPostfix
<1>20. /\ Takes(node) /\ Joined(node) /\ OpAt(node) = op /\ OpOf(toks, node) = oper
       /\ LeftOf(node) = {lhs} /\ RightOf(node) = {ret} /\ Floor(toks, node) = k
  <2>1. OpOf(toks, node) = oper
    BY <1>13, <1>19 DEF OpOf
  <2> QED BY <1>9, <1>13, <1>14, <1>19, <2>1 DEF Takes, Joined, LeftOf, RightOf, Floor, OpAt
<1>21. KidsOf(node) = {lhs, ret}
  <2>1. \A i \in 1..Len(kids) : i = 1 \/ i = 2
    BY <1>14
  <2>2. 1 \in 1..Len(kids) /\ 2 \in 1..Len(kids)
    BY <1>14
  <2> QED BY <1>13, <1>14, <2>1, <2>2 DEF KidsOf
<1>22. Derived(toks, nodes', node)
  <2>1. node.span.start + 1 = b /\ SpanEnd(node.span) = pos - 1 /\ b <= pos - 1
    <3>1. b \in Nat /\ pos \in Nat
      BY <1>3
    <3>2. \A s : Fills(s, b, pos) => s.start + 1 = b /\ SpanEnd(s) = pos - 1 /\ b <= pos - 1
      BY <3>1 DEF Fills
    <3> QED BY <1>29, <3>2
  <2>2. nodes'[lhs] = nodes[lhs] /\ nodes'[ret] = nodes[ret]
    BY <1>8, <1>9, <1>18 DEF Keeps
  <2>3. Fills(nodes'[lhs].span, b, op - 1 + 1)
    <3>1. op - 1 + 1 = op
      BY <1>3
    <3> QED BY <1>10, <2>2, <3>1
  <2>4. Fills(nodes'[ret].span, op + 1, pos - 1 + 1)
    <3>1. pos - 1 + 1 = pos
      BY <1>3
    <3> QED BY <1>8, <2>2, <3>1
  <2> QED BY <1>9, <1>13, <1>14, <2>1, <2>3, <2>4 DEF Derived
<1>23. /\ Free(toks, nodes', E, lhs, op) /\ Grips(toks, nodes', E, lhs, Top.min)
       /\ Free(toks, nodes', E, ret, pos) /\ Grips(toks, nodes', E, ret, k)
       /\ lhs \in E /\ ret \in E
  BY <1>8, <1>9, <1>18, FreeKept, GripsKept
<1>24. Good(toks, nodes', E, id)
  <2>1. Looped(toks, node)
    BY <1>9, <1>13, <1>19, <1>20 DEF Looped
  <2> QED BY <1>16, <1>20, <1>21, <1>22, <1>23, <2>1 DEF Good
<1>25. Free(toks, nodes', E, id, pos')
  <2>1. Passes(toks, node, pos)
    BY <1>4, <1>8, <1>16, <1>20 DEF Passes, Chained
  <2> QED BY <1>1, <1>16, <1>20, <1>23, <2>1, FreeOver
<1>26. Grips(toks, nodes', E, id, Top.min)
  BY <1>9, <1>16, <1>20, <1>23, GripsOver
<1>27. Moving(0)
  BY <1>3, <1>6, <1>16 DEF Moving
<1> QED BY <1>3, <1>6, <1>8, <1>17, <1>18, <1>24, <1>25, <1>26, <1>27, <1>28, ContinueTrees

\* A call over its arguments.
LEMMA CallWhole ==
  ASSUME NEW t, NEW ns, NEW E, NEW id \in E, NEW n, NEW k, n = ns[id], n.kind = "call",
         Looped(t, n), KidsOf(n) \subseteq E, Derived(t, ns, n),
         Free(t, ns, E, n.kids[1], n.tok), Grips(t, ns, E, n.kids[1], k)
  PROVE  /\ Good(t, ns, E, id)
         /\ \A p : Free(t, ns, E, id, p)
         /\ Grips(t, ns, E, id, k)
<1>1. ~Takes(n) /\ ~Joined(n) /\ ~IsPostfix(n) /\ OpAt(n) = n.tok
      /\ n.kind \notin {"binary", "selector"}
  BY DEF Takes, Joined, IsPrefix, IsPostfix, OpAt
<1>2. LeftOf(n) = {n.kids[1]} /\ RightOf(n) = {}
  BY <1>1 DEF LeftOf, RightOf
<1>3. Good(t, ns, E, id)
  BY <1>1, <1>2 DEF Good
<1>4. Grips(t, ns, E, id, k)
  BY <1>1, <1>2, GripsOver
<1>5. ~Takes(ns[id])
  BY <1>1
<1>6. \A p : Free(t, ns, E, id, p)
  BY <1>5, FreeAlone
<1> QED BY <1>3, <1>4, <1>6

LEMMA CallReads ==
  ASSUME NEW t, NEW ns, NEW n, n.kind = "call", n.kids # <<>>, t[n.tok] = "(",
         NEW b \in Nat, NEW p \in Nat, n.tok \in Nat, Fills(n.span, b, p), t[p - 1] = ")",
         Fills(ns[n.kids[1]].span, b, n.tok), Listed(t, ns, n), Closed(t, ns, n, p - 1)
  PROVE  Derived(t, ns, n)
<1>1. n.span.start + 1 = b /\ SpanEnd(n.span) = p - 1 /\ b <= p - 1 /\ n.tok - 1 + 1 = n.tok
  BY DEF Fills
<1> QED BY <1>1 DEF Derived

LEMMA OneAppended ==
  ASSUME NEW old \in Seq(Nat), old # <<>>, NEW id \in Nat, NEW all, all = Append(old, id)
  PROVE  /\ all \in Seq(Nat) /\ all # <<>> /\ Len(all) = Len(old) + 1
         /\ Len(old) \in Nat \ {0} /\ all[1] = old[1]
         /\ (\A i \in 1..Len(old) : all[i] = old[i]) /\ all[Len(old) + 1] = id
         /\ {all[i] : i \in 1..Len(all)} = {old[i] : i \in 1..Len(old)} \cup {id}
<1>1. /\ all \in Seq(Nat) /\ all # <<>> /\ Len(all) = Len(old) + 1
      /\ (\A i \in 1..Len(old) : all[i] = old[i]) /\ all[Len(old) + 1] = id
      /\ Len(old) \in Nat
  BY AppendProperties, LenProperties
<1>2. Len(old) # 0
  BY EmptySeq
<1>3. all[1] = old[1]
  BY <1>1, <1>2
<1> PICK c : c = Len(old)
  OBVIOUS
<1>4. 1..Len(all) = 1..c \cup {c + 1}
  BY <1>1
<1>5. {all[i] : i \in 1..c \cup {c + 1}} = {all[i] : i \in 1..c} \cup {all[c + 1]}
  OBVIOUS
<1>6. {all[i] : i \in 1..c} = {old[i] : i \in 1..c}
  BY <1>1
<1>7. {all[i] : i \in 1..Len(all)} = {old[i] : i \in 1..Len(old)} \cup {id}
  BY <1>1, <1>4, <1>5, <1>6
<1> QED BY <1>1, <1>2, <1>3, <1>7

\* An argument more, on the tokens from mark to p - 1.
LEMMA ArgumentListed ==
  ASSUME NEW t, NEW ns, NEW n, NEW m, n.kids \in Seq(Nat), n.kids # <<>>, NEW id \in Nat,
         m.kids = Append(n.kids, id), m.tok = n.tok, NEW mark, NEW p \in Nat,
         CallSoFar(t, ns, n, mark), Fills(ns[id].span, mark, p)
  PROVE  /\ Listed(t, ns, m) /\ Behind(ns, m, Len(m.kids)) = p + 1
         /\ Len(m.kids) > 1
<1> PICK old, all, c : old = n.kids /\ all = m.kids /\ c = Len(n.kids)
  OBVIOUS
<1>1. /\ Len(all) = c + 1 /\ c \in Nat \ {0} /\ all[c + 1] = id
      /\ \A i \in 1..c : all[i] = old[i]
  BY OneAppended
<1>2. \A k \in 1..c : Behind(ns, m, k) = Behind(ns, n, k)
  BY <1>1 DEF Behind
<1>3. Behind(ns, m, c + 1) = p + 1
  <2>1. SpanEnd(ns[id].span) = p - 1 /\ c + 1 # 1
    BY <1>1 DEF Fills
  <2> QED BY <1>1, <2>1 DEF Behind
<1>4. Behind(ns, m, c) = mark /\ (c > 1 => t[mark - 1] = Separator)
  BY <1>1, <1>2 DEF CallSoFar
<1>5. ASSUME NEW k \in 2..c + 1
      PROVE  /\ Fills(ns[all[k]].span, Behind(ns, m, k - 1), Behind(ns, m, k) - 1)
             /\ k < c + 1 => t[Behind(ns, m, k) - 1] = Separator
  <2>1. CASE k = c + 1
    <3>1. k - 1 = c /\ p + 1 - 1 = p
      BY <1>1, <2>1
    <3>2. ~(k < c + 1)
      BY <1>1, <2>1
    <3>3. Fills(ns[all[k]].span, Behind(ns, m, k - 1), Behind(ns, m, k) - 1)
      BY <1>1, <1>3, <1>4, <2>1, <3>1
    <3> QED BY <3>2, <3>3
  <2>2. CASE k # c + 1
    <3>1. k \in 2..c /\ k \in 1..c /\ k - 1 \in 1..c
      BY <1>1, <2>2
    <3>2. /\ Fills(ns[old[k]].span, Behind(ns, n, k - 1), Behind(ns, n, k) - 1)
          /\ k < c => t[Behind(ns, n, k) - 1] = Separator
      BY <3>1 DEF CallSoFar, Listed
    <3>3. Fills(ns[all[k]].span, Behind(ns, m, k - 1), Behind(ns, m, k) - 1)
      BY <1>1, <1>2, <3>1, <3>2
    <3>4. CASE k < c
      BY <1>2, <3>1, <3>2, <3>3, <3>4
    <3>5. CASE k = c
      <4>1. c > 1
        BY <3>1, <3>5
      <4> QED BY <1>4, <3>3, <3>5, <4>1
    <3> QED BY <1>1, <3>1, <3>4, <3>5
  <2> QED BY <2>1, <2>2
<1>6. Listed(t, ns, m)
  BY <1>1, <1>5 DEF Listed
<1> QED BY <1>1, <1>3, <1>6

\* A call with only its operand.
LEMMA AloneListed ==
  ASSUME NEW t, NEW ns, NEW n, NEW lhs, n.kids = <<lhs>>
  PROVE  Listed(t, ns, n) /\ Behind(ns, n, Len(n.kids)) = n.tok + 1
<1>1. Len(n.kids) = 1
  OBVIOUS
<1>2. 2..Len(n.kids) = {}
  BY <1>1
<1>3. Behind(ns, n, Len(n.kids)) = n.tok + 1
  BY <1>1 DEF Behind
<1> QED BY <1>2, <1>3 DEF Listed

LEMMA OneNotMore == \A c : c = 1 => ~(c > 1)
OBVIOUS

LEMMA EmptyCallTrees ==
  ASSUME ParserInv, ParserInv', SpansInv, SpansInv', TreesInv, EmptyCall PROVE TreesInv'
<1> SUFFICES ASSUME Tight' PROVE TreesInv'
  BY DEF TreesInv
<1> PICK b : b = From(Len(stack))
  OBVIOUS
<1> PICK lhs : lhs = Top.lhs
  OBVIOUS
<1> PICK kids : kids = <<lhs>>
  OBVIOUS
<1> PICK open : open = MakeNode("call", pos, SpanOf(pos), kids)
  OBVIOUS
<1> PICK p, id : p = pos + 2 /\ id = Len(nodes) + 1
  OBVIOUS
<1> PICK n : n = Finished(open, p)
  OBVIOUS
<1>1. /\ step = "loop" /\ UNCHANGED driver /\ diags' = diags /\ pos' = p
      /\ nodes' = Append(nodes, n) /\ Continue(id) /\ toks[pos] = "("
      /\ toks[pos + 1] = ")" /\ Calls
  BY DEF EmptyCall, AtCall
<1>2. /\ InputOK /\ ControlOK /\ nodes \in Seq(Node) /\ stack # <<>> /\ Len(nodes) \in Nat
      /\ Top.wait = "none" /\ TokensOK /\ pos \in 1..Len(toks) /\ pos \in Nat \ {0}
      /\ b \in Nat \ {0} /\ lhs \in 1..Len(nodes) /\ lhs \in Nat
      /\ Produced(nodes, lhs, b, pos, AtEof, Tight)
  BY <1>1, LoopFacts, LenProperties
<1>3. (Tight' => Tight) /\ toks' = toks /\ start' = start
  BY <1>1, TightKept
<1>4. Fills(nodes[lhs].span, b, pos)
  BY <1>2, <1>3 DEF Produced
<1>5. PICK D : /\ TreesOf(D) /\ D \in SUBSET (1..Len(nodes)) /\ Whole(toks, nodes, D)
               /\ FramesBind(toks, stack, nodes, D)
  BY <1>1, <1>3, TreesBefore
<1>6. Made(toks, nodes, D, lhs, pos, Top.min)
  BY <1>1, <1>5 DEF TreesOf
<1>7. open \in Node /\ open.kids = kids /\ open.kind = "call" /\ open.tok = pos
  <2>1. open \in Node
    BY <1>1, CallNode
  <2> QED BY <2>1 DEF MakeNode
<1>8. n.kind = "call" /\ n.tok = pos /\ n.kids = kids
  BY <1>7, FinishedSame
<1>9. n \in Node
  <2>1. KidsIn(open.kids, Len(nodes)) /\ p \in Nat \ {0}
    <3>1. Len(kids) = 1 /\ kids[1] = lhs
      OBVIOUS
    <3>2. \A i \in 1..Len(kids) : i = 1
      BY <3>1
    <3>3. kids \in Seq(Nat)
      BY <1>2
    <3>4. KidsIn(kids, Len(nodes))
      BY <1>2, <3>1, <3>2, <3>3 DEF KidsIn
    <3>5. p \in Nat \ {0}
      BY <1>2
    <3> QED BY <1>7, <3>4, <3>5
  <2> QED BY <1>2, <1>7, <2>1, FinishedOK
<1>10. /\ Changed(nodes, nodes', 0) /\ id \in Nat /\ id # 0 /\ nodes'[id] = n
       /\ id \in 1..Len(nodes')
  <2>1. id # 0 /\ id \in Allocated /\ nodes' = Store(id, n)
    BY <1>1, <1>2 DEF Allocated, Store
  <2>2. /\ Changed(nodes, nodes', 0) /\ id \in Nat /\ nodes'[id] = n /\ id \in 0..Len(nodes')
    BY <1>9, <2>1, StoredNode
  <2>3. Len(nodes') \in Nat
    BY <2>2, LenProperties DEF Changed
  <2> QED BY <2>1, <2>2, <2>3
<1>11. Fresh(id, 0) /\ 0 \notin D
  BY <1>2, <1>5 DEF Fresh
<1> PICK E : E = D \cup {id}
  OBVIOUS
<1>12. Keeps(nodes, nodes', D, E)
  <2>1. Grown(D, E, 0)
    BY <1>10, <1>11 DEF Grown
  <2> QED BY <1>5, <1>10, <1>11, <2>1, KeepsGrown
<1>13. Made(toks, nodes', E, lhs, pos, Top.min)
  BY <1>6, <1>12, MadeKept
<1>14. KidsOf(n) = {lhs} /\ n.kids[1] = lhs /\ n.kids # <<>> /\ Len(n.kids) = 1
  BY <1>8, OneKidOf
<1>15. Moving(0)
  BY <1>2, <1>3, <1>10 DEF Moving
<1>16. Fills(n.span, b, p)
  BY <1>1, <1>2, <1>3, <1>10, ContinuedFills
<1>17. Derived(toks, nodes', n)
  <2>1. Fills(nodes'[n.kids[1]].span, b, n.tok)
    <3>1. lhs \in D
      BY <1>6 DEF Made
    <3> QED BY <1>4, <1>8, <1>12, <1>14, <3>1 DEF Keeps
  <2>2. Listed(toks, nodes', n) /\ Behind(nodes', n, Len(n.kids)) = pos + 1
    BY <1>8, AloneListed
  <2>3. p - 1 = pos + 1 /\ p \in Nat /\ b \in Nat
    BY <1>2
  <2>4. Closed(toks, nodes', n, p - 1)
    <3>1. Len(n.kids) = 1
      BY <1>14
    <3>2. p - 1 = Behind(nodes', n, Len(n.kids))
      BY <2>2, <2>3
    <3> QED BY <3>1, <3>2, OneNotMore DEF Closed
  <2>5. /\ n.kind = "call" /\ n.kids # <<>> /\ toks[n.tok] = "(" /\ n.tok \in Nat
        /\ toks[p - 1] = ")"
    BY <1>1, <1>2, <1>8, <1>14, <2>3
  <2> QED BY <1>16, <2>1, <2>2, <2>3, <2>4, <2>5, CallReads
<1>18. /\ Good(toks, nodes', E, id)
       /\ Free(toks, nodes', E, id, pos') /\ Grips(toks, nodes', E, id, Top.min)
  <2>1. KidsOf(n) \subseteq E
    BY <1>13, <1>14 DEF Made
  <2>2. Free(toks, nodes', E, n.kids[1], n.tok) /\ Grips(toks, nodes', E, n.kids[1], Top.min)
    BY <1>8, <1>13, <1>14 DEF Made
  <2>3. id \in E /\ n = nodes'[id] /\ n.kind = "call" /\ Looped(toks, n)
    BY <1>1, <1>8, <1>10 DEF Looped, IsPostfix
  <2>4. /\ Good(toks, nodes', E, id) /\ \A q : Free(toks, nodes', E, id, q)
        /\ Grips(toks, nodes', E, id, Top.min)
    BY <1>17, <2>1, <2>2, <2>3, CallWhole
  <2> QED BY <2>4
<1> QED BY <1>1, <1>2, <1>3, <1>5, <1>10, <1>11, <1>15, <1>18, ContinueTrees

LEMMA OpenCallTrees == ASSUME ParserInv, SpansInv, TreesInv, OpenCall PROVE TreesInv'
<1> SUFFICES ASSUME Tight' PROVE TreesInv'
  BY DEF TreesInv
<1> PICK lhs : lhs = Top.lhs
  OBVIOUS
<1> PICK kids : kids = <<lhs>>
  OBVIOUS
<1> PICK n : n = MakeNode("call", pos, SpanOf(pos), kids)
  OBVIOUS
<1> PICK p, id : p = pos + 1 /\ id = Len(nodes) + 1
  OBVIOUS
<1> PICK f : f = [Top EXCEPT !.wait = "argument", !.node = id, !.op = pos, !.mark = p]
  OBVIOUS
<1>1. /\ step = "loop" /\ UNCHANGED driver /\ diags' = diags
      /\ nodes' = Append(nodes, n) /\ Call(f, 0) /\ toks[pos] = "(" /\ Calls
  BY DEF OpenCall, AtCall
<1>2. /\ ControlOK /\ nodes \in Seq(Node) /\ stack # <<>> /\ Len(nodes) \in Nat
      /\ Top.wait = "none" /\ Top \in Frame /\ pos \in Nat \ {0} /\ lhs \in Nat
  BY <1>1, LoopFacts, LenProperties
<1>3. (Tight' => Tight) /\ toks' = toks /\ start' = start
  BY <1>1, TightKept
<1>4. PICK D : /\ TreesOf(D) /\ D \in SUBSET (1..Len(nodes)) /\ Whole(toks, nodes, D)
               /\ FramesBind(toks, stack, nodes, D)
  BY <1>1, <1>3, TreesBefore
<1>5. Made(toks, nodes, D, lhs, pos, Top.min)
  BY <1>1, <1>4 DEF TreesOf
<1>6. n \in Node /\ n.kids = kids /\ n.kind = "call" /\ n.tok = pos
  <2>1. n \in Node
    BY <1>1, CallNode
  <2> QED BY <2>1 DEF MakeNode
<1>7. Changed(nodes, nodes', 0) /\ id \in Nat /\ id # 0 /\ nodes'[id] = n
  <2>1. id # 0 /\ id \in Allocated /\ nodes' = Store(id, n)
    BY <1>1, <1>2 DEF Allocated, Store
  <2> QED BY <1>6, <2>1, StoredNode
<1>8. id \notin D /\ 0 \notin D
  BY <1>2, <1>4
<1>9. Keeps(nodes, nodes', D, D)
  <2>1. Grown(D, D, 0)
    BY DEF Grown
  <2> QED BY <1>4, <1>7, <1>8, <2>1, KeepsGrown
<1>10. Made(toks, nodes', D, lhs, pos, Top.min)
  BY <1>5, <1>9, MadeKept
<1>11. KidsOf(n) = {lhs} /\ n.kids[1] = lhs /\ n.kids # <<>> /\ Len(n.kids) = 1
  BY <1>6, OneKidOf
<1>12. CallBegun(toks, nodes', D, n, pos, Top.min)
  BY <1>1, <1>6, <1>10, <1>11 DEF CallBegun, Made
<1>13. CallSoFar(toks, nodes', n, p)
  <2>1. Listed(toks, nodes', n) /\ Behind(nodes', n, Len(n.kids)) = p
    BY <1>6, AloneListed
  <2>2. Len(n.kids) = 1
    BY <1>11
  <2> QED BY <2>1, <2>2, OneNotMore DEF CallSoFar
<1>14. f \in Frame /\ f.wait = "argument" /\ f.node = id /\ f.op = pos /\ f.mark = p
       /\ f.min = Top.min
  <2>1. pos \in Nat /\ p \in Nat /\ id \in Nat
    BY <1>2, <1>7
  <2> QED BY <1>2, <2>1 DEF Frame, Waits
<1>15. FrameBinds(toks, f, Top.min, nodes', D) /\ 0 = WaitMin(toks, f)
  BY <1>7, <1>8, <1>12, <1>13, <1>14 DEF FrameBinds, WaitMin
<1>16. Moving(0)
  BY <1>2, <1>3, <1>7 DEF Moving
<1> QED BY <1>1, <1>2, <1>3, <1>4, <1>8, <1>14, <1>15, <1>16, CallTrees

\* The call that the top activation fills has got another argument.
LEMMA ArgumentFacts ==
  ASSUME ParserInv, SpansInv, Tight, Returned("argument"), NEW D, TreesOf(D),
         NEW n, n.kind = nodes[Top.node].kind, n.tok = nodes[Top.node].tok,
         n.kids = WithKid(nodes[Top.node].kids, ret)
  PROVE  /\ Top.node # 0 /\ Top.node \notin D /\ ret # 0
         /\ Whole(toks, nodes, D) /\ FramesBind(toks, stack, nodes, D)
         /\ D \in SUBSET (1..Len(nodes)) /\ Fills(nodes[ret].span, Top.mark, pos)
         /\ CallBegun(toks, nodes, D, n, Top.op, Top.min) /\ n.kids \in Seq(Nat)
         /\ Len(n.kids) > 1 /\ Len(n.kids) \in Nat
         /\ Listed(toks, nodes, n) /\ Behind(nodes, n, Len(n.kids)) = pos + 1
<1> PICK m : m = Top.node
  OBVIOUS
<1> PICK old : old = nodes[m]
  OBVIOUS
<1>1. "argument" \in Waits \ {"none"} /\ "argument" \in {"group", "argument"}
  BY DEF Waits
<1>2. /\ Whole(toks, nodes, D) /\ FramesBind(toks, stack, nodes, D)
      /\ D \in SUBSET (1..Len(nodes)) /\ ret \in D /\ ret \in Nat /\ ret # 0
      /\ Fills(nodes[ret].span, Top.mark, pos) /\ FrameBinds(toks, Top, Top.min, nodes, D)
  BY <1>1, ReturnTrees
<1>3. Top.wait = "argument" /\ pos \in 1..Len(toks) /\ Len(toks) \in Nat
  BY <1>1, ReturnFacts
<1>4. /\ m # 0 /\ m \notin D /\ CallBegun(toks, nodes, D, old, Top.op, Top.min)
      /\ CallSoFar(toks, nodes, old, Top.mark)
  BY <1>2, <1>3 DEF FrameBinds
<1>5. old.kids \in Seq(Nat) /\ old.kids # <<>> /\ KidsOf(old) \subseteq D
  <2>1. old \in Node
    BY <1>1, <1>4, GrownKids
  <2> QED BY <1>4, <2>1 DEF Node, CallBegun
<1>6. n.kids = Append(old.kids, ret)
  BY <1>2 DEF WithKid
<1>7. /\ n.kids \in Seq(Nat) /\ n.kids # <<>> /\ n.kids[1] = old.kids[1]
      /\ KidsOf(n) \subseteq D
  <2>0. PICK x, y : x = old.kids /\ y = n.kids
    OBVIOUS
  <2>1. x \in Seq(Nat) /\ x # <<>> /\ ret \in Nat /\ y = Append(x, ret)
    BY <1>2, <1>5, <1>6, <2>0
  <2> PICK c : c = Len(x)
    OBVIOUS
  <2>2. /\ c \in Nat \ {0} /\ y \in Seq(Nat) /\ Len(y) = c + 1
        /\ (\A i \in 1..c : y[i] = x[i]) /\ y[c + 1] = ret
    BY <2>1, AppendProperties, LenProperties, EmptySeq
  <2>3. \A i \in 1..c : x[i] \in D
    BY <1>5, <2>0 DEF KidsOf
  <2>4. \A i \in 1..Len(y) : y[i] \in D
    BY <1>2, <2>2, <2>3
  <2>5. y # <<>> /\ y[1] = x[1]
    BY <2>2
  <2> QED BY <2>0, <2>2, <2>4, <2>5 DEF KidsOf
<1>8. CallBegun(toks, nodes, D, n, Top.op, Top.min)
  BY <1>2, <1>4, <1>5, <1>7 DEF CallBegun
<1>9. /\ Listed(toks, nodes, n) /\ Behind(nodes, n, Len(n.kids)) = pos + 1 /\ Len(n.kids) > 1
  <2>1. pos \in Nat /\ n.tok = old.tok
    BY <1>3
  <2> QED BY <1>2, <1>4, <1>5, <1>6, <2>1, ArgumentListed
<1>10. Len(n.kids) \in Nat
  BY <1>7, LenProperties
<1> QED BY <1>2, <1>4, <1>7, <1>8, <1>9, <1>10

LEMMA NextArgumentTrees ==
  ASSUME ParserInv, ParserInv', SpansInv, TreesInv, NextArgument PROVE TreesInv'
<1> SUFFICES ASSUME Tight' PROVE TreesInv'
  BY DEF TreesInv
<1> PICK m : m = Top.node
  OBVIOUS
<1> PICK kids : kids = WithKid(nodes[m].kids, ret)
  OBVIOUS
<1> PICK n : n = [nodes[m] EXCEPT !.kids = kids]
  OBVIOUS
<1> PICK p : p = pos + 1
  OBVIOUS
<1> PICK f : f = [Top EXCEPT !.mark = p]
  OBVIOUS
<1>1. /\ Returned("argument") /\ UNCHANGED driver /\ diags' = diags /\ step = "return"
      /\ nodes' = [nodes EXCEPT ![m] = n] /\ Call(f, 0) /\ toks[pos] = ","
  BY DEF NextArgument, MoreArguments, Returned
<1>2. /\ ControlOK /\ stack # <<>> /\ Top.wait = "argument" /\ Top \in Frame /\ pos \in Nat
      /\ FrameOK(Top, Len(nodes), Len(toks))
  <2>1. "argument" \in Waits \ {"none"}
    BY DEF Waits
  <2> QED BY <1>1, <2>1, ReturnFacts, InputFacts
<1>3. (Tight' => Tight) /\ toks' = toks /\ start' = start
  BY <1>1, TightKept
<1>4. PICK D : TreesOf(D)
  BY <1>1, <1>3, TreesBefore
<1>5. m # 0
  BY <1>2 DEF FrameOK
<1>6. /\ m = Held(Top) /\ m \in 1..Len(nodes) /\ Orphan(nodes, m) /\ nodes[m] \in Node
      /\ Row(nodes, kids, From(Len(stack)), pos) /\ (\A i \in 1..Len(kids) : kids[i] # m)
  <2>1. "argument" \in {"group", "argument"}
    OBVIOUS
  <2> QED BY <1>1, <1>5, <2>1, GrownKids
<1>7. n.kids = kids /\ n.kind = nodes[m].kind /\ n.tok = nodes[m].tok
  BY <1>6 DEF Node
<1>8. /\ m \notin D /\ ret # 0 /\ Whole(toks, nodes, D) /\ FramesBind(toks, stack, nodes, D)
      /\ CallBegun(toks, nodes, D, n, Top.op, Top.min) /\ n.kids \in Seq(Nat)
      /\ Listed(toks, nodes, n) /\ Behind(nodes, n, Len(n.kids)) = p
  BY <1>1, <1>3, <1>4, <1>7, ArgumentFacts
<1>9. Changed(nodes, nodes', m) /\ nodes'[m] = n
  <2>1. Rewrites(nodes', m, n)
    BY <1>1, <1>6, <1>7 DEF Rewrites, Row
  <2> QED BY <2>1, RewrittenNests
<1>10. Keeps(nodes, nodes', D, D)
  <2>1. Grown(D, D, m)
    BY DEF Grown
  <2> QED BY <1>8, <1>9, <2>1, KeepsGrown DEF Whole
<1>11. CallBegun(toks, nodes', D, n, Top.op, Top.min)
  BY <1>8, <1>10, CallBegunKept
<1>12. CallSoFar(toks, nodes', n, p)
  <2>1. p - 1 = pos
    BY <1>2
  <2>2. CallSoFar(toks, nodes, n, p)
    BY <1>1, <1>8, <2>1 DEF CallSoFar, Separator
  <2>3. Len(n.kids) \in Nat /\ Len(n.kids) # 0 /\ KidsOf(n) \subseteq D
    <3>1. Len(n.kids) > 1 /\ Len(n.kids) \in Nat
      BY <1>1, <1>3, <1>4, <1>7, ArgumentFacts
    <3> QED BY <1>8, <3>1 DEF CallBegun
  <2>4. \A k \in 1..Len(n.kids) : nodes'[n.kids[k]] = nodes[n.kids[k]]
    BY <1>10, <2>3 DEF Keeps, KidsOf
  <2>5. \A k \in 1..Len(n.kids) : Behind(nodes', n, k) = Behind(nodes, n, k)
    BY <2>4 DEF Behind
  <2>6. Len(n.kids) \in 1..Len(n.kids)
    BY <2>3
  <2>7. Listed(toks, nodes, n) => Listed(toks, nodes', n)
    BY <2>3, <2>4, ListedKept
  <2> QED BY <2>2, <2>5, <2>6, <2>7 DEF CallSoFar
<1>13. f \in Frame /\ f.wait = "argument" /\ f.node = m /\ f.op = Top.op /\ f.mark = p
       /\ f.min = Top.min
  <2>1. p \in Nat
    BY <1>2
  <2> QED BY <1>2, <2>1 DEF Frame
<1>14. FrameBinds(toks, f, Top.min, nodes', D) /\ 0 = WaitMin(toks, f)
  BY <1>5, <1>8, <1>9, <1>11, <1>12, <1>13 DEF FrameBinds, WaitMin
<1>15. Moving(m)
  BY <1>2, <1>3, <1>6, <1>9 DEF Moving
<1> QED BY <1>1, <1>2, <1>3, <1>8, <1>13, <1>14, <1>15, CallTrees

\* Where a call closes whose last argument ends before q.
LEMMA CallCloses ==
  ASSUME NEW t, NEW ns, NEW n, NEW q \in Nat, NEW p, Len(n.kids) > 1,
         Behind(ns, n, Len(n.kids)) = q + 1, p = q + 1 \/ (p = q + 2 /\ t[q] = Separator)
  PROVE  Closed(t, ns, n, p - 1)
<1> PICK last, e : last = q + 1 /\ e = p - 1
  OBVIOUS
<1>1. \/ e = last /\ t[last - 1] = Separator
      \/ e = last - 1
  <2>1. last - 1 = q
    OBVIOUS
  <2>2. CASE p = q + 1
    BY <2>1, <2>2
  <2>3. CASE p = q + 2 /\ t[q] = Separator
    <3>1. e = last
      BY <2>3
    <3> QED BY <2>1, <2>3, <3>1
  <2> QED BY <2>2, <2>3
<1> QED BY <1>1 DEF Closed

LEMMA CloseCallTrees ==
  ASSUME ParserInv, ParserInv', SpansInv, SpansInv', TreesInv, CloseCall PROVE TreesInv'
<1> SUFFICES ASSUME Tight' PROVE TreesInv'
  BY DEF TreesInv
<1> PICK m : m = Top.node
  OBVIOUS
<1>0. PICK comma \in BOOLEAN : comma <=> (pos > Top.mark /\ toks[pos] = ",")
  OBVIOUS
<1>1. /\ Returned("argument") /\ UNCHANGED driver /\ Continue(m) /\ step = "return"
      /\ comma => toks[pos + 1] = ")"
  BY <1>0 DEF CloseCall, MoreArguments, Returned
<1>2. PICK after :
        /\ after \in IF comma THEN {[pos |-> pos + 2, diags |-> diags]}
                    ELSE Expecting(")", "expected closing")
        /\ pos' = after.pos /\ diags' = after.diags
        /\ nodes' = [nodes EXCEPT ![m] = Completed(m, after.pos)]
  BY <1>0 DEF CloseCall
<1>3. /\ InputOK /\ ControlOK /\ stack # <<>> /\ Top.wait = "argument" /\ pos \in Nat \ {0}
      /\ nodes \in Seq(Node) /\ Len(nodes) \in Nat /\ FrameOK(Top, Len(nodes), Len(toks))
      /\ From(Len(stack)) \in Nat /\ FrameSpans(Top, nodes, From(Len(stack)), Tight)
      /\ Top.op \in Nat
  <2>1. "argument" \in Waits \ {"none"}
    BY DEF Waits
  <2> QED BY <1>1, <2>1, ReturnFacts, InputFacts
<1>4. /\ (Tight' => Tight) /\ start' = start /\ toks' = toks
      /\ \/ pos' = pos + 2 /\ toks[pos] = "," /\ toks[pos + 1] = ")"
         \/ pos' = pos + 1 /\ toks[pos] = ")"
  <2>1. CASE comma
    <3>1. diags' = diags /\ pos' = pos + 2
      BY <1>2, <2>1
    <3> QED BY <1>0, <1>1, <2>1, <3>1, TightKept
  <2>2. CASE ~comma
    <3>1. after \in Expecting(")", "expected closing")
      BY <1>2, <2>2
    <3>2. ")" # "eof" /\ "expected closing" \in Messages
      BY DEF Messages
    <3> QED BY <1>1, <1>2, <1>3, <3>1, <3>2, TightExpecting
  <2> QED BY <2>1, <2>2
<1> PICK p : p = pos'
  OBVIOUS
<1>5. PICK D : TreesOf(D)
  BY <1>1, <1>4, TreesBefore
<1>6. m # 0 /\ m \in Nat
  BY <1>3 DEF FrameOK
<1>7. pos' \in 1..Len(toks) /\ pos <= pos' /\ p \in Nat
  <2>1. pos' \in 1..Len(toks')
    BY DEF ParserInv, InputOK
  <2>2. pos' \in 1..Len(toks)
    BY <1>4, <2>1
  <2>3. pos \in Nat /\ (pos' = pos + 1 \/ pos' = pos + 2)
    BY <1>3, <1>4
  <2> QED BY <2>2, <2>3
<1>8. nodes' = [nodes EXCEPT ![Top.node] = Completed(Top.node, pos')]
  BY <1>2
<1> PICK b : b = From(Len(stack))
  OBVIOUS
<1>9. "argument" \in {"group", "argument"}
  OBVIOUS
<1>10. Moving(m) /\ m \in 1..Len(nodes)
  <2>1. Moving(m)
    BY <1>1, <1>4, <1>6, <1>7, <1>8, <1>9, CompletedSpans
  <2> QED BY <1>1, <1>6, <1>9, <2>1, GrownKids
<1>11. Fills(nodes'[m].span, b, p)
  BY <1>1, <1>3, <1>4, <1>6, ContinuedFills
<1> PICK n : n = nodes'[m]
  OBVIOUS
<1>12. /\ n.kind = nodes[m].kind /\ n.tok = nodes[m].tok /\ ret # 0
       /\ n.kids = WithKid(nodes[m].kids, ret) /\ n.kids \in Seq(Nat)
  <2>0. "argument" \in Waits \ {"none"}
    BY DEF Waits
  <2>1. ret # 0
    BY <1>1, <1>4, <1>5, <2>0, ReturnTrees
  <2>2. n = Completed(Top.node, pos')
    BY <1>3, <1>8, <1>10
  <2> QED BY <1>1, <1>6, <1>9, <2>1, <2>2, CompletedIs DEF WithKid
<1>13. /\ m \notin D /\ Whole(toks, nodes, D) /\ FramesBind(toks, stack, nodes, D)
       /\ D \in SUBSET (1..Len(nodes))
       /\ CallBegun(toks, nodes, D, n, Top.op, Top.min)
       /\ Len(n.kids) > 1 /\ Len(n.kids) \in Nat
       /\ Listed(toks, nodes, n) /\ Behind(nodes, n, Len(n.kids)) = pos + 1
  BY <1>1, <1>4, <1>5, <1>12, ArgumentFacts
<1> PICK E : E = D \cup {m}
  OBVIOUS
<1>14. m \in 1..Len(nodes') /\ Fresh(m, m)
  <2>1. Len(nodes) \in Nat /\ Len(nodes') \in Nat /\ Len(nodes) <= Len(nodes')
    BY <1>10, LenProperties DEF Moving, Changed
  <2> QED BY <1>10, <2>1 DEF Fresh
<1>15. Keeps(nodes, nodes', D, E)
  <2>1. Grown(D, E, m)
    BY <1>6, <1>14 DEF Grown
  <2> QED BY <1>10, <1>13, <2>1, KeepsGrown DEF Moving
<1>16. CallBegun(toks, nodes', E, n, Top.op, Top.min)
  BY <1>13, <1>15, CallBegunKept
<1>17. \A k \in 1..Len(n.kids) : nodes'[n.kids[k]] = nodes[n.kids[k]]
  <2>1. KidsOf(n) \subseteq D
    BY <1>13 DEF CallBegun
  <2> QED BY <1>15, <2>1 DEF Keeps, KidsOf
<1>18. Listed(toks, nodes', n) /\ Closed(toks, nodes', n, p - 1)
  <2>1. \A k \in 1..Len(n.kids) : Behind(nodes', n, k) = Behind(nodes, n, k)
    BY <1>17 DEF Behind
  <2>2. Len(n.kids) \in 1..Len(n.kids)
    BY <1>13
  <2>3. Behind(nodes', n, Len(n.kids)) = pos + 1
    BY <1>13, <2>1, <2>2
  <2>4. p = pos + 1 \/ (p = pos + 2 /\ toks[pos] = Separator)
    BY <1>4 DEF Separator
  <2>5. Listed(toks, nodes', n)
    BY <1>13, <1>17, ListedKept
  <2>6. pos \in Nat
    BY <1>3
  <2> QED BY <1>13, <2>3, <2>4, <2>5, <2>6, CallCloses
<1>19. Fills(nodes'[n.kids[1]].span, b, n.tok)
  <2>1. Fills(nodes[n.kids[1]].span, b, Top.op)
    BY <1>1, <1>4, <1>6, <1>9, <1>12, GrownKids
  <2>2. nodes'[n.kids[1]] = nodes[n.kids[1]] /\ n.tok = Top.op
    <3>1. 1 \in 1..Len(n.kids)
      BY <1>13
    <3> QED BY <1>13, <1>17, <3>1 DEF CallBegun
  <2> QED BY <2>1, <2>2
<1>20. Derived(toks, nodes', n)
  <2>1. toks[p - 1] = ")"
    <3>1. p = pos + 1 => p - 1 = pos
      BY <1>3
    <3>2. p = pos + 2 => p - 1 = pos + 1
      BY <1>3
    <3> QED BY <1>4, <3>1, <3>2
  <2>2. n.kind = "call" /\ n.kids # <<>> /\ toks[n.tok] = "(" /\ n.tok \in Nat
    BY <1>3, <1>13 DEF CallBegun
  <2> QED BY <1>3, <1>7, <1>11, <1>18, <1>19, <2>1, <2>2, CallReads
<1>21. /\ Good(toks, nodes', E, m)
       /\ Free(toks, nodes', E, m, pos') /\ Grips(toks, nodes', E, m, Top.min)
  <2>1. /\ n.kind = "call" /\ n.tok = Top.op /\ Calls /\ KidsOf(n) \subseteq E
        /\ Free(toks, nodes', E, n.kids[1], Top.op) /\ Grips(toks, nodes', E, n.kids[1], Top.min)
    BY <1>16 DEF CallBegun
  <2>2. Looped(toks, n)
    BY <2>1 DEF Looped, IsPostfix
  <2> QED BY <1>20, <2>1, <2>2, CallWhole
<1> QED BY <1>1, <1>3, <1>4, <1>10, <1>13, <1>14, <1>21, ContinueTrees

\* What cannot happen in a statement about which nothing is reported.
LEMMA ErrorReported ==
  ASSUME ParserInv, NEW id \in Allocated, NEW msg \in Messages, UNCHANGED driver,
         MakeError(id, msg)
  PROVE  ~Tight'
<1>1. InputOK /\ pos \in Nat /\ Len(nodes) \in Nat
  BY InputFacts, NodesLen DEF ParserInv
<1>2. CASE id = 0
  <2>1. mayFail
    BY <1>1, <1>2 DEF Allocated
  <2> QED BY <2>1 DEF Tight, driver
<1>3. CASE id # 0
  <2>1. diags' \in Reported(diags, msg, pos)
    BY <1>3 DEF MakeError
  <2> QED BY <1>1, <2>1, TightReported
<1> QED BY <1>2, <1>3

LEMMA TooDeepTrees == ASSUME ParserInv, TooDeep PROVE TreesInv'
<1>1. PICK id \in Allocated : MakeError(id, "too deep")
  BY DEF TooDeep
<1>2. UNCHANGED driver /\ "too deep" \in Messages
  BY DEF TooDeep, Messages
<1>3. ~Tight'
  BY <1>1, <1>2, ErrorReported
<1> QED BY <1>3 DEF TreesInv

LEMMA NoExpressionTrees == ASSUME ParserInv, NoExpression PROVE TreesInv'
<1>1. PICK id \in Allocated : MakeError(id, "expected expression")
  BY DEF NoExpression
<1>2. UNCHANGED driver /\ "expected expression" \in Messages
  BY DEF NoExpression, Messages
<1>3. ~Tight'
  BY <1>1, <1>2, ErrorReported
<1> QED BY <1>3 DEF TreesInv

LEMMA SelectorWithoutNameTrees ==
  ASSUME ParserInv, SpansInv, SelectorWithoutName PROVE TreesInv'
<1> PICK next : next = pos + 1
  OBVIOUS
<1>1. /\ step = "loop" /\ UNCHANGED driver
      /\ diags' \in Reported(diags, "expected identifier", next)
  BY DEF SelectorWithoutName
<1>2. InputOK /\ next \in Nat
  <2>1. pos \in Nat /\ InputOK
    BY <1>1, LoopFacts
  <2> QED BY <2>1
<1>3. ~Tight'
  BY <1>1, <1>2, TightReported DEF Messages
<1> QED BY <1>3 DEF TreesInv

LEMMA BeginTrees == ASSUME ParserInv, SpansInv, BeginStatement PROVE TreesInv'
<1>1. /\ step = "idle" /\ step' = "enter" /\ stack' = stack /\ nodes' = nodes /\ toks' = toks
      /\ minArg' = 0
  BY DEF BeginStatement, parserUnchanged
<1>2. stack = <<>>
  BY <1>1 DEF SpansInv
<1>3. Len(stack') = 0 /\ 1..Len(stack') = {}
  BY <1>1, <1>2
<1>4. PICK D : D = {}
  OBVIOUS
<1>5. Whole(toks', nodes', D) /\ FramesBind(toks', stack', nodes', D)
  BY <1>3, <1>4 DEF Whole, FramesBind
<1>6. minArg' = Wanted(toks', stack', Len(stack'))
  BY <1>1, <1>3 DEF Wanted
<1>7. TreesOf(D)'
  BY <1>1, <1>5, <1>6 DEF TreesOf
<1> QED BY <1>7 DEF TreesInv

LEMMA RewindTrees == ASSUME Rewind PROVE TreesInv'
<1>1. step' = "idle"
  BY DEF Rewind
<1> QED BY <1>1 DEF TreesInv

LEMMA EndStatementTrees == ASSUME EndStatement PROVE TreesInv'
<1>1. step' = "idle"
  BY DEF EndStatement
<1> QED BY <1>1 DEF TreesInv

LEMMA StutterTrees == ASSUME TreesInv, UNCHANGED vars PROVE TreesInv'
<1>1. /\ toks' = toks /\ mayFail' = mayFail /\ pos' = pos /\ nodes' = nodes
      /\ diags' = diags /\ stack' = stack /\ step' = step /\ ret' = ret /\ start' = start
      /\ minArg' = minArg
  BY DEF vars
<1>2. (Tight' <=> Tight) /\ Top' = Top
  BY <1>1 DEF Tight, Top
<1> SUFFICES ASSUME Tight', step' # "idle" PROVE TreesInv'
  BY DEF TreesInv
<1>3. PICK D : TreesOf(D)
  BY <1>1, <1>2 DEF TreesInv
<1>4. TreesOf(D)'
  BY <1>1, <1>2, <1>3 DEF TreesOf
<1> QED BY <1>4 DEF TreesInv

LEMMA TreesStart == Init => TreesInv
BY DEF Init, TreesInv

LEMMA TreesSteps ==
  ParserInv /\ ParserInv' /\ SpansInv /\ SpansInv' /\ TreesInv /\ [Next]_vars => TreesInv'
  BY TooDeepTrees, EnterTrees, AtomTrees, OpenGroupTrees, CloseGroupTrees,
     PrefixOperatorTrees, FinishPrefixTrees, NoExpressionTrees, EndLoopTrees, PostfixTrees,
     SelectorTrees, SelectorWithoutNameTrees, InfixTrees, FinishInfixTrees, EmptyCallTrees,
     OpenCallTrees, NextArgumentTrees, CloseCallTrees, BeginTrees, RewindTrees,
     EndStatementTrees, StutterTrees, Zenon DEF Next, Stop
-----------------------------------------------------------------------------
(* What the trees of a statement are, once it has ended.                   *)

\* A set that has id, and with each of its nodes those next to it, has all
\* that are reached.
LEMMA ReachedStays ==
  ASSUME NEW g, Len(g) \in Nat, NEW id, NEW next, NEW S, id \in S, \A n \in S : next[n] \subseteq S
  PROVE  Reached(g, id, next) \subseteq S
<1> DEFINE V == SUBSET S
           Grow(v) == v \cup UNION {next[n] : n \in v}
           len == Len(g)
           grow == [k \in 1..len |-> [v \in V |-> Grow(v)]]
           first == {id}
           Moved(f) == f = [k \in 0..Len(g) |->
                              IF k = 0 THEN {id}
                              ELSE f[k - 1] \cup UNION {next[n] : n \in f[k - 1]}]
           found == CHOOSE f : Moved(f)
<1>1. \A v \in V : Grow(v) \in V
  OBVIOUS
<1>2. StaysIn(V, len, first, grow)
  <2>1. grow \in [1..len -> [V -> V]]
    <3> HIDE DEF Grow, V
    <3> QED BY <1>1
  <2>2. first \in V
    OBVIOUS
  <2> HIDE DEF grow, first, V
  <2> QED BY <2>1, <2>2 DEF StaysIn
<1>3. \E f : Moved(f) /\ f \in [0..len -> V]
  <2>1. PICK f : Follows(f, V, len, first, grow)
    <3> HIDE DEF grow, len, V, first
    <3>1. len \in Nat
      BY DEF len
    <3> QED BY <1>2, <3>1, RecursionExists
  <2>2. f \in [0..len -> V] /\ f[0] = first /\ \A k \in 1..len : f[k] = grow[k][f[k - 1]]
    <3> HIDE DEF grow, len, V, first
    <3> QED BY <2>1 DEF Follows
  <2>3. \A k \in 1..len : f[k - 1] \in V
    <3>1. \A k \in 1..len : k - 1 \in 0..len
      OBVIOUS
    <3> HIDE DEF V, len, grow
    <3> QED BY <2>2, <3>1
  <2>4. \A k \in 1..len : f[k] = Grow(f[k - 1])
    <3>1. \A k \in 1..len : grow[k][f[k - 1]] = Grow(f[k - 1])
      <4> HIDE DEF Grow, V
      <4> QED BY <2>3
    <3> HIDE DEF grow, Grow, V, len
    <3> QED BY <2>2, <3>1
  <2>5. f = [k \in 0..len |-> IF k = 0 THEN first ELSE Grow(f[k - 1])]
    <3> HIDE DEF Grow, V, first
    <3>1. \A k \in 0..len : f[k] = IF k = 0 THEN first ELSE Grow(f[k - 1])
      BY <2>2, <2>4
    <3> QED BY <2>2, <3>1
  <2> HIDE DEF V
  <2> QED BY <2>2, <2>5 DEF Grow
<1>4. Moved(found)
  <2> HIDE DEF Moved
  <2> QED BY <1>3
<1>5. Reached(g, id, next) = found[len]
  BY DEF Reached
<1>6. found[0] = first /\ \A k \in 1..len : found[k] = Grow(found[k - 1])
  <2>1. found = [k \in 0..len |-> IF k = 0 THEN first ELSE Grow(found[k - 1])]
    <3> HIDE DEF found
    <3> QED BY <1>4
  <2>2. len \in Nat
    OBVIOUS
  <2> HIDE DEF found, len, Grow, first
  <2> QED BY <2>1, <2>2
<1> HIDE DEF found, Grow, len
<1> DEFINE K == {k \in 0..len : found[k] \in V}
<1>7. len \in Nat
  BY DEF len
<1>8. 0 \in K
  BY <1>6, <1>7
<1>9. ASSUME NEW k \in 0..len - 1, k \in K PROVE k + 1 \in K
  <2>1. k + 1 \in 1..len /\ k + 1 - 1 = k
    BY <1>7
  <2>2. found[k] \in V
    BY <1>9
  <2>3. Grow(found[k]) \in V
    BY <1>1, <2>2
  <2>4. found[k + 1] \in V
    BY <1>6, <2>1, <2>3
  <2> QED BY <2>1, <2>4
<1>10. 0..len \subseteq K
  <2> HIDE DEF K
  <2> QED BY <1>7, <1>8, <1>9, BoundedInduction
<1>11. found[len] \in V
  BY <1>7, <1>10
<1> QED BY <1>5, <1>11

\* The edges of a tree lie on the spines that its nodes were made over.
LEMMA EdgesInSpines ==
  ASSUME NEW g, NEW D, D \subseteq DOMAIN g, Len(g) \in Nat, NEW x, NEW S
  PROVE  /\ RightSpine(g, D, x, S) => RightEdge(g, x) \subseteq S
         /\ LeftSpine(g, D, x, S)  => LeftEdge(g, x) \subseteq S
         /\ S \subseteq D /\ x \in S /\ (\A n \in S : KidsOf(g[n]) \subseteq S)
              => Below(g, x) \subseteq S
<1>1. ASSUME RightSpine(g, D, x, S) PROVE RightEdge(g, x) \subseteq S
  <2> PICK next : next = [n \in DOMAIN g |-> RightOf(g[n])]
    OBVIOUS
  <2>1. x \in S /\ \A n \in S : next[n] \subseteq S
    BY <1>1 DEF RightSpine
  <2>2. Reached(g, x, next) \subseteq S
    BY <2>1, ReachedStays
  <2> QED BY <2>2 DEF RightEdge
<1>2. ASSUME LeftSpine(g, D, x, S) PROVE LeftEdge(g, x) \subseteq S
  <2> PICK next : next = [n \in DOMAIN g |-> LeftOf(g[n])]
    OBVIOUS
  <2>1. x \in S /\ \A n \in S : next[n] \subseteq S
    BY <1>2 DEF LeftSpine
  <2>2. Reached(g, x, next) \subseteq S
    BY <2>1, ReachedStays
  <2> QED BY <2>2 DEF LeftEdge
<1>3. ASSUME S \subseteq D, x \in S, \A n \in S : KidsOf(g[n]) \subseteq S
      PROVE  Below(g, x) \subseteq S
  <2> PICK next : next = [n \in DOMAIN g |-> KidsOf(g[n])]
    OBVIOUS
  <2>1. \A n \in S : next[n] \subseteq S
    BY <1>3
  <2>2. Reached(g, x, next) \subseteq S
    BY <1>3, <2>1, ReachedStays
  <2> QED BY <2>2 DEF Below
<1> QED BY <1>1, <1>2, <1>3

\* The finished nodes of the statement have its tree among them.
LEMMA EndedTrees ==
  ASSUME ParserInv, SpansInv, TreesInv, Clean
  PROVE  /\ ret # 0 /\ Fills(nodes[ret].span, start.pos, pos)
         /\ \E D : /\ Whole(toks, nodes, D) /\ D \subseteq DOMAIN nodes /\ Len(nodes) \in Nat
                   /\ Below(nodes, ret) \subseteq D
<1>1. Tight /\ step = "return" /\ stack = <<>> /\ nodes \in Seq(Node) /\ Len(nodes) \in Nat
  BY NodesLen DEF Clean, Tight, Finishing, ParserInv, ControlOK
<1>2. Len(stack) + 1 = 1
  BY <1>1
<1>3. ret # 0 /\ Fills(nodes[ret].span, start.pos, pos)
  <2>1. From(1) = start.pos
    BY DEF From, Begin
  <2> QED BY <1>1, <1>2, <2>1 DEF SpansInv, Produced
<1>4. PICK D : TreesOf(D)
  BY <1>1 DEF TreesInv
<1>5. Whole(toks, nodes, D) /\ D \subseteq DOMAIN nodes /\ ret \in D
  <2>1. Whole(toks, nodes, D) /\ ret \in D
    BY <1>1, <1>4 DEF TreesOf, Made
  <2>2. DOMAIN nodes = 1..Len(nodes)
    BY <1>1, LenProperties
  <2> QED BY <2>1, <2>2 DEF Whole
<1>6. \A n \in D : KidsOf(nodes[n]) \subseteq D
  BY <1>5 DEF Whole, Good
<1>7. Below(nodes, ret) \subseteq D
  BY <1>1, <1>5, <1>6, EdgesInSpines
<1> QED BY <1>1, <1>3, <1>5, <1>7

\* What the operator loop took, by where its operator stands.
LEMMA TakenBy ==
  ASSUME NEW t, NEW g, NEW n, Derived(t, g, n), Looped(t, n), NEW k \in Nat, ~Ahead(t, OpAt(n), k),
         Joined(n) \/ n.kind = "call"
  PROVE  n.kind # "call" /\ OpOf(t, n).prec < k
<1>1. n.kind # "call"
  <2> SUFFICES ASSUME n.kind = "call" PROVE FALSE
    OBVIOUS
  <2>1. OpAt(n) = n.tok /\ Calls
    BY DEF OpAt, Looped
  <2>2. t[n.tok] = "("
    BY DEF Derived, IsPrefix, IsPostfix
  <2> QED BY <2>1, <2>2 DEF Ahead
<1>2. CASE n.kind \in {"binary", "selector"}
  <2>1. ~IsPrefix(n) /\ ~IsPostfix(n)
    BY <1>2 DEF IsPrefix, IsPostfix
  <2>2. OpOf(t, n) = OperatorFor(t[OpAt(n)], "infix")
    BY <1>2, <2>1 DEF OpOf, OpAt
  <2>3. IsOperator(t[OpAt(n)], "infix")
    BY <1>2 DEF Looped
  <2>4. OpOf(t, n).prec \in Nat
    BY <2>2, <2>3, OperatorForOK
  <2>5. ~(OpOf(t, n).prec >= k)
    BY <2>2, <2>3 DEF Ahead
  <2> QED BY <1>1, <2>4, <2>5
<1>3. CASE IsPostfix(n)
  <2>1. n.kind = "unary" /\ ~IsPrefix(n)
    BY <1>3 DEF IsPostfix
  <2>2. OpAt(n) = n.tok /\ OpOf(t, n) = OperatorFor(t[n.tok], "postfix")
    BY <1>3, <2>1 DEF OpAt, OpOf
  <2>3. IsOperator(t[n.tok], "postfix")
    BY <2>1 DEF Derived
  <2>4. "infix" \notin OperatorFor(t[n.tok], "postfix").roles
    BY <1>3 DEF Looped
  <2>5. OpOf(t, n).prec \in Nat
    BY <2>2, <2>3, OperatorForOK
  <2>6. ~(OpOf(t, n).prec >= k)
    BY <2>2, <2>3, <2>4 DEF Ahead
  <2> QED BY <1>1, <2>5, <2>6
<1> QED BY <1>1, <1>2, <1>3 DEF Joined

LEMMA OpPrec ==
  ASSUME NEW t, NEW g, NEW n, Derived(t, g, n), Looped(t, n), Joined(n)
  PROVE  OpOf(t, n).prec \in Nat
<1>1. CASE n.kind \in {"binary", "selector"}
  <2>1. ~IsPrefix(n) /\ ~IsPostfix(n)
    BY <1>1 DEF IsPrefix, IsPostfix
  <2>2. OpOf(t, n) = OperatorFor(t[OpAt(n)], "infix") /\ IsOperator(t[OpAt(n)], "infix")
    BY <1>1, <2>1 DEF OpOf, OpAt, Looped
  <2> QED BY <2>2, OperatorForOK
<1>2. CASE IsPostfix(n)
  <2>1. n.kind = "unary" /\ ~IsPrefix(n)
    BY <1>2 DEF IsPostfix
  <2>2. OpOf(t, n) = OperatorFor(t[n.tok], "postfix")
    BY <1>2, <2>1 DEF OpOf
  <2>3. IsOperator(t[n.tok], "postfix")
    BY <2>1 DEF Derived
  <2> QED BY <2>2, <2>3, OperatorForOK
<1> QED BY <1>1, <1>2 DEF Joined

\* The operator found for a symbol is an entry of the table in that role.
LEMMA EntryOf ==
  ASSUME NEW symbol, NEW role, IsOperator(symbol, role)
  PROVE  \E i \in DOMAIN Operators :
           OperatorFor(symbol, role) = Operators[i] /\ role \in Operators[i].roles
<1> DEFINE E == Entries(symbol, role)
           first == CHOOSE i \in E : \A j \in E : i <= j
<1>1. /\ E # {} /\ E \subseteq DOMAIN Operators
      /\ \A i \in E : role \in Operators[i].roles
  BY DEF IsOperator, Entries
<1>2. Operators \in Seq(Operator) /\ DOMAIN Operators = 1..Len(Operators)
  BY ConstantsOK, LenProperties
<1>3. E \in SUBSET Nat
  BY <1>1, <1>2
<1> HIDE DEF E
<1>4. \E i \in E : \A j \in E : i <= j
  BY <1>1, <1>3, LeastNumber
<1>5. first \in E
  BY <1>4
<1>6. OperatorFor(symbol, role) = Operators[first]
  BY DEF OperatorFor, E
<1> HIDE DEF first
<1> QED BY <1>1, <1>5, <1>6

\* An operator with a right operand: what the operand's loop began with.
LEMMA FloorIs ==
  ASSUME NEW t, NEW g, NEW n, Derived(t, g, n), Looped(t, n), Takes(n)
  PROVE  /\ Floor(t, n) \in Nat /\ Floor(t, n) <= RightMin(t, n) /\ RightMin(t, n) \in Nat
         /\ NoClamp => Floor(t, n) = RightMin(t, n)
<1> PICK op : op = OpOf(t, n)
  OBVIOUS
<1>1. CASE IsPrefix(n)
  <2>1. IsOperator(t[n.tok], "prefix")
    BY <1>1 DEF Derived, IsPrefix, IsPostfix
  <2>2. op.prec \in Nat
    BY <1>1, <2>1, OperatorForOK DEF OpOf
  <2> QED BY <1>1, <2>2 DEF Floor, RightMin
<1>2. CASE ~IsPrefix(n)
  <2>1. n.kind = "binary"
    BY <1>2 DEF Takes
  <2>2. ~IsPostfix(n)
    BY <2>1 DEF IsPostfix
  <2>3. op = OperatorFor(t[n.tok], "infix") /\ IsOperator(t[n.tok], "infix")
    BY <1>2, <2>1, <2>2 DEF OpOf, Looped, OpAt
  <2>4. op.prec \in Nat
    BY <2>3, OperatorForOK
  <2>5. NoClamp => op.prec # MaxPrec \/ op.assoc = "right"
    BY <2>3, EntryOf DEF NoClamp
  <2>6. Floor(t, n) = NextMin(op)
    BY <1>2 DEF Floor
  <2>7. RightMin(t, n) = IF op.assoc = "right" THEN op.prec ELSE op.prec + 1
    BY <1>2 DEF RightMin
  <2> QED BY <2>4, <2>5, <2>6, <2>7 DEF NextMin
<1> QED BY <1>1, <1>2

LEMMA BoundLeft ==
  ASSUME NEW D, Whole(toks, nodes, D), D \subseteq DOMAIN nodes, Len(nodes) \in Nat, NEW x \in D
  PROVE  BindsLeft(toks, nodes, nodes[x])
<1> PICK n : n = nodes[x]
  OBVIOUS
<1> SUFFICES ASSUME NEW l \in LeftOf(n), NEW m \in RightEdge(nodes, l), Takes(nodes[m])
             PROVE  /\ n.kind # "call"
                    /\ OpOf(toks, n).prec < RightMin(toks, nodes[m])
                    /\ ~Chain(toks, nodes[m], n)
  BY DEF BindsLeft
<1>1. Good(toks, nodes, D, x) /\ Derived(toks, nodes, n) /\ Looped(toks, n)
  BY DEF Whole, Good
<1>2. Free(toks, nodes, D, l, OpAt(n))
  BY <1>1 DEF Good
<1>3. PICK S : /\ RightSpine(nodes, D, l, S)
               /\ \A y \in S : Takes(nodes[y]) => Passes(toks, nodes[y], OpAt(n))
  BY <1>2 DEF Free
<1>4. m \in S /\ m \in D
  <2>1. RightEdge(nodes, l) \subseteq S
    BY <1>3, EdgesInSpines
  <2> QED BY <1>3, <2>1 DEF RightSpine
<1> PICK left : left = nodes[m]
  OBVIOUS
<1>5. Passes(toks, left, OpAt(n))
  BY <1>3, <1>4
<1>6. Derived(toks, nodes, left) /\ Looped(toks, left)
  BY <1>4 DEF Whole, Good
<1>7. /\ Floor(toks, left) \in Nat /\ Floor(toks, left) <= RightMin(toks, left)
      /\ RightMin(toks, left) \in Nat
  BY <1>6, FloorIs
<1>8. Joined(n) \/ n.kind = "call"
  BY DEF LeftOf
<1>9. ~Ahead(toks, OpAt(n), Floor(toks, left))
  BY <1>5 DEF Passes
<1>10. n.kind # "call" /\ OpOf(toks, n).prec < Floor(toks, left)
  BY <1>1, <1>7, <1>8, <1>9, TakenBy
<1>11. ~Chain(toks, left, n)
  <2> SUFFICES ASSUME Chain(toks, left, n) PROVE FALSE
    OBVIOUS
  <2>1. /\ left.kind = "binary" /\ OpOf(toks, left).assoc = "none"
        /\ n.kind \in {"binary", "selector"} /\ OpOf(toks, n).prec = OpOf(toks, left).prec
    BY DEF Chain
  <2>2. ~IsPrefix(n) /\ ~IsPostfix(n)
    BY <2>1 DEF IsPrefix, IsPostfix
  <2>3. OpOf(toks, n) = OperatorFor(toks[OpAt(n)], "infix")
    BY <2>1, <2>2 DEF OpOf, OpAt
  <2>4. IsOperator(toks[OpAt(n)], "infix")
    BY <1>1, <2>1 DEF Looped
  <2> QED BY <1>5, <2>1, <2>3, <2>4 DEF Passes
<1>12. OpOf(toks, n).prec < RightMin(toks, left)
  <2>1. OpOf(toks, n).prec \in Nat
    BY <1>1, <1>8, <1>10, OpPrec
  <2> QED BY <1>7, <1>10, <2>1
<1> QED BY <1>10, <1>11, <1>12

LEMMA BoundRight ==
  ASSUME NoClamp, NEW D, Whole(toks, nodes, D), D \subseteq DOMAIN nodes, Len(nodes) \in Nat,
         NEW x \in D
  PROVE  BindsRight(toks, nodes, nodes[x])
<1> PICK n : n = nodes[x]
  OBVIOUS
<1> SUFFICES ASSUME NEW r \in RightOf(n), NEW m \in LeftEdge(nodes, r), Joined(nodes[m])
             PROVE  OpOf(toks, nodes[m]).prec >= RightMin(toks, n)
  BY DEF BindsRight
<1>1. Good(toks, nodes, D, x) /\ Derived(toks, nodes, n) /\ Looped(toks, n)
  BY DEF Whole, Good
<1>2. Grips(toks, nodes, D, r, Floor(toks, n))
  BY <1>1 DEF Good
<1>3. PICK S : /\ LeftSpine(nodes, D, r, S)
               /\ \A y \in S : Joined(nodes[y]) => OpOf(toks, nodes[y]).prec >= Floor(toks, n)
  BY <1>2 DEF Grips
<1>4. m \in S
  <2>1. LeftEdge(nodes, r) \subseteq S
    BY <1>3, EdgesInSpines
  <2> QED BY <2>1
<1>5. Takes(n)
  BY DEF RightOf
<1>6. Floor(toks, n) = RightMin(toks, n)
  BY <1>1, <1>5, FloorIs
<1> QED BY <1>3, <1>4, <1>6

(* Every expression about which nothing was reported is, for every         *)
(* operator table and every input, a derivation of exactly the tokens it   *)
(* consumed (src/src/parser.c:404 kavak_parse_expression).                 *)
THEOREM TreesAlwaysDerive == Spec => []DerivesItsTokens
<1>1. ParserInv /\ SpansInv /\ TreesInv => DerivesItsTokens
  <2> SUFFICES ASSUME ParserInv, SpansInv, TreesInv, Clean
               PROVE  /\ ret # 0 /\ Fills(nodes[ret].span, start.pos, pos)
                      /\ \A id \in Below(nodes, ret) : Derived(toks, nodes, nodes[id])
    BY DEF DerivesItsTokens
  <2>1. ret # 0 /\ Fills(nodes[ret].span, start.pos, pos)
    BY EndedTrees
  <2>2. PICK D : Whole(toks, nodes, D) /\ Below(nodes, ret) \subseteq D
    BY EndedTrees
  <2> QED BY <2>1, <2>2 DEF Whole, Good
<1>2. Spec => [](ParserInv /\ SpansInv /\ TreesInv)
  BY ParserStarts, ParserSteps, SpansStart, SpansSteps, TreesStart, TreesSteps, PTL DEF Spec
<1> QED BY <1>1, <1>2, PTL

(* Operators bind as the table declares them, for every table in which no  *)
(* infix operator of the greatest precedence asks for more than that on    *)
(* its right (src/src/parser.c:404 kavak_parse_expression).                *)
THEOREM BindsAlwaysAsDeclared == ASSUME NoClamp PROVE Spec => []BindsAsDeclared
<1>1. ParserInv /\ SpansInv /\ TreesInv => BindsAsDeclared
  <2> SUFFICES ASSUME ParserInv, SpansInv, TreesInv, Clean
               PROVE  \A id \in Below(nodes, ret) :
                        BindsLeft(toks, nodes, nodes[id]) /\ BindsRight(toks, nodes, nodes[id])
    BY DEF BindsAsDeclared
  <2>1. PICK D : /\ Whole(toks, nodes, D) /\ D \subseteq DOMAIN nodes /\ Len(nodes) \in Nat
                 /\ Below(nodes, ret) \subseteq D
    BY EndedTrees
  <2> QED BY <2>1, BoundLeft, BoundRight
<1>2. Spec => [](ParserInv /\ SpansInv /\ TreesInv)
  BY ParserStarts, ParserSteps, SpansStart, SpansSteps, TreesStart, TreesSteps, PTL DEF Spec
<1> QED BY <1>1, <1>2, PTL
=============================================================================
