-------------------------------- MODULE Pratt --------------------------------
(***************************************************************************)
(* The expression parser of src/src/parser.c: kavak_parse_expression with  *)
(* its prefix forms, operator loop and call hook, on the cursor, the node  *)
(* arena and the diagnostics it shares with the descriptor's statement     *)
(* loop, which may also try an expression and rewind.                      *)
(*                                                                         *)
(* The C recursion is explicit: `stack` holds one frame per activation of  *)
(* kavak_parse_expression, and `step` says what runs next: the entry of an *)
(* activation, its prefix expression, its operator loop, or the return of  *)
(* the activation above (whose node is in `ret`).  Nodes live in an arena  *)
(* and are named by their index; 0 is NULL.  With mayFail any node may     *)
(* come out NULL and any diagnostic may be lost.                           *)
(*                                                                         *)
(* Positions count from 1 and a token is one symbol: the offset of token i *)
(* in the source is i - 1 and its length 1, but for the empty EOF.         *)
(***************************************************************************)
EXTENDS Integers, Sequences, FiniteSets

CONSTANTS
  Programs,     \* the token streams to parse, each ending in its only "eof"
  FailingPrograms,  \* those to parse while allocations may fail
  Operators,    \* config.operators, the operator table, in order
  MaxPrec,      \* UINT16_MAX
  MaxDepth,     \* KAVAK_PARSER_MAX_EXPR_DEPTH, 1024
  Calls,        \* whether parse_postfix is kavak_parser_parse_call, or NULL
  TargetSets,   \* the recovery targets a statement loop may use
  MaxStored,    \* bounds of the model: no statement begins beyond so many nodes
  MaxFailing    \* and diagnostics, or so many while allocations may fail

Fixed    == {"id", "lit", "(", ")", ",", ";", "eof"}  \* tokens other than operators
Assocs   == {"left", "right", "none"}
Roles    == {"infix", "prefix", "postfix", "selector"}
Kinds    == {"ident", "literal", "group", "unary", "binary", "selector", "call", "error"}
Messages == {"expected expression", "too deep", "expected )", "expected identifier",
             "cannot be chained", "expected closing", "expected ;"}

Operator == [symbol : STRING \ Fixed, prec : 0..MaxPrec, assoc : Assocs, roles : SUBSET Roles]

ASSUME ConstantsOK ==
  /\ \A program \in Programs \cup FailingPrograms :
       /\ program \in Seq(STRING)
       /\ program # <<>>
       /\ \A i \in 1..Len(program) : program[i] = "eof" <=> i = Len(program)
  /\ Operators \in Seq(Operator)
  /\ MaxPrec \in Nat
  /\ MaxDepth \in Nat \ {0}
  /\ Calls \in BOOLEAN
  /\ MaxStored \in Nat
  /\ MaxFailing \in Nat

VARIABLES
  toks,     \* parser->tokens
  mayFail,  \* whether the allocator may fail during this parse
  pos,      \* parser->pos + 1
  depth,    \* parser->expr_depth
  nodes,    \* the arena's nodes, in order of allocation
  diags,    \* parser->diags: messages with the position they are about
  stack,    \* the activations of kavak_parse_expression, outermost first
  step,     \* what runs next
  minArg,   \* the min_prec of the activation being entered
  ret,      \* the node the last activation returned
  start,    \* the statement loop's checkpoint at the expression's first token
  attempt   \* what a rewound attempt at this expression had produced

vars == <<toks, mayFail, pos, depth, nodes, diags, stack, step, minArg, ret, start, attempt>>

Span  == [start : Nat, len : Nat]
Node  == [kind : Kinds, tok : Nat, span : Span, kids : Seq(Nat)]
Diag  == Messages \X Nat
Waits == {"none", "group", "prefix", "infix", "argument"}
Frame ==
  [min  : Nat,      \* min_prec
   lhs  : Nat,      \* the local lhs
   wait : Waits,    \* where the inner call of kavak_parse_expression returns to
   node : Nat,      \* the group, unary or call node made before that call
   op   : Nat,      \* op_token: the operator, or the opening bracket
   mark : Nat]      \* parse_delimited's mark
Attempt == [made : BOOLEAN, root : Nat, pos : Nat, diags : Seq(Diag)]

TypeOK ==
  /\ toks \in Seq(STRING)
  /\ mayFail \in BOOLEAN
  /\ pos \in 1..Len(toks)
  /\ depth \in 0..MaxDepth
  /\ nodes \in Seq(Node)
  /\ diags \in Seq(Diag)
  /\ stack \in Seq(Frame)
  /\ step \in {"idle", "enter", "prefix", "loop", "return"}
  /\ minArg \in 0..MaxPrec
  /\ ret \in 0..Len(nodes)
  /\ start \in [pos : 1..Len(toks), diags : Nat]
  /\ attempt \in Attempt
-----------------------------------------------------------------------------
(* Tokens, spans, operators.                                               *)

\* parser_advance: the cursor stays on EOF.
\* Wrong: it does not.
M_Advance(p) == p + 1
Advance(p) == IF toks[p] = "eof" THEN p ELSE p + 1

NoSpan == [start |-> 0, len |-> 0]
SpanOf(i) == [start |-> i - 1, len |-> IF toks[i] = "eof" THEN 0 ELSE 1]

\* kavak_span_union: an empty span contributes nothing.
SpanUnion(a, b) ==
  IF a.len = 0 THEN b ELSE IF b.len = 0 THEN a
  ELSE LET from == IF a.start < b.start THEN a.start ELSE b.start
           endA == a.start + a.len
           endB == b.start + b.len
       IN  [start |-> from, len |-> (IF endA > endB THEN endA ELSE endB) - from]

Entries(symbol, role) ==
  {i \in DOMAIN Operators : Operators[i].symbol = symbol /\ role \in Operators[i].roles}
IsOperator(symbol, role) == Entries(symbol, role) # {}
\* operator_for_token: the first entry of the table in that role.
OperatorFor(symbol, role) ==
  Operators[CHOOSE i \in Entries(symbol, role) : \A j \in Entries(symbol, role) : i <= j]

\* Wrong: associativity is ignored.
M_NextMin(op) == IF op.prec = MaxPrec THEN MaxPrec ELSE op.prec + 1
NextMin(op) ==
  IF op.assoc = "right" \/ op.prec = MaxPrec THEN op.prec ELSE op.prec + 1
-----------------------------------------------------------------------------
(* Nodes and diagnostics.                                                  *)

MakeNode(kind, tok, span, kids) == [kind |-> kind, tok |-> tok, span |-> span, kids |-> kids]

\* What an arena allocation returns, and the arena after it.
Allocated == {Len(nodes) + 1} \cup (IF mayFail THEN {0} ELSE {})
Store(id, node) == IF id = 0 THEN nodes ELSE Append(nodes, node)

SpanIn(id) == IF id = 0 THEN NoSpan ELSE nodes[id].span

\* kavak_ast_append_child ignores a NULL child.
WithKid(kids, id) == IF id = 0 THEN kids ELSE Append(kids, id)

\* Wrong: the children do not count.
M_Finished(node, p) ==
  [node EXCEPT !.span = IF p > 1 /\ SpanOf(p - 1).start >= node.span.start
                        THEN SpanUnion(node.span, SpanOf(p - 1)) ELSE node.span]
\* kavak_parser_finish_node with the cursor at p: the node's own span with the
\* last token consumed, unless that precedes it, and with every child's.
Finished(node, p) ==
  LET own    == IF p > 1 /\ SpanOf(p - 1).start >= node.span.start
                THEN SpanUnion(node.span, SpanOf(p - 1)) ELSE node.span
      n      == Len(node.kids)
      unions[i \in 0..n] ==
        IF i = 0 THEN own ELSE SpanUnion(unions[i - 1], SpanIn(node.kids[i]))
  IN  [node EXCEPT !.span = unions[n]]

\* Node id over what was returned as well, finished with the cursor at p.
Completed(id, p) == Finished([nodes[id] EXCEPT !.kids = WithKid(@, ret)], p)

\* The diagnostics after parser_diag, whose own push may fail.
Reported(ds, msg, p) ==
  {Append(ds, <<msg, p>>)} \cup (IF mayFail THEN {ds} ELSE {})

\* Wrong: a missing token goes unreported.
M_Expecting(symbol, msg) ==
  {[pos |-> IF toks[pos] = symbol THEN pos + 1 ELSE pos, diags |-> diags]}
\* kavak_parser_expect_text: the cursor and the diagnostics after it.
Expecting(symbol, msg) ==
  IF toks[pos] = symbol THEN {[pos |-> pos + 1, diags |-> diags]}
  ELSE {[pos |-> pos, diags |-> ds] : ds \in Reported(diags, msg, pos)}

\* Wrong: the offending token is left in place.
M_MakeError(id, msg) ==
  IF id = 0 THEN UNCHANGED <<pos, nodes, diags>>
  ELSE /\ diags' \in Reported(diags, msg, pos)
       /\ nodes' = Store(id, MakeNode("error", pos, SpanOf(pos), <<>>))
       /\ UNCHANGED pos
\* make_error_node: an error node over the token it skips, or nothing at all.
MakeError(id, msg) ==
  IF id = 0 THEN UNCHANGED <<pos, nodes, diags>>
  ELSE /\ diags' \in Reported(diags, msg, pos)
       /\ nodes' = Store(id, Finished(MakeNode("error", pos, SpanOf(pos), <<>>),
                                      Advance(pos)))
       /\ pos' = Advance(pos)
-----------------------------------------------------------------------------
(* Entering and leaving an activation of kavak_parse_expression.           *)

Top  == stack[Len(stack)]
Rest == SubSeq(stack, 1, Len(stack) - 1)

driver == <<toks, mayFail, start, attempt>>

TooDeep ==
  /\ step = "enter"
  /\ depth >= MaxDepth
  /\ \E id \in Allocated : MakeError(id, "too deep") /\ ret' = id
  /\ step' = "return"
  /\ UNCHANGED <<driver, depth, stack, minArg>>

Enter ==
  /\ step = "enter"
  /\ depth < MaxDepth
  /\ depth' = depth + 1
  /\ stack' = Append(stack, [min |-> minArg, lhs |-> 0, wait |-> "none",
                             node |-> 0, op |-> 0, mark |-> 0])
  /\ step' = "prefix"
  /\ UNCHANGED <<driver, pos, nodes, diags, minArg, ret>>

\* Wrong: giving up on a NULL node leaves the depth as it was.
M_Leave(id) ==
  /\ stack' = Rest
  /\ depth' = IF id = 0 THEN depth ELSE depth - 1
  /\ ret' = id
  /\ step' = "return"
  /\ UNCHANGED minArg
\* Wrong: a NULL node leaves the one that was returned before in its place.
M_LeaveStale(id) ==
  /\ stack' = Rest
  /\ depth' = depth - 1
  /\ ret' = IF id = 0 THEN ret ELSE id
  /\ step' = "return"
  /\ UNCHANGED minArg
Leave(id) ==
  /\ stack' = Rest
  /\ depth' = depth - 1
  /\ ret' = id
  /\ step' = "return"
  /\ UNCHANGED minArg

\* The operator loop goes on with this lhs.
Continue(id) ==
  /\ stack' = Append(Rest, [Top EXCEPT !.lhs = id, !.wait = "none"])
  /\ step' = "loop"
  /\ UNCHANGED <<depth, minArg, ret>>

\* The prefix expression is parsed; NULL ends the activation.
HavePrefix(id) == IF id = 0 THEN Leave(0) ELSE Continue(id)

\* The frame calls kavak_parse_expression(min) and waits for it.
Call(frame, min) ==
  /\ stack' = Append(Rest, frame)
  /\ minArg' = min
  /\ step' = "enter"
  /\ UNCHANGED <<depth, ret>>

\* The inner call the top frame waits for at `place` has returned.
Returned(place) == step = "return" /\ stack # <<>> /\ Top.wait = place
-----------------------------------------------------------------------------
(* parse_prefix_expr.                                                      *)

AtAtom == toks[pos] \in {"id", "lit"}

Atom ==
  /\ step = "prefix"
  /\ AtAtom
  /\ \E id \in Allocated :
       /\ nodes' = Store(id, MakeNode(IF toks[pos] = "id" THEN "ident" ELSE "literal",
                                      pos, SpanOf(pos), <<>>))
       /\ HavePrefix(id)
  /\ pos' = Advance(pos)
  /\ UNCHANGED <<driver, diags>>

OpenGroup ==
  /\ step = "prefix"
  /\ toks[pos] = "("
  /\ \E id \in Allocated :
       /\ nodes' = Store(id, MakeNode("group", pos, SpanOf(pos), <<>>))
       /\ Call([Top EXCEPT !.wait = "group", !.node = id, !.op = pos], 0)
  /\ pos' = Advance(pos)
  /\ UNCHANGED <<driver, diags>>

CloseGroup ==
  /\ Returned("group")
  /\ \E after \in Expecting(")", "expected )") :
       /\ pos' = after.pos
       /\ diags' = after.diags
       /\ nodes' = IF Top.node = 0 THEN nodes
                   ELSE [nodes EXCEPT ![Top.node] = Completed(Top.node, after.pos)]
  /\ HavePrefix(Top.node)
  /\ UNCHANGED driver

PrefixOperator ==
  /\ step = "prefix"
  /\ ~AtAtom /\ toks[pos] # "("
  /\ IsOperator(toks[pos], "prefix")
  /\ \E id \in Allocated :
       /\ nodes' = Store(id, MakeNode("unary", pos, SpanOf(pos), <<>>))
       /\ Call([Top EXCEPT !.wait = "prefix", !.node = id, !.op = pos],
               OperatorFor(toks[pos], "prefix").prec)
  /\ pos' = Advance(pos)
  /\ UNCHANGED <<driver, diags>>

FinishPrefix ==
  /\ Returned("prefix")
  /\ nodes' = IF Top.node = 0 THEN nodes
              ELSE [nodes EXCEPT ![Top.node] =
                      MakeNode("unary", Top.op, SpanUnion(SpanOf(Top.op), SpanIn(ret)),
                               WithKid(<<>>, ret))]
  /\ HavePrefix(Top.node)
  /\ UNCHANGED <<driver, pos, diags>>

\* No built-in atom matches, and there is no parse_primary hook.
NoExpression ==
  /\ step = "prefix"
  /\ ~AtAtom /\ toks[pos] # "("
  /\ ~IsOperator(toks[pos], "prefix")
  /\ \E id \in Allocated : MakeError(id, "expected expression") /\ HavePrefix(id)
  /\ UNCHANGED driver
-----------------------------------------------------------------------------
(* The operator loop.                                                      *)

AtPostfix ==
  /\ IsOperator(toks[pos], "postfix")
  /\ LET op == OperatorFor(toks[pos], "postfix")
     IN  op.prec >= Top.min /\ "infix" \notin op.roles
AtInfix ==
  /\ ~AtPostfix
  /\ IsOperator(toks[pos], "infix")
  /\ OperatorFor(toks[pos], "infix").prec >= Top.min
AtSelector == AtInfix /\ "selector" \in OperatorFor(toks[pos], "infix").roles
AtCall     == Calls /\ toks[pos] = "("

\* Nothing extends lhs: also when the call hook could not make its node.
EndLoop ==
  /\ step = "loop"
  /\ ~AtPostfix /\ ~AtInfix
  /\ AtCall => mayFail
  /\ Leave(Top.lhs)
  /\ UNCHANGED <<driver, pos, nodes, diags>>

PostfixOperator ==
  /\ step = "loop"
  /\ AtPostfix
  /\ \E id \in Allocated :
       /\ nodes' = Store(id, MakeNode("unary", pos, SpanUnion(SpanIn(Top.lhs), SpanOf(pos)),
                                      <<Top.lhs>>))
       /\ HavePrefix(id)
  /\ pos' = Advance(pos)
  /\ UNCHANGED <<driver, diags>>

Selector ==
  /\ step = "loop"
  /\ AtSelector
  /\ toks[pos + 1] = "id"
  /\ \E id \in Allocated :
       /\ nodes' = Store(id, MakeNode("selector", pos + 1,
                                      SpanUnion(SpanIn(Top.lhs), SpanOf(pos + 1)),
                                      <<Top.lhs>>))
       /\ HavePrefix(id)
  /\ pos' = pos + 2
  /\ UNCHANGED <<driver, diags>>

\* The error node takes the place of lhs, and the activation ends.
SelectorWithoutName ==
  /\ step = "loop"
  /\ AtSelector
  /\ toks[pos + 1] # "id"
  /\ diags' \in Reported(diags, "expected identifier", pos + 1)
  /\ \E id \in Allocated :
       /\ nodes' = Store(id, MakeNode("error", pos + 1,
                                      SpanUnion(SpanIn(Top.lhs), SpanOf(pos + 1)), <<>>))
       /\ Leave(id)
  /\ pos' = Advance(pos + 1)
  /\ UNCHANGED driver

InfixOperator ==
  /\ step = "loop"
  /\ AtInfix /\ ~AtSelector
  /\ Call([Top EXCEPT !.wait = "infix", !.op = pos], NextMin(OperatorFor(toks[pos], "infix")))
  /\ pos' = Advance(pos)
  /\ UNCHANGED <<driver, nodes, diags>>

\* same_precedence_infix_ahead, after an operator that does not associate.
Chained(op) ==
  /\ op.assoc = "none"
  /\ IsOperator(toks[pos], "infix")
  /\ OperatorFor(toks[pos], "infix").prec = op.prec

FinishInfix ==
  /\ Returned("infix")
  /\ \E id \in Allocated :
       /\ nodes' = Store(id, MakeNode("binary", Top.op,
                                      SpanUnion(SpanIn(Top.lhs), SpanIn(ret)),
                                      WithKid(<<Top.lhs>>, ret)))
       /\ IF id # 0 /\ Chained(OperatorFor(toks[Top.op], "infix"))
          THEN diags' \in Reported(diags, "cannot be chained", pos) /\ Leave(id)
          ELSE HavePrefix(id) /\ UNCHANGED diags
  /\ UNCHANGED <<driver, pos>>
-----------------------------------------------------------------------------
(* The call hook: kavak_parser_parse_call and kavak_parser_parse_delimited. *)

EmptyCall ==
  /\ step = "loop"
  /\ AtCall
  /\ toks[pos + 1] = ")"
  /\ nodes' = Append(nodes, Finished(MakeNode("call", pos, SpanOf(pos), <<Top.lhs>>), pos + 2))
  /\ Continue(Len(nodes) + 1)
  /\ pos' = pos + 2
  /\ UNCHANGED <<driver, diags>>

OpenCall ==
  /\ step = "loop"
  /\ AtCall
  /\ toks[pos + 1] # ")"
  /\ nodes' = Append(nodes, MakeNode("call", pos, SpanOf(pos), <<Top.lhs>>))
  /\ Call([Top EXCEPT !.wait = "argument", !.node = Len(nodes) + 1, !.op = pos,
                      !.mark = pos + 1], 0)
  /\ pos' = pos + 1
  /\ UNCHANGED <<driver, diags>>

\* Another argument follows if the last one consumed something and a comma
\* stands before anything but the close.
MoreArguments == pos > Top.mark /\ toks[pos] = "," /\ toks[pos + 1] # ")"

NextArgument ==
  /\ Returned("argument")
  /\ MoreArguments
  /\ nodes' = [nodes EXCEPT ![Top.node].kids = WithKid(@, ret)]
  /\ Call([Top EXCEPT !.mark = pos + 1], 0)
  /\ pos' = pos + 1
  /\ UNCHANGED <<driver, diags>>

CloseCall ==
  /\ Returned("argument")
  /\ ~MoreArguments
  /\ \E after \in IF pos > Top.mark /\ toks[pos] = ","
                  THEN {[pos |-> pos + 2, diags |-> diags]}
                  ELSE Expecting(")", "expected closing") :
       /\ pos' = after.pos
       /\ diags' = after.diags
       /\ nodes' = [nodes EXCEPT ![Top.node] = Completed(Top.node, after.pos)]
  /\ Continue(Top.node)
  /\ UNCHANGED driver
-----------------------------------------------------------------------------
(* kavak_parser_recover_to and kavak_parser_recover_to_targets.            *)

\* Wrong: a stray closing bracket makes the next opening one look closed.
M_DepthAfter(symbol, d) ==
  IF symbol = "(" THEN d + 1 ELSE IF symbol = ")" THEN d - 1 ELSE d
\* recovery_update_depth
DepthAfter(symbol, d) ==
  IF symbol = "(" THEN d + 1 ELSE IF symbol = ")" /\ d # 0 THEN d - 1 ELSE d

RecoverTo(from, targets) ==
  LET inside[i \in from..Len(toks)] ==
        IF i = from THEN 0 ELSE DepthAfter(toks[i - 1], inside[i - 1])
      stops == {i \in from..Len(toks) :
                  \/ toks[i] = "eof"
                  \/ inside[i] = 0 /\ toks[i] \in targets \ {"("}}
  IN  CHOOSE i \in stops : \A j \in stops : i <= j
-----------------------------------------------------------------------------
(* The descriptor: a loop of expression statements, each of which may be   *)
(* tried and rewound once before it is parsed for good.                    *)

parserUnchanged == <<toks, mayFail, depth, nodes, stack, ret>>

BelowBound ==
  Len(nodes) + Len(diags) <= IF mayFail THEN MaxFailing ELSE MaxStored

BeginStatement ==
  /\ step = "idle"
  /\ BelowBound
  /\ toks[pos] # "eof"
  /\ start' = [pos |-> pos, diags |-> Len(diags)]
  /\ minArg' = 0
  /\ step' = "enter"
  /\ UNCHANGED <<parserUnchanged, pos, diags, attempt>>

Finishing == step = "return" /\ stack = <<>>

\* Wrong: only the cursor goes back.
M_DropDiags == UNCHANGED diags
DropDiags == diags' = SubSeq(diags, 1, start.diags)

\* kavak_parser_rewind to the checkpoint; the nodes stay in the arena.
Rewind ==
  /\ Finishing
  /\ ~attempt.made
  /\ attempt' = [made |-> TRUE, root |-> ret, pos |-> pos, diags |-> diags]
  /\ pos' = start.pos
  /\ DropDiags
  /\ step' = "idle"
  /\ UNCHANGED <<parserUnchanged, minArg, start>>

\* The statement's semicolon, and, on a missing one, recovery if it does any.
EndStatement ==
  /\ Finishing
  /\ \E after \in Expecting(";", "expected ;") :
       /\ diags' = after.diags
       /\ \/ pos' = after.pos
          \/ /\ toks[pos] # ";"
             /\ \E targets \in TargetSets : pos' = RecoverTo(pos, targets)
  /\ attempt' = [made |-> FALSE, root |-> 0, pos |-> 1, diags |-> <<>>]
  /\ step' = "idle"
  /\ UNCHANGED <<parserUnchanged, minArg, start>>

AtEnd == step = "idle" /\ toks[pos] = "eof"
Full  == step = "idle" /\ ~BelowBound   \* the model stops here, not the code
Stop  == (AtEnd \/ Full) /\ UNCHANGED vars

Init ==
  /\ \/ mayFail = FALSE /\ toks \in Programs
     \/ mayFail = TRUE /\ toks \in FailingPrograms
  /\ pos = 1
  /\ depth = 0
  /\ nodes = <<>>
  /\ diags = <<>>
  /\ stack = <<>>
  /\ step = "idle"
  /\ minArg = 0
  /\ ret = 0
  /\ start = [pos |-> 1, diags |-> 0]
  /\ attempt = [made |-> FALSE, root |-> 0, pos |-> 1, diags |-> <<>>]

Next ==
  \/ TooDeep \/ Enter
  \/ Atom \/ OpenGroup \/ CloseGroup \/ PrefixOperator \/ FinishPrefix \/ NoExpression
  \/ EndLoop \/ PostfixOperator \/ Selector \/ SelectorWithoutName
  \/ InfixOperator \/ FinishInfix
  \/ EmptyCall \/ OpenCall \/ NextArgument \/ CloseCall
  \/ BeginStatement \/ Rewind \/ EndStatement \/ Stop

Spec == Init /\ [][Next]_vars
\* The parser and its caller are one sequential program: it runs on.
FairSpec == Spec /\ WF_vars(Next)
-----------------------------------------------------------------------------
(* expr_depth counts the live activations on every path, early returns     *)
(* included (src/src/parser.c:409, 413, 512), so it neither leaks over a   *)
(* long file nor lets recursion pass the limit.                            *)
DepthCounts == depth = Len(stack) /\ depth <= MaxDepth

Kid(id, i) == nodes[id].kids[i]
KidCount(id) == Len(nodes[id].kids)

(* Child lists are threaded through the children's own next_sibling        *)
(* (src/src/ast.c:27), so no node may be appended twice, and a node that   *)
(* is still to be placed must not have a parent yet.                       *)
OneParent ==
  LET places == {p \in (1..Len(nodes)) \X (1..Len(nodes)) : p[2] <= KidCount(p[1])}
      held   == {stack[i].lhs : i \in {k \in 1..Len(stack) : stack[k].wait # "argument"}}
                  \cup {stack[i].node : i \in {k \in 1..Len(stack) :
                                              stack[k].wait \in {"group", "prefix", "argument"}}}
                  \cup (IF step = "return" THEN {ret} ELSE {})
  IN  /\ \A p, q \in places : Kid(p[1], p[2]) = Kid(q[1], q[2]) => p = q
      /\ \A p \in places : Kid(p[1], p[2]) \notin held

\* An expression has ended, and nothing about it was reported.
Clean == ~mayFail /\ Finishing /\ Len(diags) = start.diags

SpanEnd(span) == span.start + span.len

(* Spans nest: once an expression has ended, the children of every node of *)
(* the arena lie inside it, in source order and apart, in damaged trees    *)
(* and dropped ones too, and without a diagnostic the root spans exactly   *)
(* the tokens consumed (src/src/parser.c:274 kavak_parser_finish_node and  *)
(* the unions of the operator loop).                                       *)
SpansNest ==
  Finishing =>
    /\ \A id \in 1..Len(nodes) :
         \A i \in {k \in 1..KidCount(id) : nodes[Kid(id, k)].span.len > 0} :
           LET kid == nodes[Kid(id, i)].span
           IN  /\ nodes[id].span.start <= kid.start
               /\ SpanEnd(kid) <= SpanEnd(nodes[id].span)
               /\ \A j \in 1..i - 1 : SpanEnd(nodes[Kid(id, j)].span) <= kid.start
    /\ Clean => nodes[ret].span = [start |-> start.pos - 1, len |-> pos - start.pos]

\* How many of the tokens from i to j are this one.
Occurrences(symbol, i, j) == Cardinality({k \in i..j : toks[k] = symbol})

(* Recovery stops at the first target that no bracket opened on the way    *)
(* still encloses, or at the end (include/kavak.h:898 "nested (), [], {}   *)
(* are skipped over").                                                     *)
RecoveryStopsOutside ==
  AtEnd => \A targets \in TargetSets, from \in 1..Len(toks) :
    LET Outside(i) == \A k \in from..i - 1 :
                        Occurrences("(", k, i - 1) <= Occurrences(")", k, i - 1)
        Fits(i) == \/ toks[i] = "eof"
                   \/ toks[i] \in targets \ {"("} /\ Outside(i)
        stop == RecoverTo(from, targets)
    IN  Fits(stop) /\ \A i \in from..stop - 1 : ~Fits(i)
=============================================================================
