# Verification of kavak

kavak is an embeddable C library for language front ends. A host describes its
language by a descriptor (`KavakLanguage`: keywords, operators, layout and
semicolon rules, and hooks), and kavak supplies what front ends have in common: a
lexer with an optional offside rule, a Pratt expression parser with error
recovery, a toolkit for scopes and name resolution, and a type model. This
directory holds TLA+ models of the library's logic, the TLC runs that check them
and the TLAPS proofs about them. Paths below are relative to the repository's
root (`src/lexer.c`, `include/kavak.h`); in `PROJECT.json` they carry the
checkout's directory `src/` in front.

The library is **sequential**: a session is used by one thread at a time
(`include/kavak.h:1755`, `src/intern.c:9`), independent sessions share no mutable
state (`tests/test_threads.c`), and nothing runs in the background.
What makes it hard is elsewhere:

* every allocation may fail, and each function has its own answer to that: give
  up, lose a diagnostic, leave a child out, flag a node;
* the state is spread over long calls: an indentation stack over a whole file, a
  recursion depth over a whole parse, a scope stack over two walks;
* the host's hooks run inside kavak's recursion and share its cursor, arena,
  diagnostics and scopes;
* limits (token count, indentation depth, expression depth, resolution depth,
  capacity doublings) are tested at one place and relied on at others.

## Inventory

| component | state | operations | hard behaviour | what makes it correct |
|---|---|---|---|---|
| Lexer driver and layout, `src/lexer.c:998-1180` | `pos`, `indent_stack`, `at_line_start`, `line_has_significant`, `last_significant_index`, token and diagnostic vectors | one iteration of the loop: line start, white space, newline, scan; end of the source | several dedents at once, two dedent rules, three features that end lines, ceilings, failed pushes | blocks open and close as the source's columns say; INDENT and DEDENT balance; each line owes the right virtual tokens; no code is lost; the call returns |
| Token scanners, `src/lexer.c:307-949` | `pos`, token vector, the recursion depth of interpolation | identifiers, numbers, strings, comments, operators, interpolated strings | general scanners run inside a string, recursion to a limit, unterminated literals | progress, each byte in at most one token, braces of an interpolation matched |
| Token vector, diagnostics, `src/token.c`, `src/diag.c` | count, capacity, items | push, reserve, error count, format | doubling, limits, failure leaves the vector usable | contents are the successful pushes in order |
| Expression parser, `src/parser.c` | cursor, `expr_depth`, nodes in the arena, diagnostics | `kavak_parse_expression`, prefix forms, operator loop, calls, delimited lists, checkpoint/rewind, recovery | mutual recursion with hooks, NULL nodes on any path, intrusive sibling lists, damaged input | trees derive what was consumed and bind as declared; depth is exact; progress |
| AST and spans, `src/ast.c`, `src/span.c` | nodes, threaded by `next_sibling` | append child, union, walk | a node in two lists | each node has one parent; spans nest |
| Sema toolkit, `src/sema.c` | scope stack, `resolve_depth`, node types, error flags, diagnostics | push/pop, bind, lookup, overloads, the declaration and resolution walks, narrowing helpers | hooks on the way down and up, failures after a push, limits, shadowing | names resolve lexically; scopes balance; narrowings are undone; nothing fails silently |
| Types, `src/type.c` | immutable type graphs, possibly cyclic | constructors, equality, substitution, assignability, join, unification, conformance, exhaustiveness | recursion over cyclic graphs with pair lists and depth limits | agreement with reference relations; termination |
| Type arena, `src/type.c:91-160` | arena, built-in singletons | init, reset, free | a failed reset; types that outlive it | built-ins are always there; nothing is used after a reset |
| Session and result, `src/kavak.c` | session, result with source, tokens, tree, diagnostics | new, analyze, reset, free | each phase may fail; results borrow from the session | a result owns what it frees and is consistent after every failure |
| Arena, `src/arena.c` | chunk list | aligned allocation, free | padding, overflow, fresh chunks | allocations are aligned and disjoint |
| Intern pool, `src/intern.c` | open-addressing table | intern | growth before lookup, failed growth | equal strings give equal pointers |
| Source, `src/source.c` | bytes, lazily built line table | newline length, position, slice | table doubling with a sentinel, mixed newline kinds | line and column agree with the bytes |
| UTF-8 and identifier tables, `src/utf8.c`, `src/unicode_xid.*` | none | decode, classify | generated data | |
| Dump, `src/dump.c` | none | text, JSON and s-expression output | | |
| Example language, `examples/tinylang.c` | none of its own | statement loop over the parser | progress depends on the parser's | every statement ends |

How they meet: `kavak_analyze_bytes` (`src/kavak.c:112`) lexes a source into a
result's vectors, hands the tokens and the result's arena to the descriptor's
`parse_source`, which drives the parser, then resolves names over the tree with
the descriptor's hooks and with types from the session's arena. There are no
messages; components share the vectors, the arena and the node fields, and call
each other through hooks.

`PROJECT.json` lists the hazards of this code at their lines, and the property
that covers each one or the reason none does.

## Modules

| module | role |
|---|---|
| `LexLayout` | the driver of `kavak_lex` |
| `LexLayoutRef` | what a token stream must be, computed from the whole source at once |
| `LexLayoutProofs` | types, columns, balance, completeness and room, proved |
| `LexLayoutRefProofs` | the driver gives what `LexLayoutRef` computes, proved |
| `LexScan` | the token scanners, with strings and interpolations calling each other |
| `LexScanRef` | what a scanned text must give: tiling, numbers, templates derived from a grammar |
| `LexScanProofs` | the scanners stay in the source, tile it with tokens and read the longest numbers, proved |
| `Pratt` | the expression parser, its call hook, checkpoints, recovery, the statement loop |
| `PrattTree` | what a tree must be, node by node: the tokens it derives, the operands its operators bind |
| `PrattRef` | what a second attempt must give, and progress |
| `PrattProofs` | the guard is exact, ranges are kept, nodes form a forest, recovery stops outside brackets, spans nest, trees derive their tokens and bind as declared, proved |
| `Sema` | scopes, both walks and the narrowing helpers |
| `SemaRef` | lexical resolution read off the tree |
| `SemaProofs` | scopes, narrowings, silence, overload choice and lexical resolution, proved |
| `Types` | the graph of types and the operations on it |
| `TypesRef` | what those operations must be, said of the trees that types unfold to |
| `Arena` | the bump allocator in a small address space |
| `InternSpec` | the abstract intern pool: what its client may rely on |
| `Intern` | the intern pool over `Arena`, checked to implement `InternSpec` |
| `InternProofs` | allocations are apart; the pool implements `InternSpec`, proved |
| `Source` | newlines, the decoder of UTF-8, the line table and its search |
| `Session` | sessions, the type arena, analyses, results and their positions, over `Source` |
| `SessionProofs` | memory, types and positions of sessions, the line table and its search, proved |
| `Induction` | induction over sets of numbers, functions defined by recursion |
| `MCLexLayout`, `MCLexScan`, `MCPratt`, `MCSema`, `MCTypes`, `MCIntern`, `MCSession` | the inputs of the runs |

Composition: `Intern` extends `Arena` and uses its actions, with a second client
that drives the arena alone; `Session` extends `Source`. `LexScan` and `LexLayout`
split the lexer between them: a template literal is one symbol of `LexLayout` that
may emit any sequence of tokens, and `LexScan` says which. `Session` has the
lexer, the parser and sema as phases that fail, report or succeed.

Definitions named `M_...` are wrong variants of the definition below them: each
is a plausible bug, and `PROJECT.json` pairs it with the property that finds it.

### LexLayout

A source is a sequence of lexical symbols, one per position. White space, tabs,
form feeds and newlines are themselves; everything else is one symbol for each
shape the driver tells apart: a name, an operator, a byte no scanner claims, a
line comment, a block comment, a template literal. What a scanner emits is a
sequence of token kinds, and a template literal may emit any sequence of
`TemplateEmits`, which over-approximates the interpolation scanner.

`phase` is the place in the loop. `BeginIteration` and `TruncateAtCeiling` are
the loop's head (`src/lexer.c:1141`); `MeasureIndent`, `SkipLayout`,
`IndentTooDeep`, `OpenBlock` and `CloseBlocks` are
`handle_offside_line_start` (998); `ReachEnd`, `FinishPhysicalLine` and `Scan` the body;
`FinishStream` is `finish_eof_layout` and the EOF push. Pushing several tokens is
one action with a disjunct per failing push (`Emit`), since nothing can observe the
driver between two pushes but the early return. After that return (`failed`) the
token and diagnostic vectors keep what they held and the driver's other variables
are dead; properties of them exclude that phase.

`TabStop` (8), `MaxIndentDepth` (128) and `TokenLimit` (`UINT32_MAX`) are the
code's constants, and parameters here.

### Pratt

The C recursion is explicit: `stack` has a frame for each activation of
`kavak_parse_expression` with its `min_prec`, its `lhs` and where the call it
made returns to; `step` is what runs next. Each action runs to the next call or
return: `Atom`, `OpenGroup`/`CloseGroup`, `PrefixOperator`/`FinishPrefix` and
`NoExpression` are `parse_prefix_expr`; `PostfixOperator`,
`Selector`, `SelectorWithoutName`, `InfixOperator`/`FinishInfix` and `EndLoop` the operator loop;
`EmptyCall`, `OpenCall`, `NextArgument` and `CloseCall` are
`kavak_parser_parse_call` with `kavak_parser_parse_delimited`. Nodes live in the
sequence `nodes` and are named by their index, 0 being NULL; with `AllocFails`
each allocation may return 0 and each diagnostic may be lost. `BeginStatement`,
`Rewind` and `EndStatement` are the descriptor, written after
`examples/tinylang.c` and the checkpoint idiom: a loop of
expression statements, each possibly tried once, rewound and parsed again, with
recovery after a missing semicolon.

`MaxStored` bounds the model, not the code: no statement begins when more nodes
and diagnostics than that are stored. It is large enough for every program of
`pratt_grammar` to be parsed twice to its end; where allocations fail it cuts the
endless retries of `pratt_alloc_stall`.

### Sema

A tree is the sequence of its nodes in preorder, each with the size of its
subtree. `walk` holds the nodes being visited, `next` the node that comes next;
`Declare` and the `Resolve...` actions are the hooks called when a node is
entered, the `Close...` actions those after its children, `TooDeep` the guard on
`resolve_depth`. The kernel knows nothing of node kinds but identifiers, so the
hooks are a descriptor's: a function bound by
`declare_node`, a variable bound by `resolve_node`, a block that pushes a scope
and pops it in `resolve_node_post` *if its push succeeded*, a branch that
binds a narrowing, a guard that narrows what follows it, and a group that takes
its first child's type. After the walks `post_sema` calls the narrowing helpers:
`BeginBody`/`EndBody` are `kavak_sema_with_branch_narrowing` around a body, in
each other up to `MaxBodies`, and `NarrowAfter` is
`kavak_sema_apply_early_exit_narrowing`, up to `MaxBound` symbols in a scope.
`mayFail`, chosen at the start, tells whether allocations may fail.

### LexScan

The scanners, one character at a time where it matters. `stack` has a frame for
each live activation of `try_scan_string` and of `scan_interpolation_expression`,
which call each other down to `KAVAK_MAX_INTERP_DEPTH`; each action claims one
token, one piece of text of a literal, or enters or leaves an activation. When the
stack is empty the loop of `kavak_lex` is scanning. A failed push (`Step`)
unwinds everything, as the early returns do. Characters are those the scanners
tell apart: a few digits and letters, brackets, `q` for a quote, white space,
newline, a byte that is not UTF-8 and one that announces a second. `MaxInterpDepth` is the code's constant.

### Types

`nodes` is the graph of types; a pointer is an index, 0 is NULL. The constructors
add nodes and `Tie` writes a field of an earlier one, which closes cycles. The
recursive functions of the code are recursive operators on the graph with the same
guards: the list of pairs under way in the two equalities, the depth in all others
(`setting.limit`, 512 in the code), a supertype buffer of `SupersCap` with or
without memory for more, a substitution list of `SubstCap`. A frontend infers
with up to `setting.calls` strict or lenient calls on one list of bindings, then
substitutes with so much memory as `Rooms` leaves; or it joins. `is_subtype`,
`supertypes`, `numeric_rank`, `find_own_member` and `type_join` are the
language's, so they are parameters.

### Arena, Intern and InternSpec

Addresses and sizes are numbers below `2^Bits`, and `calloc` puts a chunk at any
of `Blocks` where it overlaps nothing, or nowhere. `AllocAligned` is the whole of
`kavak_arena_alloc_aligned` with each of its checks. `Intern` is the whole of
`kavak_intern`: growth first, then the probe, then the copy, each of which may
fail; a string beyond 4 GB, refused at once, is one that gets no memory. `InternSpec` is a map from strings to names that only grows, with
calls that fail at any time. The refinement mapping reads the map off the table:
the name of a string is *what a probe for it finds now*, so a string lost in a
rehash, or one found under another's name, breaks the implementation.

### Source and Session

`Source` has bytes as numbers: the decoder is arithmetic on them. The lazy line
table is a pass over the text with a counted room, and `Tables` what
`ensure_line_offsets` may leave; `Pos` is the binary search. Next to it stands
`TruePos`, from the texts of newlines alone.

`Session` has one action for each phase of `kavak_analyze_bytes`. `heap` is
what `malloc` has given and not got back, by owner and part, and `results` is what
each result holds; `calls` is the nesting of analyses, since a hook may analyze
another text. The type arena is a list of chunks whose addresses are used again
after a reset, so an address alone does not tell a live type from a dead one. A
host that keeps the header's contract is assumed: results are freed before their
session, and before a reset of the types they hold (`include/kavak.h:1446`).
`SourceInit`, `SourcePos` and `SourceFree` are a client with a source of its own,
the other value of `user`; the two never meet.

## Runs

| run | checked over | what it shows |
|---|---|---|
| `layout_indent` | all sources of four lines over ten line shapes, both dedent rules; full lines under a vector of eighteen tokens | types and array bounds; open columns increase; INDENT/DEDENT balance; the stack is what the source's columns say (`OpenColumns`); misalignment is reported exactly when it is one; no code symbol is lost or read twice; with one token per scan the reserved headroom is enough |
| `layout_lines` | three lines over nine line ends, five configurations; calls in which any push may fail | which virtual semicolon and NEWLINE each line owes; a call that returns 0 delivered a complete stream; the call returns |
| `layout_template_ceiling` | a template that emits eight tokens | violation: see Findings |
| `scan` | templates of a grammar in both interpolation forms, any short text of delimiters, all short strings of the pieces of numbers in four styles | a well-formed text gives the tokens of its derivation; any text is tiled by its tokens; numbers are the longest ones; the depth of interpolation is exact; the call returns |
| `scan_balance` | templates with a comment `(* *)` in `\(...)` | violation: see Findings |
| `pratt_grammar` | every chain of three operands of five forms and every plain chain of four, over four infix operators; all short streams of tokens; nested programs in which any node or diagnostic may fail | trees derive their tokens and bind as declared, spans nest, retries are identical, recovery stops outside brackets, depth is exact, no node gets two parents, the loop ends |
| `pratt_alloc_stall` | streams of up to three tokens | violation: see Findings |
| `sema` | trees of three statements over fifteen statement forms, with and without a declaration pass; two statements when allocations may fail | scopes match what is open, branch narrowings leave what is around them alone, names resolve lexically, nothing stays unresolved in silence, overload choice is the best and newest |
| `types` | all graphs of two to four nodes of eleven mixes of kinds, cycles included; two class hierarchies and a numeric language, with guards within reach and out of it, with and without memory | deep equality is sameness of unfolded trees; strict inference binds exactly what matches; substitution replaces the parameters of the whole type as deep as the guard goes, or gives nothing; assignability, conformance, member search, exhaustiveness and join are those of one order |
| `types_user` | two types of a language's own kind | violation: see Findings |
| `intern` | five strings with colliding hashes, a table that grows twice, or fails to; requests of all alignments and of sizes up to the end of a 64-byte address space | allocations are aligned, inside a chunk, disjoint; every probe ends; the pool implements `InternSpec` |
| `session` | two results, a language with a parser and one without, memory that ends anywhere; a client's source over all texts of three pieces of newlines under five policies | nothing is leaked or used when freed, a missing tree is explained, live types stay apart; every position is the one the newlines make |

**Why the bounds are enough.** Layout: two levels under `MaxIndentDepth = 3` (the
base is one entry), with a third level rejected; four lines are the fewest in
which two levels open, one line closes both, and another line is compared with what
is left. Tab stops of 2 let a tab equal two spaces, differ from one, and absorb
one. Ceiling: under eighteen tokens, of which seven are headroom, full lines
reach the ceiling with every number of open levels.
Scanners: `MaxInterpDepth = 2` is reached by a literal in an interpolation in a
literal and passed by one more; the grammar's literals have up to two
interpolations, the fewest with an interior fragment.
Parser: four levels of activation reach the guard in groups, prefix chains,
calls and right operands; the table has one infix operator of each
associativity, a prefix operator binding tighter and one binding weaker than the infix
operators around it, a postfix operator between them and a selector above; all are
below `MaxPrec`, which stands for `UINT16_MAX`. Sema:
depth three makes the guard bite in the trees of blocks in groups; a first
capacity of 1 makes every doubling up to the trees' symbols a failure point.
Types: three nodes are the fewest of which two unfold to one tree along different
cycles, or in which one binding is met again below another; buffers of two are
passed by three supertypes; a guard of 2 cuts comparisons of four nodes short. A substitution is compared with its
reference down to the guard, where the code stops too, so the check needs no distance
from it; with 20 nodes of memory one around a cycle reaches a guard of 10 with a new
node per level, and with one it runs out half way. Guards of 10, and of 12 with two
hierarchies, are above what the relations and a wrapped join need there.
Arena: six bits of address leave room for two chunks and a gap, and sizes and
alignments reach the last address. Intern: a table of two grows at the second
string and again at the fourth, and any growth may fail; five strings do not reach
`MaxCap`, whose refusal looks the same. Session: two results let an analysis run in
another and outlive it; chunks of two types and three types make the arena grow;
a vector of one diagnostic must grow for the error that follows another.
`MaxU32 = 12` with texts of up to twelve newlines reaches the refusal of too many
lines, and `MinLines = 2` makes the table double on the way. In each phase of an
analysis at most one error is reported, at the end of the text: which errors there
are is not `Session`'s question.

**Fairness.** `FairSpec` is `Spec /\ WF_vars(Next)` in the two lexer modules and the parser.
The code is one sequential call that runs until it returns, and `Next` always has
a step until then (deadlock is checked in these runs, with explicit
`Returned` and `Stop` steps for the states after the last one), so
weak fairness of `Next` says only that the caller's thread keeps running. No
fairness is assumed of individual choices. Deadlock is not checked in `types`
and `types_user` (a graph of full size is asked nothing more); elsewhere it is.

## Theorems

All for every value of the constants that satisfies the module's `ConstantsOK` (or
assumption of a like name): every set of sources or programs, every configuration,
operator table or tree, every limit, failing allocations included unless said
otherwise. The assumptions say that limits are numbers in the range the code gives
them, that the parameters are sets or functions of the right kind, and that the
trees handed to `Sema` are trees: a subtree lies within its parent's. Each safety
theorem comes from an inductive invariant, which is longer than the property:
below, what it adds and why.

**`LexLayoutProofs`**, the driver alone.

* `TypeCorrect == Spec => []TypeOK`. `TypeOK` is inductive. It contains
  `Len(indentStack) \in 1..MaxIndentDepth`, i.e. `indent_stack` is never overrun
  nor popped below its base.
* `ColumnsOrdered == Spec => []ColumnsIncrease`. With `TypeOK`: a push appends a
  column beyond the last one, pops take a prefix.
* `BlocksBalanced == Spec => []Balanced`. INDENT tokens exceed DEDENT tokens by
  the number of open levels. `TypeOK /\ Balanced` is inductive; the argument
  counts tokens of a kind in a concatenation (`NumberConcat`, `CountAfterPush`),
  since one step may push several DEDENTs, and shows that line ends and scans push
  neither kind (`DuePlain`, `PlainConcat`).
* `StreamAlwaysComplete == Spec => []StreamComplete`. A call that returns 0 ended
  its stream with the only EOF and with every block closed. `EofLast` adds that
  there is no EOF before the end and, without the offside rule, no level.
* `RoomAtCeiling == ASSUME no scan emits more than one token PROVE Spec =>
  []CeilingLeavesRoom`. Without allocation failures the call never fails, however
  long the source is. `CeilingLeavesRoom` says nothing of a state before it fails;
  `RoomLeft` gives, for each phase, the room that must be left for a DEDENT per
  open level, a semicolon, a NEWLINE, EOF and what the iteration may still push.
  The hypothesis is needed: `layout_template_ceiling`.

**`LexLayoutRefProofs`**, the driver against what `LexLayoutRef` computes from the
whole source. The difficulty is that the driver goes forward one symbol at a time
and the reference looks at lines from both ends. `Added` states what a step does
to the output, `Placed` where tokens stand, and each of the following carries its
part of the reference's answer *up to* `lex.pos`.

* `SourceAlwaysCovered == Spec => []SourceCovered`. `Covered` says which symbols
  before `lex.pos` have a token and that the order is theirs; it needs
  `Uncommented`: `lex.pos` is never inside a line comment, since a comment is
  skipped whole.
* `SemicolonsAlwaysEnd == Spec => []SemicolonsEndStatements` and
  `NewlinesAlwaysEnd == Spec => []NewlinesEndLines`. `LineInv`: `LineKnown` says
  what `line_has_significant` and `last_significant_index` stand for in terms of
  the tokens since the line's start; `EndersPlaced` that before `lex.pos` the
  virtual tokens of a kind are at the line ends that want one, one each;
  `SemisFirst` that a semicolon comes before its line's NEWLINE.
* `MisalignedAlwaysReported == Spec => []MisalignedReported`. `HeadsKnown` ties
  the pending column to the width of the units since the line's start,
  `DiagsBehind` puts every report behind `lex.pos`, `MisalignedStated` decides
  each one when its line is measured.
* `OpenColumnsRight == Spec => []OpenColumns`. On a source without misaligned or
  too deep lines, `indent_stack` is a function of the source: 0 and the columns of
  the lines so far that no later line has gone below. `StackKept` says so while
  the loop runs.

**`LexScanProofs`**, for every source and every set of rules. `CallsOK` leaves
out rules with empty spellings: those of openers, operators, suffixes and ends of
literals never match in the code, and a comment has an end.

* `ScannersTyped == Spec => []TypeOK`. The cursor stays in the source, tokens lie
  before it, and `lex.interp_depth` is the number of live interpolations, at most
  the limit.
* `ScannersTile == Spec => []TokensTile`. Tokens are in order and apart; where
  markers and comments are kept nothing but white space is left out, and each OPEN
  is closed, open or reported.

Both come from `ScanInv`. Its `Framed` says that strings and interpolations take
turns on the stack, a string outermost, and that each began before the cursor.
`Piece(tokens, 1, Progress, interpDepth)` says that the tokens so far are in order,
cover the source up to the start of the fragment being scanned (not up to the
cursor), and leave as many markers open as there are interpolations. Pieces that
meet join to a piece (`PieceConcat`), so each scanner owes one fact: what it pushes
is a piece from where it began to where it stopped (`ClaimKeeps`, `LeaveString`).
A failed push keeps a prefix and forgets the rest of `Piece`. That scanning digits
and nested comments stops inside the source is an induction over jumps of the
cursor (`JumpInduction`).

* `NumbersAlwaysMaximal == Spec => []NumbersMaximal`. A number token is the
  longest text its grammar allows at its place, with the longest suffix that may
  follow; a malformed one has a base prefix and no digit, or runs into an
  identifier under a strict style.

The grammar in `LexScanRef` is read off a finished text; the code scans from the
left. `DigitsAll` joins the two for digits by `JumpInduction`: what `scan_digits`
consumes are digits with underscores only between them, and no longer text is
(underscores followed by no digit are the case that matters). `FractionIs` and
`ExponentIs` say the same of what follows, `DecimalCore` and `PrefixedCore` of
a whole number (a longer one would need a point or an exponent inside digits),
`SuffixIs` of the suffix. `NumInv` then carries it over steps: a step pushes
tokens that are no numbers, or one made by `emit_number`.

**`PrattProofs`**.

* `GuardExact == Spec => []DepthCounts`. `expr_depth` is the number of live
  activations and never passes the limit.
* `ParserTyped == Spec => []TypeOK`. Cursor, frames, nodes and diagnostics keep
  their ranges. That the cursor stays on the tokens takes that no operator of the
  table is EOF.
* `OneParentAlways == Spec => []OneParent`. No node is in two child lists or twice
  in one, so threading `next_sibling` is safe, after rewinds and failed
  allocations too.

* `RecoveryOutside == Spec => []RecoveryStopsOutside`. Recovery stops at the first
  target no bracket opened on the way still encloses, from any place and for any
  targets. The code counts a depth that stops at 0, the property counts brackets
  (`Occurrences`): the depth is the most brackets that any suffix of the tokens
  passed leaves open (`Deepest`), by induction over those tokens, so it is 0
  exactly outside all of them. `RecoveryStopsOutside` is stated in `Pratt`.

* `SpansAlwaysNest == Spec => []SpansNest`. When an expression has ended, every node
  of the arena, of dropped trees too, lies over its children, which stand apart in
  source order; and if nothing was reported the root is exactly as long as the
  tokens it was made of. `SpansNest` is stated in `Pratt`.

One invariant serves the first four, `ParserInv`, which is `InputOK /\ ControlOK`.
None of the first three is inductive: `Leave` must find an activation to leave, so each
step's hold on the stack is part of it (`StepOK`); and that no node is adopted
twice takes an order. An inner activation allocates after the outer ones, so the
nodes that frames have still to place grow from the bottom of the stack to its top
(`StackGood`), and what was returned is above them all.

Spans need `SpansInv` besides. Where an activation began is in no variable, but the
frame below it tells (`Begin`): it waits behind its operator, its opening bracket or
the comma its `mark` is behind. All that an activation has made lies on the tokens
from there to the cursor (`FrameSpans`, `Produced`), and without a report (`Tight`)
covers them to both ends. A call has its arguments before its span reaches over
them, so all nodes but the calls still open nest (`AllNest`); and a node whose span
changes has no parent yet, by `ParserInv`, so no other node's children move. A
finished node reaches over its own span, the last token consumed and each child, and
no further (`FinishedSpan`, an induction over the children). An empty span, which
only the EOF has, bounds nothing, and `Inside` and `Fits` say what that leaves true.

* `TreesAlwaysDerive == Spec => []DerivesItsTokens`. An expression that ended without
  a report has a tree that derives exactly the tokens consumed.
* `BindsAlwaysAsDeclared == ASSUME NoClamp PROVE Spec => []BindsAsDeclared`. Its
  operators have the operands that precedence and associativity give them.
  `NoClamp` says that no operator of the greatest precedence asks for more on its
  right, where `next_min_prec` saturates. It is needed: see the end of Findings.

Both come from `TreesInv`, on top of the two invariants before. While nothing has been
reported the finished nodes of the statement form a set `D` closed under children
(`Whole`), each derived from the spans of its children and `Good`: at the place of its
operator all that ends its left operand had left the operator to others
(`Free`, by `Passes`), and all that begins its right operand was taken by a loop with a
high enough minimum (`Grips`). Both are said by *some* set closed under right (left)
operands, so they survive later allocations without a recursion over the tree. The
minimum of each activation is known from the frame below it (`WaitMin`, `FramesBind`);
what an activation returns is `Made` with that minimum, and the next token is one
its loop passes on. A call is open for many steps, so `CallSoFar` says which commas
and arguments it has. The step from sets to the property, which speaks of what can
be reached from the root, is an induction over the length of paths (`ReachedStays`).
`PrattProofs` takes about a quarter of an hour from nothing.

**`SemaProofs`**.

* `SemaTyped == Spec => []TypeOK`, `ScopesAlwaysMatch == Spec => []ScopesMatch`,
  `BranchesAlwaysUndone == Spec => []BranchesUndone`, `NeverSilent == Spec =>
  []NothingSilent`: from `SemaInv`, which adds that the tree is nested and the
  walk stays on it and only blocks and branches open scopes (`WalkOnTree`), that
  bodies run when no walk does (`OneThing`), that *every* scope below a running
  body is as it was (`BodiesUntouched`), and that identifiers already passed are
  typed, flagged or under a flagged node (`SilentSoFar`). `ScopesMatch` counts the
  frames that pushed, so cardinalities of finite sets are part of the argument.
* `OverloadAlwaysBest == Spec => []OverloadIsBest`. `BestOf` says what the loop
  over the symbols of all scopes has found after each of them.
* `AlwaysResolvesLexically == Spec => []ResolvesLexically`. The property speaks of
  the finished walk; `LexInv` says what holds along it. The activations are exactly
  the nodes around the next place (`Path`). While no hook on a visited node has
  failed, each open scope belongs to one open block, in order, and a search of it
  finds, for each name, the newest binding in force there, shadowed and undone ones
  excluded (`Lexical`, with `Acts`, `InForce`, `Finds`). And what the walk has
  passed has its type (`TypesRight`, `IdentsRight`). `NamedNewest` and
  `LookupNewest` are the inductions over a scope and over the stack of scopes.

**`InternProofs`**.

* `ArenaTyped == ArenaSpec => []ArenaTypeOK` and `ArenaSafe == ArenaSpec =>
  []AllocationsApart`: allocations are aligned, in bounds and disjoint, for every
  width of addresses. `ArenaInv` adds that chunks are apart, headers included, and
  that a chunk's allocations lie below what it has used.
* `PoolTyped == Spec => []TypeOK` and `PoolApart == Spec => []AllocationsApart`:
  the same for the arena as the pool uses it, and at most three quarters of the
  table are filled, so a probe ends.
* `PoolKeepsPromise == Spec => KeepsPromise`, the refinement of `InternSpec`, by
  steps. `PoolInv` says that a probe for a string in the table ends at its bucket
  and that no two buckets hold one text. That a rehash keeps it is an induction
  over the old table's buckets.

**`SessionProofs`**.

* `NothingIsLost == Spec => []ResultsSound`. `SessionInv` says, besides the
  conjuncts about memory and diagnostics, which slots of the type arena are handed
  out (`SlotsUsed`), that a result's types are among them and its session lives
  (`ResultsHosted`), and that sema runs over a tree (`TreesFirst`).
* `PositionsTold == Spec => []PositionsRight`. Every line table holds the ends of
  the newlines and no others, has room for its sentinel, and the binary search
  finds the line (`RightTable`; two inductions, over the pass that fills the table
  and over the search).

**Recursion and induction.** The library's induction theorems take a predicate as
a parameter and cannot be used here. `Induction` states induction over a *set* of
numbers instead (`LeastNumber`, `NumberInduction`, `BoundedInduction`), proved
from the well-foundedness of `<` alone, and that functions defined by recursion
exist and unfold: on a number, or by jumps that lower a measure (`JumpExists`,
`JumpInduction`), as scanning forward in a text does. The lemmas about folds and
recursive functions in all the modules above rest on it.

**Only model-checked.**

* Liveness (`Terminates`, `ReachesEnd`, `Returns`) and anything with `ENABLED`:
  outside the prover's reach.
* `DerivesTemplates` of `LexScanRef`: it compares with the derivations that an
  instance gives.
* `Types` uses RECURSIVE operators, under which the SMT backend is lost:
  `Types.TypeOK`, `EqualIsSameTree`, `InferenceSound`, `RelationsOrder`. The last
  three compare graph recursions with references over unfolded trees; their proofs
  would be inductions over both.
* `RetryIsIdentical` of `PrattRef` compares two runs, of which the state keeps only
  the outcome of the first, and trees by a recursive operator.

**What the proofs changed.** Four statements were wrong or open in ways that the
runs' instances did not show. `OpenColumns` is now stated for calls in which no
diagnostic can be lost: the report that a line is too deep may itself fail to be
stored, and then the stack is not the one the source makes although nothing says
so. `Truncated` is now read off the position, not off the diagnostic, for the same
reason. And `Sema` had not said that its trees are nested. `BindsAsDeclared` turned out
to need a condition on the operator table that every table of the runs met
(`NoClamp`); without it the code does not bind as declared (see Findings).

## Findings

* `layout_template_ceiling`. The comment at `src/lexer.c:1138` says the reserved
  headroom always lets the closing layout and EOF fit. It is tested once per
  iteration, and a single iteration may scan a template literal with any number of
  tokens: near the ceiling the pushes within the scan fail and `kavak_lex`
  returns -1. For scans of one token the comment is proved.
* `scan_balance`. `include/kavak.h:631` offers `\(` / `)` for balanced
  parenthesized interpolation. Brackets are counted at the start of each token,
  before it is known which scanner claims it and how much: where comments are
  `(* *)`, a comment inside `"\(a(*b*))"` counts as an opening parenthesis that
  nothing closes.
* `pratt_alloc_stall`. The comment at `src/parser.c:481` says the offending token
  is consumed so that an outer loop always makes progress, as `make_error_node`
  does; but that function returns before it advances when its node cannot be
  allocated, so a statement loop like the example's spins for as long as
  allocation fails, without a diagnostic.
* `types_user`. `include/kavak.h:1252` says strict unification rejects bad matches.
  The default case, meant for built-ins, accepts any two types of one
  language kind, also those that deep equality tells apart.

Seen while modelling, and left to the reader; no run is about them:

* `include/kavak.h:549` declares `prec` a binding power of any `uint16_t` value and
  `include/kavak.h:525` left association with it. `next_min_prec` (`src/parser.c:61`)
  saturates at `UINT16_MAX`: a left-associative operator of that precedence parses
  `a ^ b ^ c` as `a ^ (b ^ c)`, without a diagnostic. With `<<"^", MaxPrec, "left">>` in
  `Operators`, TLC finds `BindsAsDeclared` violated on that program; for every table
  without such an entry it is proved.
* `include/kavak.h:774` says a single bad byte does not desynchronise the rest of the
  file. After a backslash in a string, a byte that announces two to four bytes is
  skipped with as many as are left of them (`src/lexer.c:158`, tested for malformed
  sequences inside a literal): in `"\` 0xC3 `"` the closing quote is among them, and
  the literal goes on. `LexScan` does so too (`RecoveryLen`).
* `include/kavak.h:663` says the lexer tracks the column of the first character that
  is not white space. The measuring loop takes spaces and tabs only, while the
  lexer's own white space includes form feed and vertical tab: a line
  indented past one of those gets the column of the form feed. `OpenColumns` states
  columns as the code measures them.
* `kavak_ty_join` strips all layers of a `T??` and puts back one
  (`include/kavak.h:1221` says least upper bound); `JoinIsUpper` leaves such operands
  out. Strict unification of a parameter with itself returns OCCURS, and of two
  named types does not look at their declarations where deep equality does.
* A string already interned gets NULL when its lookup happens to grow the table and
  growth fails; `InternSpec` allows it.
* Assignability is not transitive where a walk over supertypes is cut short by the
  depth guard or by lack of memory; `RelationsAgree` asks for it where none is.
* `include/kavak.h:301` (error model) says analysis never fails silently. When the tree is missing and
  the diagnostic that says so cannot be stored, a result without a tree or an
  error comes back; `FailuresExplained` excludes it by `lost`.
* `kavak_session_reset_types` that returns -1 has freed the types all the same.

## Not modelled

* **Token scanners**: the detail of hexadecimal escapes, the identifier classes of
  Unicode (`unicode_xid.c` is generated data).
* **Parser**: the `parse_primary` hook, `parse_postfix` hooks other than the
  library's call hook, public accessors. A chain of operators that do not associate is
  covered as a parse with a diagnostic, of which only spans, progress and
  recovery are claimed.
* **Sema**: `kavak_sema_resolve_names` called from inside a walk, hooks that pop
  what they did not push, accessors. An early-exit narrowing that fails half way
  leaves what it had bound; the model does so too and no property forbids it.
* **Types**: `kavak_ty_to_string`, formatting.
* **Source**: `kavak_source_slice`, a clamp.
* **Diagnostics**: `kavak_diag_format`. **Dump**: output formatting.
* **Tests, micro-benchmarks, scripts, and the example** but for its statement loop.

## Plan

Modelled: `LexLayout`, `Pratt`, `Sema`, `LexScan`, `Types`, `Arena`, `Intern`,
`Source`, `Session`. Proved: all invariants of the layout driver, of the arena and
the pool, of sessions and sources, those of `Pratt` but `RetryIsIdentical`, types,
tiling and numbers of the scanners and those of `Sema`. What remains, in this order:

1. Type correctness of `Types`, with recursive functions in place of its RECURSIVE
   operators.
2. A block-structured token stream as an abstract specification that `LexLayout`
   implements (open columns and emitted layout only).
