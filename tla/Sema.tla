--------------------------------- MODULE Sema ---------------------------------
(***************************************************************************)
(* The sema toolkit of src/src/sema.c: the scope stack, the declaration    *)
(* and resolution walks of kavak_sema_resolve_names, and the narrowings a  *)
(* descriptor applies during them and after them.                          *)
(*                                                                         *)
(* The kernel walks; the descriptor decides what a node means.  The nodes  *)
(* here are the ones whose hooks touch the scopes: a function is bound by  *)
(* declare_node and a variable by resolve_node, a block pushes a scope in  *)
(* resolve_node and, if that succeeded, pops it in resolve_node_post, a    *)
(* branch does so and narrows one name, a guard applies an early-exit      *)
(* narrowing in resolve_node_post, a group has the type of its first child.*)
(*                                                                         *)
(* A tree is its nodes in preorder, each with the size of its subtree.     *)
(* The C recursion is explicit: `walk` holds the nodes being visited, the  *)
(* root first, and `next` the node that comes next.                        *)
(***************************************************************************)
EXTENDS Integers, Sequences, FiniteSets

CONSTANTS
  Trees,         \* the syntax trees to resolve
  FailingTrees,  \* those to resolve with allocations that may fail
  CheckedTrees,  \* those whose post_sema hook calls the narrowing helpers
  Names, Types,
  Narrowings,    \* what narrow_for_branch may deliver: lists of symbols
  MaxDepth,      \* KAVAK_SEMA_MAX_RESOLVE_DEPTH, 1024
  FirstCap,      \* the capacity of a scope's first allocation, 8
  MaxBodies,     \* bound of the model: branch narrowings inside each other
  MaxBound       \* bound of the model: symbols post_sema leaves in one scope

Kinds    == {"ident", "let", "fn", "block", "branch", "guard", "group"}
Messages == {"undefined symbol", "AST nesting too deep"}
Unknown  == "none"    \* a NULL type

Node   == [kind : Kinds, name : Names, type : Types, size : Nat \ {0}]
Symbol == [name : Names, type : Types]

ASSUME ConstantsOK ==
  /\ \A t \in Trees \cup FailingTrees :
       /\ t \in Seq(Node) /\ t # <<>> /\ t[1].size = Len(t)
       /\ \A n \in 1..Len(t) : \A m \in n..n + t[n].size - 1 : m + t[m].size <= n + t[n].size
  /\ CheckedTrees \subseteq Trees \cup FailingTrees
  /\ Unknown \notin Types
  /\ Narrowings \subseteq Seq([name : Names, type : Types \cup {Unknown}])
  /\ MaxDepth \in Nat \ {0}
  /\ FirstCap \in Nat \ {0}
  /\ MaxBodies \in Nat
  /\ MaxBound \in Nat

VARIABLES
  tree,      \* the nodes under sema->root
  declares,  \* whether the language has a declare_node hook
  mayFail,   \* whether an allocation may fail
  phase,     \* the walk under way, or what comes after
  next,      \* the next node in preorder
  walk,      \* the activations of walk_declare or walk_resolve, root first
  depth,     \* sema->resolve_depth
  scopes,    \* the scope stack, sema->scope last: symbols, newest last
  types,     \* node->type
  flagged,   \* the nodes with KAVAK_AST_FLAG_ERROR
  diags,     \* sema->diags: messages with their node
  bodies     \* the calls of kavak_sema_with_narrowings whose body runs

vars == <<tree, declares, mayFail, phase, next, walk, depth, scopes, types,
          flagged, diags, bodies>>

Phases == {"declare", "resolve", "check", "done"}
Frame  == [node : Nat, pushed : BOOLEAN]   \* pushed: the hook's scope is open
Body   == [saved : Seq(Seq(Symbol)), list : Narrowings]

TypeOK ==
  /\ tree \in Seq(Node)
  /\ declares \in BOOLEAN
  /\ mayFail \in BOOLEAN
  /\ phase \in Phases
  /\ next \in 1..Len(tree) + 1
  /\ walk \in Seq(Frame)
  /\ depth \in 0..MaxDepth
  /\ scopes \in Seq(Seq(Symbol)) /\ scopes # <<>>
  /\ types \in [1..Len(tree) -> Types \cup {Unknown}]
  /\ flagged \subseteq 1..Len(tree)
  /\ diags \subseteq Messages \X (1..Len(tree))
  /\ bodies \in Seq(Body)
-----------------------------------------------------------------------------
(* The scope stack.                                                        *)

\* kavak_sema_push_scope: the stacks it may leave; unchanged, it has failed.
PushScope(sc) == {Append(sc, <<>>)} \cup (IF mayFail THEN {sc} ELSE {})

\* kavak_sema_pop_scope
PopScope(sc) == SubSeq(sc, 1, Len(sc) - 1)

\* The symbol array is full and the next bind reallocates it.
Full(count) == count = 0 \/ \E k \in 0..count : count = FirstCap * 2^k

\* Wrong: a symbol is bound in the outermost scope.
M_BindAll(sc, symbols) == [sc EXCEPT ![1] = @ \o symbols]
\* These symbols bound in the current scope.
BindAll(sc, symbols) == [sc EXCEPT ![Len(sc)] = @ \o symbols]

\* kavak_sema_bind: the stacks it may leave; unchanged, it has failed.
Bind(sc, symbol) ==
  {BindAll(sc, <<symbol>>)} \cup
  (IF mayFail /\ Full(Len(sc[Len(sc)])) THEN {sc} ELSE {})

\* The symbols of this name in one scope, the newest first.
Named(symbols, name) ==
  LET found[i \in 0..Len(symbols)] ==
        IF i = 0 THEN <<>>
        ELSE IF symbols[i].name = name THEN <<symbols[i]>> \o found[i - 1] ELSE found[i - 1]
  IN  found[Len(symbols)]

\* kavak_sema_lookup_all with a visitor that never stops: the newest scope first.
LookupAll(sc, name) ==
  LET all[n \in 0..Len(sc)] ==
        IF n = 0 THEN <<>> ELSE Named(sc[n], name) \o all[n - 1]
  IN  all[Len(sc)]

\* Wrong: the oldest binding in the chain.
M_LookupType(sc, name) ==
  LET found == LookupAll(sc, name)
  IN  IF found = <<>> THEN Unknown ELSE found[Len(found)].type
\* kavak_sema_lookup: the type of the newest binding.
LookupType(sc, name) ==
  LET found == LookupAll(sc, name)
  IN  IF found = <<>> THEN Unknown ELSE found[1].type

\* Wrong: a tie goes to the later candidate.
M_Better(s, best) == s >= best
\* pick_overload_visit on a candidate of this score
Better(s, best) == s > best
\* kavak_sema_pick_overload: the place of its choice among the candidates, or 0.
PickOverload(candidates, score) ==
  LET Score(i) == score[candidates[i].type]
      best[n \in 0..Len(candidates)] ==
        IF n = 0 THEN 0
        ELSE IF /\ Score(n) >= 0
                /\ best[n - 1] = 0 \/ Better(Score(n), Score(best[n - 1]))
        THEN n ELSE best[n - 1]
  IN  best[Len(candidates)]

\* kavak_sema_apply_narrowings: the stacks it may leave and whether it got
\* through the list; what it bound before it failed stays.
ApplyNarrowings(sc, list) ==
  LET count   == Len(sc[Len(sc)])
      Typed(n) == \A i \in 1..n : list[i].type # Unknown
      Stops(n) == \/ n = Len(list)
                  \/ ~Typed(n + 1)
                  \/ mayFail /\ Full(count + n)
  IN  {[scopes |-> BindAll(sc, SubSeq(list, 1, n)), all |-> n = Len(list)] :
         n \in {m \in 0..Len(list) : Typed(m) /\ Stops(m)}}
-----------------------------------------------------------------------------
(* The walks.                                                              *)

Last(n) == n + tree[n].size - 1     \* the last node of the subtree of n
Top     == walk[Len(walk)]
Walking == phase \in {"declare", "resolve"}
AtNode  == Walking /\ next <= (IF walk = <<>> THEN Len(tree) ELSE Last(Top.node))
AtClose == Walking /\ walk # <<>> /\ next > Last(Top.node)

input == <<tree, declares, mayFail>>

Reported(msg, n) == {diags \cup {<<msg, n>>}} \cup (IF mayFail THEN {diags} ELSE {})

\* A hook that returned non-zero has its node flagged.
Flag(n, failed) == flagged' = IF failed THEN flagged \cup {n} ELSE flagged

\* Wrong: the guard lets one more activation in.
M_TooDeepHere == depth > MaxDepth
TooDeepHere == depth >= MaxDepth

\* The subtree is skipped, its hooks are not called.
TooDeep ==
  /\ AtNode
  /\ TooDeepHere
  /\ Flag(next, TRUE)
  /\ diags' \in Reported("AST nesting too deep", next)
  /\ next' = Last(next) + 1
  /\ UNCHANGED <<input, phase, walk, depth, scopes, types, bodies>>

\* The activation for the next node; pushed: its hook opened a scope.
Open(pushed) ==
  /\ AtNode
  /\ ~TooDeepHere
  /\ walk' = Append(walk, [node |-> next, pushed |-> pushed])
  /\ depth' = depth + 1
  /\ next' = next + 1
  /\ UNCHANGED <<input, phase, bodies>>

BindSymbol(n) ==
  \E sc \in Bind(scopes, [name |-> tree[n].name, type |-> tree[n].type]) :
    scopes' = sc /\ Flag(n, sc = scopes)

Declare ==
  /\ phase = "declare"
  /\ Open(FALSE)
  /\ IF tree[next].kind = "fn" THEN BindSymbol(next) ELSE UNCHANGED <<scopes, flagged>>
  /\ UNCHANGED <<types, diags>>

ResolvePlain ==
  /\ phase = "resolve"
  /\ Open(FALSE)
  /\ tree[next].kind \in {"fn", "guard", "group"}
  /\ UNCHANGED <<scopes, types, flagged, diags>>

ResolveLet ==
  /\ phase = "resolve"
  /\ Open(FALSE)
  /\ tree[next].kind = "let"
  /\ BindSymbol(next)
  /\ UNCHANGED <<types, diags>>

ResolveBlock ==
  /\ phase = "resolve"
  /\ AtNode
  /\ tree[next].kind = "block"
  /\ \E sc \in PushScope(scopes) :
       /\ Open(sc # scopes)
       /\ scopes' = sc
       /\ Flag(next, sc = scopes)
  /\ UNCHANGED <<types, diags>>

\* A branch pushes a scope and calls kavak_sema_bind_narrowing.
ResolveBranch ==
  /\ phase = "resolve"
  /\ AtNode
  /\ tree[next].kind = "branch"
  /\ \E sc \in PushScope(scopes) :
       /\ Open(sc # scopes)
       /\ \E after \in IF sc = scopes THEN {sc}
                       ELSE Bind(sc, [name |-> tree[next].name, type |-> tree[next].type]) :
            /\ scopes' = after
            /\ Flag(next, after = sc)
  /\ UNCHANGED <<types, diags>>

\* Wrong: an unknown name is passed over.
M_ResolveIdent ==
  /\ phase = "resolve"
  /\ Open(FALSE)
  /\ tree[next].kind = "ident"
  /\ types' = [types EXCEPT ![next] = LookupType(scopes, tree[next].name)]
  /\ UNCHANGED <<scopes, flagged, diags>>
\* resolve_ident
ResolveIdent ==
  /\ phase = "resolve"
  /\ Open(FALSE)
  /\ tree[next].kind = "ident"
  /\ LET type == LookupType(scopes, tree[next].name)
     IN  IF type # Unknown
         THEN types' = [types EXCEPT ![next] = type] /\ UNCHANGED <<flagged, diags>>
         ELSE /\ Flag(next, TRUE)
              /\ diags' \in Reported("undefined symbol", next)
              /\ UNCHANGED types
  /\ UNCHANGED scopes

\* The activation of the top node ends.
Close ==
  /\ AtClose
  /\ walk' = SubSeq(walk, 1, Len(walk) - 1)
  /\ depth' = depth - 1
  /\ UNCHANGED <<input, phase, next, diags, bodies>>

CloseDeclare == phase = "declare" /\ Close /\ UNCHANGED <<scopes, types, flagged>>

ClosePlain ==
  /\ phase = "resolve"
  /\ Close
  /\ tree[Top.node].kind \in {"ident", "let", "fn"}
  /\ UNCHANGED <<scopes, types, flagged>>

\* Wrong: the pop is unconditional.
M_AfterBlock == PopScope(scopes)
\* What the hook of the block that ends leaves of the scope stack.
AfterBlock == IF Top.pushed THEN PopScope(scopes) ELSE scopes

CloseBlock ==
  /\ phase = "resolve"
  /\ Close
  /\ tree[Top.node].kind \in {"block", "branch"}
  /\ scopes' = AfterBlock
  /\ UNCHANGED <<types, flagged>>

\* kavak_sema_apply_early_exit_narrowing with a terminator of type Never; the
\* list narrow_for_branch fills is allocated first.
EarlyExit(list) ==
  ApplyNarrowings(scopes, list)
    \cup (IF mayFail /\ list # <<>> THEN {[scopes |-> scopes, all |-> FALSE]} ELSE {})

CloseGuard ==
  /\ phase = "resolve"
  /\ Close
  /\ tree[Top.node].kind = "guard"
  /\ \E r \in EarlyExit(<<[name |-> tree[Top.node].name, type |-> tree[Top.node].type]>>) :
       /\ scopes' = r.scopes
       /\ Flag(Top.node, ~r.all)
  /\ UNCHANGED types

\* resolve_node_post synthesizes the type of a group from its first child.
CloseGroup ==
  /\ phase = "resolve"
  /\ Close
  /\ LET n == Top.node
     IN  /\ tree[n].kind = "group"
         /\ types' = IF tree[n].size > 1 /\ types[n + 1] # Unknown
                     THEN [types EXCEPT ![n] = types[n + 1]] ELSE types
  /\ UNCHANGED <<scopes, flagged>>

\* kavak_sema_resolve_names starts the second walk, then returns.
EndWalk ==
  /\ Walking
  /\ walk = <<>>
  /\ next > Len(tree)
  /\ depth' = 0
  /\ IF phase = "declare" THEN phase' = "resolve" /\ next' = 1
     ELSE phase' = (IF tree \in CheckedTrees THEN "check" ELSE "done") /\ UNCHANGED next
  /\ UNCHANGED <<input, walk, scopes, types, flagged, diags, bodies>>
-----------------------------------------------------------------------------
(* The narrowing helpers as post_sema may call them, on the root scope or  *)
(* inside each other's bodies.                                             *)

walkDone == <<input, phase, next, walk, depth, types, flagged, diags>>

\* Wrong: a narrowing that fails leaves its scope open.
M_AfterFailure(sc) == sc
AfterFailure(sc) == PopScope(sc)

\* kavak_sema_with_branch_narrowing: the body runs if every step before it
\* succeeds; otherwise nothing remains.
BeginBody ==
  /\ phase = "check"
  /\ Len(bodies) < MaxBodies
  /\ \E list \in Narrowings, sc \in PushScope(scopes) \ {scopes} :
       \E r \in ApplyNarrowings(sc, list) :
         IF r.all
         THEN scopes' = r.scopes /\ bodies' = Append(bodies, [saved |-> scopes, list |-> list])
         ELSE scopes' = AfterFailure(r.scopes) /\ UNCHANGED bodies
  /\ UNCHANGED walkDone

\* The body returns, with any result.
EndBody ==
  /\ phase = "check"
  /\ bodies # <<>>
  /\ scopes' = PopScope(scopes)
  /\ bodies' = SubSeq(bodies, 1, Len(bodies) - 1)
  /\ UNCHANGED walkDone

NarrowAfter ==
  /\ phase = "check"
  /\ \E list \in Narrowings :
       /\ Len(scopes[Len(scopes)]) + Len(list) <= MaxBound
       /\ \E r \in EarlyExit(list) : scopes' = r.scopes
  /\ UNCHANGED <<walkDone, bodies>>

Return ==
  /\ phase = "check"
  /\ bodies = <<>>
  /\ phase' = "done"
  /\ UNCHANGED <<input, next, walk, depth, scopes, types, flagged, diags, bodies>>

Done == phase = "done" /\ UNCHANGED vars

Init ==
  /\ \/ tree \in Trees        /\ mayFail = FALSE
     \/ tree \in FailingTrees /\ mayFail = TRUE
  /\ declares \in BOOLEAN
  /\ phase = IF declares THEN "declare" ELSE "resolve"
  /\ next = 1
  /\ walk = <<>>
  /\ depth = 0
  /\ scopes = << <<>> >>
  /\ types = [n \in 1..Len(tree) |-> Unknown]
  /\ flagged = {}
  /\ diags = {}
  /\ bodies = <<>>

Next ==
  \/ TooDeep \/ Declare \/ ResolvePlain \/ ResolveLet \/ ResolveBlock \/ ResolveBranch
  \/ ResolveIdent \/ CloseDeclare \/ ClosePlain \/ CloseBlock \/ CloseGuard \/ CloseGroup
  \/ EndWalk \/ BeginBody \/ EndBody \/ NarrowAfter \/ Return \/ Done

Spec == Init /\ [][Next]_vars
-----------------------------------------------------------------------------
(* The scope stack is exactly the scopes opened by blocks being visited    *)
(* and bodies being run, over the root scope, and resolve_depth counts the *)
(* activations (src/src/sema.c:337, 353): failed pushes, skipped subtrees  *)
(* and failed narrowings leave nothing behind.                             *)
ScopesMatch ==
  /\ Len(scopes) = 1 + Cardinality({i \in 1..Len(walk) : walk[i].pushed}) + Len(bodies)
  /\ depth = Len(walk)

(* A branch narrowing never touches the scopes around it, so that leaving  *)
(* its scope undoes it, whatever its body did or bound                     *)
(* (src/include/kavak.h:1302 "normal lookup returns the narrowed type      *)
(* until the scope is popped").                                            *)
BranchesUndone ==
  \A i \in 1..Len(bodies) : SubSeq(scopes, 1, Len(bodies[i].saved)) = bodies[i].saved
=============================================================================
