-------------------------------- MODULE SemaRef -------------------------------
(***************************************************************************)
(* What the walks of Sema must find, read off the tree alone: which node   *)
(* binds the name at a place, by the blocks around both and their order.   *)
(***************************************************************************)
EXTENDS Sema

Nodes       == 1..Len(tree)
IsKind(n, kind) == tree[n].kind = kind
Inside(n, a) == a < n /\ n <= Last(a)
Around(n)   == {a \in Nodes : Inside(n, a)}
\* The walks visit a node with fewer than MaxDepth nodes around it.
Visited     == {n \in Nodes : Cardinality(Around(n)) < MaxDepth}

Blocks(n) == {a \in Around(n) : tree[a].kind \in {"block", "branch"}}
\* The block whose scope a node binds in, 0 for the root scope.
Home(b) ==
  IF IsKind(b, "branch") THEN b
  ELSE IF IsKind(b, "fn") \/ Blocks(b) = {} THEN 0
  ELSE CHOOSE a \in Blocks(b) : \A c \in Blocks(b) : c <= a

\* The nodes whose binding is in force when the walk reaches n.
Bindings(n) ==
  {b \in Visited :
     /\ tree[b].name = tree[n].name
     /\ Home(b) \in Blocks(n) \cup {0}
     /\ \/ IsKind(b, "fn") /\ declares
        \/ IsKind(b, "let") /\ b < n
        \/ IsKind(b, "guard") /\ Last(b) < n
        \/ IsKind(b, "branch")}

\* Of two bindings in one scope: functions come before the walk, a guard's
\* narrowing after its children.
Bound(b) == IF IsKind(b, "fn") THEN 0 ELSE IF IsKind(b, "guard") THEN Last(b) ELSE b
Newer(b, c) ==
  \/ Bound(b) > Bound(c)
  \/ Bound(b) = Bound(c) /\ IF IsKind(b, "fn") THEN b > c
                            ELSE IsKind(b, "guard") /\ (IsKind(c, "guard") => b < c)
Shadows(b, c) == Home(b) > Home(c) \/ (Home(b) = Home(c) /\ Newer(b, c))

TypeAt(n) ==
  IF Bindings(n) = {} THEN Unknown
  ELSE tree[CHOOSE b \in Bindings(n) : \A c \in Bindings(n) \ {b} : Shadows(b, c)].type

Resolved == phase \in {"check", "done"}
Idents   == {n \in Nodes : IsKind(n, "ident")}
-----------------------------------------------------------------------------
(* Names resolve lexically: when no hook failed, every identifier visited  *)
(* has the type of the innermost, newest binding in force at its place,    *)
(* functions bound from anywhere, or is flagged when there is none, and a  *)
(* group has the type its first child ended with (src/src/sema.c:330       *)
(* walk_resolve over the scopes that declarations, blocks, branches and    *)
(* guards have opened, shadowed and closed).                               *)
ResolvesLexically ==
  Resolved /\ flagged \cap Visited \subseteq Idents =>
    /\ \A n \in Idents \cap Visited :
         types[n] = TypeAt(n) /\ (n \in flagged <=> TypeAt(n) = Unknown)
    /\ \A n \in Visited :
         IsKind(n, "group") /\ tree[n].size > 1 => types[n] = types[n + 1]

(* Nothing is left unresolved in silence: an identifier without a type is  *)
(* flagged, or lies under a node that is, also when diagnostics are lost   *)
(* (src/src/sema.c:326, 333).                                              *)
NothingSilent ==
  Resolved => \A n \in Idents :
    types[n] = Unknown => n \in flagged \/ Around(n) \cap flagged # {}

(* "On ties the first candidate in lookup order (newest) wins", "no        *)
(* candidate scores >= 0" gives NULL (src/include/kavak.h:1382): the       *)
(* choice is the best-scoring, newest binding, shadowed ones included.     *)
OverloadIsBest ==
  phase = "check" =>
    \A name \in Names, score \in [Types -> -1..1] :
      LET all    == LookupAll(scopes, name)
          choice == PickOverload(all, score)
          Score(i) == score[all[i].type]
          fits   == {i \in 1..Len(all) : Score(i) >= 0}
      IN  IF fits = {} THEN choice = 0
          ELSE /\ choice \in fits
               /\ \A i \in fits : \/ Score(i) < Score(choice)
                                  \/ Score(i) = Score(choice) /\ choice <= i
=============================================================================
