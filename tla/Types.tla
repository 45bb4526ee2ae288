-------------------------------- MODULE Types --------------------------------
(***************************************************************************)
(* The type toolkit of src/src/type.c: the graph of types a frontend       *)
(* builds, and the kernel's operations on it.                              *)
(*                                                                         *)
(* A KavakTypeInfo is a node, its pointer the node's index, 0 is NULL.     *)
(* Nodes are never freed or moved, so the graph only grows.  The frontend  *)
(* calls the constructors, ties cycles by writing a field, infers with a   *)
(* sequence of unify calls on one list of bindings, and instantiates with  *)
(* kavak_ty_substitute; or it joins two types.  The operators that read    *)
(* the graph have it as their first argument.                              *)
(*                                                                         *)
(* A node has the fields all its kinds need: a nullable's inner type is    *)
(* its only argument, positional fields and parameters are arguments too,  *)
(* `tag` stands for a name, for a parameter's index and for flags.         *)
(***************************************************************************)
EXTENDS Integers, Sequences, SequencesExt, FiniteSets

CONSTANTS
  Settings,     \* what is built and asked, under which limits and language
  SupersCap,    \* KAVAK_TY_SUPERS_CAP, 16
  VariantsCap,  \* KAVAK_TY_VARIANTS_CAP, 64
  SubstCap,     \* the capacity of the caller's list of bindings
  Rooms         \* how many more nodes the arena's memory may allow

Builtins == <<"never", "any", "int", "long">>

Blank == [kind |-> "int", tag |-> "-", decl |-> "-", receiver |-> 0, args |-> <<>>,
          ret |-> 0, fields |-> <<>>, underlying |-> 0]
Of(kind) == [Blank EXCEPT !.kind = kind]

Outcomes == {"OK", "MISMATCH", "CONFLICT", "OCCURS", "CAP_EXCEEDED"}
Kinds == {"nullable", "function", "named", "param", "record", "user"}

ASSUME ConstantsOK ==
  /\ \A s \in Settings :
       /\ s.kinds \subseteq Kinds \cup {"cycle", "unify", "join"}
       /\ s.limit \in Nat \ {0} /\ {s.size, s.arity, s.calls} \subseteq Nat
       /\ \A i \in DOMAIN s.lang.classes : s.lang.classes[i].kind = "named"
  /\ {SupersCap, VariantsCap, SubstCap} \subseteq Nat
  /\ Rooms \subseteq Nat

VARIABLES
  setting,  \* the setting; its limit is KAVAK_TYPE_RECURSION_LIMIT, 512
  nodes,    \* the arena's nodes, the builtins first
  mode,     \* "build", or what the frontend is doing with the graph
  pairs,    \* the <<pattern, concrete>> of the unify calls
  subst,    \* the caller's bindings, [param, replacement]
  outcome,  \* what the last strict call returned
  answer    \* the last call that returns a type: its operands and the type

vars == <<setting, nodes, mode, pairs, subst, outcome, answer>>

Ref     == 0..Len(nodes)
NoCall  == [op |-> "none", of |-> <<>>, type |-> 0]

TypeOK ==
  /\ setting \in Settings
  /\ \A i \in DOMAIN nodes :
       /\ nodes[i].kind \in Kinds \cup {Builtins[j] : j \in DOMAIN Builtins}
       /\ {nodes[i].receiver, nodes[i].ret, nodes[i].underlying} \subseteq Ref
       /\ nodes[i].args \in Seq(Ref \ {0})
       /\ \A f \in DOMAIN nodes[i].fields : nodes[i].fields[f].type \in Ref \ {0}
       /\ nodes[i].kind = "nullable" => Len(nodes[i].args) = 1
  /\ mode \in {"build", "strict", "lenient", "answered"}
  /\ pairs \in Seq((Ref \ {0}) \X (Ref \ {0})) /\ Len(pairs) <= setting.calls
  /\ Len(subst) <= SubstCap
  /\ \A i \in DOMAIN subst :
       /\ nodes[subst[i].param].kind = "param" /\ subst[i].replacement \in Ref \ {0}
       /\ \A j \in DOMAIN subst : subst[i].param = subst[j].param => i = j
  /\ outcome \in Outcomes
  /\ answer.type \in Ref
-----------------------------------------------------------------------------
(* Equality.                                                               *)

IsBuiltin(n) == \E i \in DOMAIN Builtins : n.kind = Builtins[i]
Inner(n)     == n.args[1]
Names(n)     == [i \in DOMAIN n.fields |-> n.fields[i].name]
FieldTypes(n) == [i \in DOMAIN n.fields |-> n.fields[i].type]
Parts(n)     == <<n.receiver, n.ret>> \o n.args \o FieldTypes(n)

SameArity(m, n) ==
  /\ m.kind = n.kind
  /\ m.tag = n.tag
  /\ (m.receiver = 0) = (n.receiver = 0)
  /\ Len(m.args) = Len(n.args)
  /\ Len(m.fields) = Len(n.fields)

\* User kinds have no head the kernel could compare.
SameShape(m, n) == m.kind # "user" /\ SameArity(m, n) /\ Names(m) = Names(n)
SameHead(m, n)  == SameShape(m, n) /\ m.decl = n.decl

\* `path` is the stack of comparisons under way; a pair on it counts as equal.

\* Wrong: a pair under way is compared again, until the guard says no.
M_Assumed(path, a, b) == FALSE
Assumed(path, a, b) == <<a, b>> \in {path[i] : i \in DOMAIN path}

RECURSIVE Nominal(_, _, _, _), Deep(_, _, _, _)
Nominal(g, a, b, path) ==
  \/ a = b
  \/ /\ a # 0 /\ b # 0 /\ g[a].kind = g[b].kind
     /\ \/ IsBuiltin(g[a]) \/ Assumed(path, a, b)
        \/ /\ Len(path) < setting.limit
           /\ SameShape(g[a], g[b])
           /\ g[a].kind = "nullable"
                => Nominal(g, Inner(g[a]), Inner(g[b]), Append(path, <<a, b>>))

Deep(g, a, b, path) ==
  \/ a = b
  \/ /\ a # 0 /\ b # 0 /\ g[a].kind = g[b].kind
     /\ \/ IsBuiltin(g[a]) \/ Assumed(path, a, b)
        \/ /\ Len(path) < setting.limit
           /\ SameHead(g[a], g[b])
           /\ \A i \in DOMAIN Parts(g[a]) :
                Deep(g, Parts(g[a])[i], Parts(g[b])[i], Append(path, <<a, b>>))

EqualNominal(g, a, b) == Nominal(g, a, b, <<>>)
EqualDeep(g, a, b)    == Deep(g, a, b, <<>>)
-----------------------------------------------------------------------------
(* Substitution.  A result has the graph with the nodes it allocated; it   *)
(* fails as a whole when one of them cannot be had, and those allocated    *)
(* before stay in the arena.                                               *)

\* Wrong: a parameter is bound again.
M_Bound(s, t) == FALSE
Bound(s, t)  == \E i \in DOMAIN s : s[i].param = t
Lookup(s, t) == s[CHOOSE i \in DOMAIN s : s[i].param = t].replacement

SubstParts(n) == Parts(n) \o <<n.underlying>>
\* Nothing below was replaced.
Kept(types, n) == types = SubstParts(n)
\* Wrong: the new name is left without the type underlying it.
M_WithParts(n, ps) ==
  [n EXCEPT !.receiver = ps[1], !.ret = ps[2],
            !.args = SubSeq(ps, 3, 2 + Len(n.args)),
            !.fields = [i \in DOMAIN n.fields |->
                          [n.fields[i] EXCEPT !.type = ps[2 + Len(n.args) + i]]],
            !.underlying = 0]
WithParts(n, ps) ==
  [n EXCEPT !.receiver = ps[1], !.ret = ps[2],
            !.args = SubSeq(ps, 3, 2 + Len(n.args)),
            !.fields = [i \in DOMAIN n.fields |->
                          [n.fields[i] EXCEPT !.type = ps[2 + Len(n.args) + i]]],
            !.underlying = ps[Len(ps)]]

RECURSIVE Subst(_, _, _, _, _)
Subst(g, t, s, depth, room) ==
  IF t = 0 THEN [g |-> g, ok |-> TRUE, type |-> 0]
  ELSE IF g[t].kind = "param" /\ Bound(s, t)
       THEN [g |-> g, ok |-> TRUE, type |-> Lookup(s, t)]
  ELSE IF s = <<>> \/ IsBuiltin(g[t]) \/ g[t].kind \in {"param", "user"}
            \/ depth >= setting.limit
       THEN [g |-> g, ok |-> TRUE, type |-> t]
  ELSE LET step(acc, part) ==
             IF ~acc.ok THEN acc
             ELSE LET r == Subst(acc.g, part, s, depth + 1, room)
                  IN  [g |-> r.g, ok |-> r.ok, types |-> Append(acc.types, r.type)]
           all == FoldLeft(step, [g |-> g, ok |-> TRUE, types |-> <<>>], SubstParts(g[t]))
       IN  CASE ~all.ok -> [g |-> all.g, ok |-> FALSE, type |-> 0]
             [] all.ok /\ Kept(all.types, g[t]) -> [g |-> g, ok |-> TRUE, type |-> t]
             [] all.ok /\ ~Kept(all.types, g[t]) ->
                  IF Len(all.g) >= room THEN [g |-> all.g, ok |-> FALSE, type |-> 0]
                  ELSE [g |-> Append(all.g, WithParts(g[t], all.types)), ok |-> TRUE,
                        type |-> Len(all.g) + 1]
-----------------------------------------------------------------------------
(* Unification.  The parts are matched in the order of the code: which of  *)
(* two bindings of a parameter comes first depends on it.                  *)

MatchedParts(m, n) ==
  (IF m.receiver # 0 THEN <<<<m.receiver, n.receiver>>>> ELSE <<>>)
    \o Zip(m.args, n.args) \o Zip(FieldTypes(m), FieldTypes(n))
    \o (IF m.ret # 0 THEN <<<<m.ret, n.ret>>>> ELSE <<>>)

\* kavak_ty_unify: what does not match is skipped.
RECURSIVE Unify(_, _, _, _, _)
Unify(g, p, c, s, depth) ==
  IF p = 0 \/ c = 0 \/ depth >= setting.limit THEN s
  ELSE IF g[p].kind = "param"
       THEN IF Bound(s, p) \/ Len(s) >= SubstCap THEN s
            ELSE Append(s, [param |-> p, replacement |-> c])
  ELSE IF g[p].kind # g[c].kind THEN s
  ELSE LET step(acc, pair) == Unify(g, pair[1], pair[2], acc, depth + 1)
       IN  FoldLeft(step, s, MatchedParts(g[p], g[c]))

RECURSIVE Mentions(_, _, _, _)
Mentions(g, t, param, depth) ==
  /\ t # 0 /\ depth < setting.limit
  /\ t = param \/ \E i \in DOMAIN Parts(g[t]) : Mentions(g, Parts(g[t])[i], param, depth + 1)

\* Wrong: the first binding of a parameter wins, as in the lenient version.
M_Rebind(g, old, c) == "OK"
Rebind(g, old, c) == IF EqualDeep(g, old, c) THEN "OK" ELSE "CONFLICT"

\* A field of another name is found when its turn comes.
Misnamed(m, n, k) ==
  \E i \in DOMAIN m.fields :
    /\ k = i + Len(m.args)
    /\ i \in DOMAIN n.fields /\ m.fields[i].name # n.fields[i].name

\* kavak_ty_unify_strict: the first failure ends it, bindings made so far stay.
RECURSIVE Strict(_, _, _, _, _)
Strict(g, p, c, s, depth) ==
  LET result(r) == [s |-> s, r |-> r]
  IN
  IF depth >= setting.limit THEN result("CAP_EXCEEDED")
  ELSE IF p = 0 \/ c = 0 THEN result("MISMATCH")
  ELSE IF g[p].kind = "param" THEN
         IF Bound(s, p) THEN result(Rebind(g, Lookup(s, p), c))
         ELSE IF Mentions(g, c, p, 0) THEN result("OCCURS")
         ELSE IF Len(s) >= SubstCap THEN result("CAP_EXCEEDED")
         ELSE [s |-> Append(s, [param |-> p, replacement |-> c]), r |-> "OK"]
  ELSE IF ~SameArity(g[p], g[c]) THEN result("MISMATCH")
  ELSE LET todo == MatchedParts(g[p], g[c])
           step(acc, k) ==
             IF acc.r # "OK" THEN acc
             ELSE IF Misnamed(g[p], g[c], k) THEN [acc EXCEPT !.r = "MISMATCH"]
             ELSE Strict(g, todo[k][1], todo[k][2], acc.s, depth + 1)
       IN  FoldLeftDomain(step, result("OK"), todo)
-----------------------------------------------------------------------------
(* Conformance.  The language gives a class's direct supertypes, the       *)
(* members it declares itself and the cases of a sealed type.              *)

Supers(n) == IF n.kind = "named" /\ n.tag \in DOMAIN setting.lang.supers
             THEN setting.lang.supers[n.tag] ELSE <<>>
Owns(n)   == n.kind = "named" /\ n.tag \in setting.lang.owners

\* Wrong: no more supertypes than the scratch holds.
M_FetchSupers(n) ==
  SubSeq(Supers(n), 1, IF Len(Supers(n)) < SupersCap THEN Len(Supers(n)) ELSE SupersCap)
\* More supertypes than the scratch holds need a buffer from the heap.
FetchSupers(n) ==
  IF setting.heap \/ Len(Supers(n)) <= SupersCap THEN Supers(n)
  ELSE SubSeq(Supers(n), 1, SupersCap)

\* conforms_dfs and find_member_dfs: the first node of `goal` in preorder;
\* conformance looks at the goal before it looks at the limits (`eager`).
RECURSIVE Walk(_, _, _, _, _, _)
Walk(g, t, goal, eager, seen, depth) ==
  LET stop == \/ depth >= setting.limit \/ t \in seen
              \/ Cardinality(seen) >= setting.limit
      step(acc, u) ==
        IF acc.at # 0 THEN acc ELSE Walk(g, u, goal, eager, acc.seen, depth + 1)
  IN
  CASE t \in goal /\ (eager \/ ~stop) -> [at |-> t, seen |-> seen]
    [] stop /\ ~(t \in goal /\ eager) -> [at |-> 0, seen |-> seen]
    [] ~stop /\ t \notin goal ->
         FoldLeft(step, [at |-> 0, seen |-> seen \cup {t}], FetchSupers(g[t]))

Conforms(g, a, b) ==
  \/ EqualDeep(g, a, b)
  \/ /\ setting.lang.policy = "supertypes"
     /\ Walk(g, a, {t \in DOMAIN g : EqualDeep(g, t, b)}, TRUE, {}, 0).at # 0

FindMember(g, t) == Walk(g, t, {u \in DOMAIN g : Owns(g[u])}, FALSE, {}, 0).at

\* 0 if every case is covered, -1 if that cannot be told, else a missing case.
Missing(g, covered) ==
  LET cases   == setting.lang.cases
      gaps    == {i \in DOMAIN cases : \A t \in covered : ~Conforms(g, cases[i], t)}
      first   == CHOOSE i \in gaps : \A j \in gaps : i <= j
  IN  IF Len(cases) \notin 1..VariantsCap THEN -1
      ELSE IF gaps = {} THEN 0 ELSE cases[first]
-----------------------------------------------------------------------------
(* Assignability and join.                                                 *)

\* The language's own predicate, external: its hierarchy and its numbers.
RECURSIVE Below(_, _, _)
Below(g, t, k) ==
  {t} \cup (IF k = 0 THEN {}
            ELSE UNION {Below(g, Supers(g[t])[i], k - 1) : i \in DOMAIN Supers(g[t])})
Rank(n) == IF ~setting.lang.numeric THEN 0
           ELSE IF n.kind = "int" THEN 1 ELSE IF n.kind = "long" THEN 2 ELSE 0
IsSubtype(g, a, b) ==
  \/ \E t \in Below(g, a, Len(g)) : EqualDeep(g, t, b)
  \/ Rank(g[a]) # 0 /\ Rank(g[a]) <= Rank(g[b])

Stripped(g, a) == IF g[a].kind = "nullable" THEN Inner(g[a]) ELSE a

RECURSIVE Assigns(_, _, _, _)
Assigns(g, a, b, depth) ==
  /\ a # 0 /\ b # 0 /\ depth < setting.limit
  /\ \/ EqualDeep(g, a, b)
     \/ g[a].kind = "never"
     \/ g[b].kind = "nullable" /\ Assigns(g, Stripped(g, a), Inner(g[b]), depth + 1)
     \/ /\ g[a].kind # "nullable" /\ g[b].kind # "nullable"
        /\ \/ g[b].kind = "any"
           \/ setting.lang.policy = "is_subtype" /\ IsSubtype(g, a, b)
           \/ setting.lang.policy = "supertypes" /\ Conforms(g, a, b)
Assignable(g, a, b) == Assigns(g, a, b, 0)

RECURSIVE Unwrap(_, _, _)
Unwrap(g, t, guard) ==
  IF g[t].kind = "nullable" /\ guard < setting.limit
  THEN Unwrap(g, Inner(g[t]), guard + 1) ELSE t

NumericCommon(g, a, b) ==
  IF Rank(g[a]) = 0 \/ Rank(g[b]) = 0 THEN 0
  ELSE IF Rank(g[a]) >= Rank(g[b]) THEN a ELSE b

\* `hook` is what the language's type_join delivers, 0 for nothing.
JoinCores(g, a, b, hook) ==
  IF g[a].kind = "never" THEN b
  ELSE IF g[b].kind = "never" THEN a
  ELSE IF EqualDeep(g, a, b) THEN a
  ELSE IF NumericCommon(g, a, b) # 0 THEN NumericCommon(g, a, b)
  ELSE IF hook # 0 THEN hook
  ELSE CHOOSE i \in DOMAIN Builtins : Builtins[i] = "any"
-----------------------------------------------------------------------------
(* The frontend's calls.                                                   *)

Building == mode = "build"
Built    == Len(nodes) - Len(Builtins) - Len(setting.lang.classes)
Operands == setting.operands \cup {t \in DOMAIN nodes : t > Len(nodes) - Built}
Lists(k) == UNION {[1..n -> Operands] : n \in 0..k}

\* kavak_ty_alloc; a constructor that gets no memory returns NULL, no more.
\* Parameters come first: the order of the others' making then says it all.
Construct(node) ==
  /\ Building /\ Built < setting.size
  /\ node.kind = "param" => Built = 0 \/ nodes[Len(nodes)].kind = "param"
  /\ node.kind \in setting.kinds
  /\ nodes' = Append(nodes, node)
  /\ UNCHANGED <<setting, mode, pairs, subst, outcome, answer>>

Nullable == \E t \in Operands : Construct([Of("nullable") EXCEPT !.args = <<t>>])

Function ==
  \E receiver \in Operands \cup {0}, params \in Lists(1), ret \in Operands :
    Construct([Of("function") EXCEPT !.receiver = receiver, !.args = params, !.ret = ret])

Named ==
  \E name \in setting.tags, decl \in setting.decls, args \in Lists(setting.arity) :
    Construct([Of("named") EXCEPT !.tag = name, !.decl = decl, !.args = args])

Param == \E name \in setting.tags, decl \in setting.decls :
           Construct([Of("param") EXCEPT !.tag = name, !.decl = decl])

Record ==
  \E positional \in Lists(1), types \in Lists(1), name \in {"x", "y"} :
    Construct([Of("record") EXCEPT !.args = positional,
                 !.fields = [i \in DOMAIN types |-> [name |-> name, type |-> types[i]]]])

\* A language's own kind; the kernel does not look into its payload.
User == Construct(Of("user"))

\* The frontend writes named.underlying, or an inner type, and may tie a cycle.
Tie ==
  /\ Building /\ "cycle" \in setting.kinds
  /\ \E t, u \in Operands :
       /\ t > Len(nodes) - Built
       /\ \/ /\ nodes[t].kind = "nullable" /\ nodes[t].args # <<u>> /\ u >= t
             /\ nodes' = [nodes EXCEPT ![t].args = <<u>>]
          \/ /\ nodes[t].kind = "named" /\ nodes[t].underlying = 0
             /\ nodes' = [nodes EXCEPT ![t].underlying = u]
  /\ UNCHANGED <<setting, mode, pairs, subst, outcome, answer>>

\* One more argument is matched; a strict failure ends the inference.
Infer(p, c) ==
  /\ "unify" \in setting.kinds /\ Built = setting.size
  /\ p \notin setting.operands
  /\ outcome = "OK" /\ Len(pairs) < setting.calls
  /\ pairs' = Append(pairs, <<p, c>>)
  /\ UNCHANGED <<setting, nodes, answer>>

UnifyLenient ==
  \E p, c \in Operands :
    /\ mode \in {"build", "lenient"}
    /\ Infer(p, c)
    /\ mode' = "lenient"
    /\ subst' = Unify(nodes, p, c, subst, 0)
    /\ UNCHANGED outcome

UnifyStrict ==
  \E p, c \in Operands :
    /\ mode \in {"build", "strict"}
    /\ Infer(p, c)
    /\ mode' = "strict"
    /\ LET result == Strict(nodes, p, c, subst, 0)
       IN  subst' = result.s /\ outcome' = result.r

Answer(op, of, g, type) ==
  /\ mode' = "answered"
  /\ nodes' = g
  /\ answer' = [op |-> op, of |-> of, type |-> type]
  /\ UNCHANGED <<setting, pairs, subst, outcome>>

Substitute ==
  /\ mode \in {"strict", "lenient"} /\ outcome = "OK"
  /\ \E i \in DOMAIN pairs, room \in Rooms :
       LET result == Subst(nodes, pairs[i][1], subst, 0, Len(nodes) + room)
       IN  Answer("substitute", <<i>>, result.g, result.type)

\* What the language may deliver: nothing, or a supertype of both.
Hooked(a, b) ==
  {0} \cup (IF setting.lang.policy # "is_subtype" THEN {}
            ELSE {t \in DOMAIN nodes : /\ Assignable(nodes, a, t) /\ Assignable(nodes, b, t)
                                       /\ nodes[t].kind = "named"})

Join ==
  /\ Building /\ "join" \in setting.kinds /\ Built = setting.size
  /\ \E a, b \in Operands, room \in Rooms :
       LET ca == Unwrap(nodes, a, 0)
           cb == Unwrap(nodes, b, 0)
       IN  \E hook \in Hooked(ca, cb) :
             LET core == JoinCores(nodes, ca, cb, hook)
                 wrap == /\ "nullable" \in {nodes[a].kind, nodes[b].kind}
                         /\ nodes[core].kind # "nullable"
             IN  IF ~wrap THEN Answer("join", <<a, b>>, nodes, core)
                 ELSE IF room = 0 THEN Answer("join", <<a, b>>, nodes, 0)
                 ELSE Answer("join", <<a, b>>,
                             Append(nodes, [Of("nullable") EXCEPT !.args = <<core>>]),
                             Len(nodes) + 1)

Init ==
  /\ setting \in Settings
  /\ nodes = [i \in DOMAIN Builtins |-> Of(Builtins[i])] \o setting.lang.classes
  /\ mode = "build"
  /\ pairs = <<>>
  /\ subst = <<>>
  /\ outcome = "OK"
  /\ answer = NoCall

Next ==
  \/ Nullable \/ Function \/ Named \/ Param \/ Record \/ User \/ Tie
  \/ UnifyLenient \/ UnifyStrict \/ Substitute \/ Join

Spec == Init /\ [][Next]_vars
=============================================================================
