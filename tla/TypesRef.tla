------------------------------ MODULE TypesRef ------------------------------
(***************************************************************************)
(* What the type toolkit promises, stated on the trees that the graph of   *)
(* types unfolds to.                                                       *)
(***************************************************************************)
EXTENDS Types

(* A type cut off at depth k, with some parameters replaced.  Language     *)
(* kinds are known by their pointer only.                                  *)
RECURSIVE Tree(_, _, _)
Tree(t, k, by) ==
  LET n == nodes[t]
      whole == [kind |-> n.kind, tag |-> n.tag, decl |-> n.decl, at |-> 0,
                names |-> Names(n), parts |-> <<>>]
      sub(ts) == [i \in DOMAIN ts |-> Tree(ts[i], k - 1, by)]
  IN  CASE t = 0 -> [kind |-> "null"]
        [] t \in DOMAIN by -> Tree(by[t], k, <<>>)
        [] t # 0 /\ t \notin DOMAIN by /\ k = 0 -> [kind |-> "cut"]
        [] OTHER -> IF n.kind = "user" THEN [whole EXCEPT !.at = t]
                    ELSE [whole EXCEPT !.parts =
                            sub(<<n.receiver>>) \o sub(n.args) \o sub(FieldTypes(n)) \o sub(<<n.ret>>)]

Depth    == Built + 2    \* trees of so many nodes that agree so far agree for ever
Same(t, u) == Tree(t, Depth, <<>>) = Tree(u, Depth, <<>>)
Fresh    == {t \in DOMAIN nodes : t > Len(nodes) - Built}
\* The limits are never reached with so few nodes.
Roomy    == setting.limit > Built * Built

(* Equality (kavak.h:1175) compares whole types: deep equality holds only  *)
(* between types that unfold to the same tree, and between all of those    *)
(* until the guard of 512 pairs cuts it off; then it is false, never true. *)
(* Nominal equality is implied.                                            *)
EqualIsSameTree ==
  Building =>
    \A t, u \in Fresh :
      /\ EqualDeep(nodes, t, u) => Same(t, u)
      /\ Roomy /\ Same(t, u) => EqualDeep(nodes, t, u) /\ EqualNominal(nodes, t, u)

Params  == {t \in DOMAIN nodes : nodes[t].kind = "param"}
Binding == [t \in {subst[i].param : i \in DOMAIN subst} |-> Lookup(subst, t)]
Matches(by) == \A i \in DOMAIN pairs :
                 Tree(pairs[i][1], Depth, by) = Tree(pairs[i][2], Depth, <<>>)

(* Strict unification over several arguments (kavak.h:1252) succeeds only  *)
(* with bindings that make every pattern its argument, and rejects only    *)
(* what no bindings make match; where it succeeds, the lenient version     *)
(* makes the same bindings.                                                *)
StrictInfers ==
  mode = "strict" =>
    /\ outcome = "OK" =>
         /\ Matches(Binding)
         /\ FoldLeft(LAMBDA s, pair : Unify(nodes, pair[1], pair[2], s, 0), <<>>, pairs) = subst
    /\ outcome \in {"MISMATCH", "CONFLICT"} /\ Roomy =>
         ~\E by \in [Params -> DOMAIN nodes] : Matches(by)

(* All of a type to depth k, the types underlying names included, with     *)
(* some parameters replaced.  What is cut off, and a language's own type,  *)
(* is known by its pointer.                                                *)
RECURSIVE Spread(_, _, _)
Spread(t, k, by) ==
  LET sub(u) == Spread(u, k - 1, by)
  IN  CASE t \in DOMAIN by -> Spread(by[t], k, <<>>)
        [] t \notin DOMAIN by /\ (t = 0 \/ k = 0 \/ nodes[t].kind = "user") -> [at |-> t]
        [] OTHER -> [nodes[t] EXCEPT
                       !.receiver   = sub(@),
                       !.args       = [i \in DOMAIN @ |-> sub(@[i])],
                       !.fields     = [i \in DOMAIN @ |-> [@[i] EXCEPT !.type = sub(@)]],
                       !.ret        = sub(@),
                       !.underlying = sub(@)]

(* kavak_ty_substitute gives the whole pattern with its parameters         *)
(* replaced and all else kept, around cycles too, as deep as the guard     *)
(* goes (type.c:496): a type that deep is the pattern's own.  Or it gives  *)
(* nothing: where memory runs out no half-built type is returned.          *)
SubstituteReplaces ==
  answer.op = "substitute" /\ answer.type # 0 =>
    Spread(answer.type, setting.limit, <<>>) =
      Spread(pairs[answer.of[1]][1], setting.limit, Binding)

(* Inference and instantiation together: what the strict calls bound makes *)
(* every pattern its argument, and kavak_ty_substitute then puts it in     *)
(* place of the parameters.                                                *)
InferenceSound == StrictInfers /\ SubstituteReplaces

Up(t) == Below(nodes, t, Len(nodes))    \* the supertypes of a class
\* No guard cuts a walk short, and no supertypes are lost for lack of memory.
Full  == setting.heap /\ setting.limit >= Len(nodes)

(* Assignability is an order, reflexive and transitive; conformance is     *)
(* reachability by the language's edges; a member is found exactly if one  *)
(* of those classes has it, on such a class; and a match that covers every *)
(* case of a sealed type covers every subtype of a case.  A walk cut short *)
(* finds less, never more (type.c:1116, type.c:1098).                      *)
RelationsAgree ==
  Building /\ "join" \in setting.kinds =>
    LET below == {<<a, b>> \in (DOMAIN nodes) \X (DOMAIN nodes) : Assignable(nodes, a, b)}
        up    == [t \in DOMAIN nodes |-> Up(t)]
    IN  /\ \A a \in DOMAIN nodes : <<a, a>> \in below
        /\ Full => \A ab \in below : \A c \in DOMAIN nodes :
                     <<ab[2], c>> \in below => <<ab[1], c>> \in below
        /\ \A a, b \in DOMAIN nodes :
             /\ Conforms(nodes, a, b) => \E t \in up[a] : Same(t, b)
             /\ Full /\ setting.lang.policy = "supertypes" /\ b \in up[a] => Conforms(nodes, a, b)
        /\ \A a \in DOMAIN nodes :
             /\ FindMember(nodes, a) # 0 => FindMember(nodes, a) \in up[a]
             /\ Full /\ (\E t \in up[a] : Owns(nodes[t])) => Owns(nodes[FindMember(nodes, a)])
        /\ Full => \A covered \in SUBSET Operands :
             Missing(nodes, covered) = 0 =>
               \A i \in DOMAIN setting.lang.cases, a \in DOMAIN nodes :
                 setting.lang.cases[i] \in up[a] => \E b \in covered : <<a, b>> \in below

DoublyNullable(t) == Stripped(nodes, t) # t /\ Stripped(nodes, Stripped(nodes, t)) # Stripped(nodes, t)

(* Both operands can be assigned to their join (kavak.h:1221), if the      *)
(* language's hooks keep to its order.  A T?? is left out: the join strips *)
(* all its layers and gives back one.                                      *)
JoinIsUpper ==
  answer.op = "join" /\ answer.type # 0 /\ Full =>
    \A i \in 1..2 : ~DoublyNullable(answer.of[i]) =>
      Assignable(nodes, answer.of[i], answer.type)

(* The relations and the join are those of one order of types.             *)
RelationsOrder == RelationsAgree /\ JoinIsUpper
=============================================================================
