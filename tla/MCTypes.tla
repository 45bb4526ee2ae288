------------------------------- MODULE MCTypes -------------------------------
(* The graphs of types TLC builds: for equality, for inference, and for    *)
(* the relations of two languages with a class hierarchy.                  *)
EXTENDS TypesRef

Plain == [policy |-> "none", numeric |-> FALSE, classes |-> <<>>, supers |-> <<>>,
          owners |-> {}, cases |-> <<>>]
Base == [kinds |-> {}, operands |-> {3}, size |-> 3, tags |-> {"A"}, decls |-> {"d"},
         arity |-> 1, calls |-> 2, limit |-> 10, heap |-> TRUE, lang |-> Plain]

EqualSettings ==
  { [Base EXCEPT !.kinds = {"nullable", "named", "cycle"}, !.decls = {"d", "e"}],
    [Base EXCEPT !.kinds = {"nullable", "user", "cycle"}],
    [Base EXCEPT !.kinds = {"nullable", "cycle"}, !.size = 4, !.limit = 2],
    [Base EXCEPT !.kinds = {"function", "record"}, !.size = 2, !.operands = {3, 4}],
    [Base EXCEPT !.kinds = {"param", "record"}, !.tags = {"A", "B"}, !.decls = {"d", "e"}, !.size = 2] }

InferSettings ==
  { [Base EXCEPT !.kinds = {"param", "named", "unify"}, !.arity = 2],
    [Base EXCEPT !.kinds = {"param", "nullable", "cycle", "unify"}],
    [Base EXCEPT !.kinds = {"param", "named", "cycle", "unify"}, !.calls = 1],
    [Base EXCEPT !.kinds = {"param", "nullable", "unify"}, !.size = 4, !.limit = 2],
    [Base EXCEPT !.kinds = {"param", "function", "unify"}, !.calls = 1],
    [Base EXCEPT !.kinds = {"param", "record", "unify"}, !.calls = 1] }

\* A below B and C, both below D; D names A as its supertype by mistake.
Class(name) == [Of("named") EXCEPT !.tag = name, !.decl = "d"]
Diamond == [Plain EXCEPT !.policy = "supertypes",
                         !.classes = <<Class("A"), Class("B"), Class("C"), Class("D")>>,
                         !.supers = [A |-> <<6, 7>>, B |-> <<8>>, C |-> <<8>>, D |-> <<5>>],
                         !.owners = {"C", "D"}, !.cases = <<6, 7>>]
\* A has three supertypes, and the last of them one more.
Fan == [Plain EXCEPT !.policy = "supertypes",
                     !.classes = <<Class("A"), Class("B"), Class("C"), Class("D")>>,
                     !.supers = [A |-> <<6, 7, 8>>, D |-> <<6>>], !.owners = {"D"}, !.cases = <<5, 8>>]
Numbers == [Plain EXCEPT !.policy = "is_subtype", !.numeric = TRUE,
                         !.classes = <<Class("A"), Class("B")>>, !.supers = [A |-> <<6>>]]

RelationSettings ==
  { [Base EXCEPT !.kinds = {"nullable", "named", "join"}, !.operands = {1, 2, 3}, !.size = 2,
                 !.tags = {"A"}, !.arity = 0, !.lang = l, !.heap = h, !.limit = n]
      : l \in {Diamond, Fan}, h \in BOOLEAN, n \in {2, 12} }
    \cup { [Base EXCEPT !.kinds = {"nullable", "join"}, !.operands = 1..6, !.lang = Numbers] }

TypeSettings == EqualSettings \cup InferSettings \cup RelationSettings
UserSettings == { [Base EXCEPT !.kinds = {"param", "user", "unify"}] }
=============================================================================
