----------------------------- MODULE SemaProofs -----------------------------
(***************************************************************************)
(* Proofs about the sema toolkit: for every tree, every list of narrowings *)
(* and every limit, whichever allocations fail, the scope stack matches    *)
(* the walk, what a branch narrows is undone, no identifier stays without  *)
(* a type in silence, an overload is the best candidate, and names resolve *)
(* lexically.                                                              *)
(***************************************************************************)
EXTENDS SemaRef, Induction, FiniteSetTheorems, SequenceTheorems

Entry   == [name : Names, type : Types \cup {Unknown}]
Scope   == Seq(Symbol)
-----------------------------------------------------------------------------
(* Sequences.                                                              *)
LEMMA Replaced ==
  ASSUME NEW S, NEW s \in Seq(S), NEW i \in 1..Len(s), NEW v \in S
  PROVE  /\ [s EXCEPT ![i] = v] \in Seq(S) /\ Len([s EXCEPT ![i] = v]) = Len(s)
         /\ [s EXCEPT ![i] = v][i] = v
         /\ \A k \in 1..Len(s) : k # i => [s EXCEPT ![i] = v][k] = s[k]
BY ExceptSeq

LEMMA FrontOf ==
  ASSUME NEW S, NEW s \in Seq(S), NEW n \in 0..Len(s)
  PROVE  /\ SubSeq(s, 1, n) \in Seq(S) /\ Len(SubSeq(s, 1, n)) = n
         /\ \A k \in 1..n : SubSeq(s, 1, n)[k] = s[k]
<1>1. Len(s) \in Nat /\ \A k \in 1..Len(s) : s[k] \in S
  BY ElementOfSeq, LenProperties
<1>2. 1 \in Int /\ n \in Int /\ \A k \in 1..n : s[k] \in S
  BY <1>1
<1>3. (IF 1 <= n THEN n - 1 + 1 ELSE 0) = n
  BY <1>2
<1> QED BY <1>1, <1>2, <1>3, SubSeqProperties

LEMMA Appended ==
  ASSUME NEW S, NEW s \in Seq(S), NEW x \in S
  PROVE  /\ Append(s, x) \in Seq(S) /\ Len(Append(s, x)) = Len(s) + 1
         /\ Append(s, x)[Len(s) + 1] = x
         /\ \A k \in 1..Len(s) : Append(s, x)[k] = s[k]
BY AppendProperties
-----------------------------------------------------------------------------
(* The scope stack.                                                        *)
Stack == Seq(Scope) \ {<<>>}

LEMMA StackLen == ASSUME NEW sc \in Stack PROVE Len(sc) \in Nat \ {0} /\ Len(sc) \in 1..Len(sc)
                                                /\ \A k \in 1..Len(sc) : sc[k] \in Scope
<1>1. sc \in Seq(Scope) /\ sc # <<>> /\ Len(sc) \in Nat
  BY LenProperties DEF Stack
<1>2. Len(sc) # 0
  BY <1>1, EmptySeq
<1>3. \A k \in 1..Len(sc) : sc[k] \in Scope
  BY <1>1, ElementOfSeq
<1> QED BY <1>1, <1>2, <1>3

\* A stack that differs from another in its current scope at most.
OnTop(new, sc) ==
  new \in Stack /\ Len(new) = Len(sc) /\ \A k \in 1..Len(sc) - 1 : new[k] = sc[k]

LEMMA OnTopSelf == ASSUME NEW sc \in Stack PROVE OnTop(sc, sc)
BY DEF OnTop

LEMMA BindAllOK ==
  ASSUME NEW sc \in Stack, NEW symbols \in Scope
  PROVE  OnTop(BindAll(sc, symbols), sc)
<1> DEFINE n == Len(sc)
           v == sc[n] \o symbols
<1>1. n \in Nat \ {0} /\ n \in 1..n /\ sc[n] \in Scope /\ sc \in Seq(Scope)
  BY StackLen DEF Stack
<1>2. v \in Scope
  BY <1>1, ConcatProperties DEF Scope
<1>3. BindAll(sc, symbols) = [sc EXCEPT ![n] = v]
  BY <1>1 DEF BindAll
<1> HIDE DEF v
<1> DEFINE new == [sc EXCEPT ![n] = v]
<1>4. /\ new \in Seq(Scope) /\ Len(new) = n
      /\ \A k \in 1..n : k # n => new[k] = sc[k]
  BY <1>1, <1>2, Replaced
<1> HIDE DEF new
<1>5. new # <<>> /\ \A k \in 1..n - 1 : new[k] = sc[k]
  BY <1>1, <1>4, EmptySeq
<1> QED BY <1>3, <1>4, <1>5 DEF OnTop, Stack, new

LEMMA BindOK ==
  ASSUME NEW sc \in Stack, NEW symbol \in Symbol, NEW new \in Bind(sc, symbol)
  PROVE  OnTop(new, sc)
<1>1. <<symbol>> \in Scope
  BY DEF Scope
<1> QED BY <1>1, BindAllOK, OnTopSelf DEF Bind

LEMMA ApplyOK ==
  ASSUME NEW sc \in Stack, NEW list \in Seq(Entry), NEW r \in ApplyNarrowings(sc, list)
  PROVE  OnTop(r.scopes, sc)
<1>1. PICK n \in 0..Len(list) : /\ \A i \in 1..n : list[i].type # Unknown
                                /\ r.scopes = BindAll(sc, SubSeq(list, 1, n))
  BY DEF ApplyNarrowings
<1> DEFINE bound == SubSeq(list, 1, n)
<1>2. bound \in Seq(Entry) /\ Len(bound) = n /\ \A k \in 1..n : bound[k] = list[k]
  BY FrontOf
<1>3. \A k \in 1..n : bound[k] \in Symbol
  <2> TAKE k \in 1..n
  <2>1. k \in 1..Len(list) /\ Len(list) \in Nat
    BY LenProperties
  <2>2. list[k] \in Entry /\ list[k].type # Unknown
    BY <1>1, <2>1, ElementOfSeq
  <2>3. list[k] \in Symbol
    BY <2>2 DEF Entry, Symbol
  <2> QED BY <1>2, <2>3
<1> HIDE DEF bound
<1>4. bound \in Scope
  <2>1. bound = [k \in 1..n |-> bound[k]] /\ n \in Nat
    BY <1>2
  <2> QED BY <1>3, <2>1 DEF Scope
<1> QED BY <1>1, <1>4, BindAllOK DEF bound

LEMMA EarlyExitOK ==
  ASSUME scopes \in Stack, NEW list \in Seq(Entry), NEW r \in EarlyExit(list)
  PROVE  OnTop(r.scopes, scopes)
BY ApplyOK, OnTopSelf DEF EarlyExit

LEMMA PushScopeOK ==
  ASSUME NEW sc \in Stack, NEW new \in PushScope(sc), new # sc
  PROVE  /\ new \in Stack /\ Len(new) = Len(sc) + 1
         /\ \A k \in 1..Len(sc) : new[k] = sc[k]
<1>1. new = Append(sc, <<>>) /\ sc \in Seq(Scope) /\ <<>> \in Scope
  BY DEF PushScope, Stack, Scope
<1>2. /\ new \in Seq(Scope) /\ Len(new) = Len(sc) + 1
      /\ \A k \in 1..Len(sc) : new[k] = sc[k]
  BY <1>1, Appended
<1>3. new # <<>>
  BY <1>2, StackLen, EmptySeq
<1> QED BY <1>2, <1>3 DEF Stack

LEMMA AppendIsNew == ASSUME NEW sc \in Stack PROVE Append(sc, <<>>) # sc
<1>1. sc \in Seq(Scope) /\ <<>> \in Scope /\ Len(sc) \in Nat
  BY StackLen DEF Stack, Scope
<1>2. Len(Append(sc, <<>>)) = Len(sc) + 1
  BY <1>1, Appended
<1> QED BY <1>1, <1>2

LEMMA PopScopeOK ==
  ASSUME NEW sc \in Stack, Len(sc) > 1
  PROVE  /\ PopScope(sc) \in Stack /\ Len(PopScope(sc)) = Len(sc) - 1
         /\ \A k \in 1..Len(sc) - 1 : PopScope(sc)[k] = sc[k]
<1>1. sc \in Seq(Scope) /\ Len(sc) \in Nat /\ Len(sc) - 1 \in 0..Len(sc)
  BY StackLen DEF Stack
<1>2. /\ PopScope(sc) \in Seq(Scope) /\ Len(PopScope(sc)) = Len(sc) - 1
      /\ \A k \in 1..Len(sc) - 1 : PopScope(sc)[k] = sc[k]
  BY <1>1, FrontOf DEF PopScope
<1>3. PopScope(sc) # <<>>
  BY <1>1, <1>2, EmptySeq
<1> QED BY <1>2, <1>3 DEF Stack
-----------------------------------------------------------------------------
(* Lookup and the choice among overloads.                                  *)
\* What lookup finds in one scope, symbol by symbol.
LEMMA NamedSteps ==
  ASSUME NEW symbols \in Scope, NEW name
  PROVE  \E f : /\ Named(symbols, name) = f[Len(symbols)] /\ f[0] = <<>>
                /\ \A i \in 0..Len(symbols) : f[i] \in Scope
                /\ \A i \in 1..Len(symbols) :
                     f[i] = IF symbols[i].name = name THEN <<symbols[i]>> \o f[i - 1] ELSE f[i - 1]
<1> DEFINE n == Len(symbols)
           base == <<>>
           Step(i, v) == IF symbols[i].name = name THEN <<symbols[i]>> \o v ELSE v
           step == [i \in 1..n |-> [v \in Scope |-> Step(i, v)]]
           Moved(f) == f = [i \in 0..Len(symbols) |->
                              IF i = 0 THEN <<>>
                              ELSE IF symbols[i].name = name THEN <<symbols[i]>> \o f[i - 1] ELSE f[i - 1]]
           found == CHOOSE f : Moved(f)
<1>1. n \in Nat /\ \A i \in 1..n : symbols[i] \in Symbol
  BY LenProperties, ElementOfSeq DEF Scope
<1>2. base \in Scope
  BY DEF Scope
<1>3. \A i \in 1..n, v \in Scope : Step(i, v) \in Scope
  <2> TAKE i \in 1..n, v \in Scope
  <2>1. <<symbols[i]>> \in Seq(Symbol) /\ v \in Seq(Symbol)
    BY <1>1 DEF Scope
  <2>2. <<symbols[i]>> \o v \in Seq(Symbol)
    BY <2>1, ConcatProperties
  <2> QED BY <2>1, <2>2 DEF Scope
<1>4. StaysIn(Scope, n, base, step)
  <2>1. step \in [1..n -> [Scope -> Scope]]
    <3> HIDE DEF Step
    <3> QED BY <1>3
  <2> HIDE DEF step, base
  <2> QED BY <1>2, <2>1 DEF StaysIn
<1>5. \E f : Moved(f) /\ f \in [0..n -> Scope]
  <2>1. PICK f : Follows(f, Scope, n, base, step)
    <3> HIDE DEF base, step, n
    <3> QED BY <1>1, <1>4, RecursionExists
  <2> HIDE DEF Step, base
  <2>2. f \in [0..n -> Scope] /\ \A i \in 1..n : f[i - 1] \in Scope
    <3> HIDE DEF step
    <3>1. f \in [0..n -> Scope]
      BY <2>1 DEF Follows
    <3>2. \A i \in 1..n : i - 1 \in 0..n
      BY <1>1
    <3> HIDE DEF n
    <3> QED BY <3>1, <3>2
  <2>3. f[0] = base /\ \A i \in 1..n : f[i] = Step(i, f[i - 1])
    <3>1. \A i \in 1..n : step[i][f[i - 1]] = Step(i, f[i - 1])
      BY <2>2
    <3> HIDE DEF step
    <3> QED BY <2>1, <3>1 DEF Follows
  <2>4. f = [i \in 0..n |-> IF i = 0 THEN base ELSE Step(i, f[i - 1])]
    <3>1. \A i \in 0..n : f[i] = IF i = 0 THEN base ELSE Step(i, f[i - 1])
      BY <1>1, <2>3
    <3> QED BY <2>2, <3>1
  <2> QED BY <2>2, <2>4 DEF base, Step
<1>6. Moved(found)
  <2> HIDE DEF Moved
  <2> QED BY <1>5
<1>7. Named(symbols, name) = found[n]
  BY DEF Named
<1>8. found[0] = base /\ \A i \in 1..n : found[i] = Step(i, found[i - 1])
  <2>1. found = [i \in 0..n |-> IF i = 0 THEN base ELSE Step(i, found[i - 1])]
    <3> HIDE DEF found
    <3> QED BY <1>6
  <2> HIDE DEF found, base, n, Step
  <2> QED BY <1>1, <2>1
<1> HIDE DEF found, Step, base
<1> DEFINE S == {i \in 0..n : found[i] \in Scope}
<1>9. 0 \in S
  BY <1>1, <1>2, <1>8
<1>10. ASSUME NEW i \in 0..n - 1, i \in S PROVE i + 1 \in S
  <2>1. i + 1 \in 1..n /\ i + 1 - 1 = i
    BY <1>1
  <2> QED BY <1>3, <1>8, <1>10, <2>1
<1>11. \A i \in 0..n : found[i] \in Scope
  <2> HIDE DEF S, n
  <2>1. 0..n \subseteq S
    BY <1>1, <1>9, <1>10, BoundedInduction
  <2> QED BY <2>1 DEF S
<1>12. found[0] = <<>> /\ \A i \in 1..n : found[i] = IF symbols[i].name = name THEN <<symbols[i]>> \o found[i - 1] ELSE found[i - 1]
  BY <1>8 DEF Step, base
<1> QED BY <1>7, <1>11, <1>12

LEMMA NamedOK ==
  ASSUME NEW symbols \in Scope, NEW name
  PROVE  Named(symbols, name) \in Scope
<1>1. Len(symbols) \in 0..Len(symbols)
  BY LenProperties DEF Scope
<1> QED BY <1>1, NamedSteps

\* What lookup finds in the stack, scope by scope.
LEMMA LookupSteps ==
  ASSUME NEW sc \in Seq(Scope), NEW name
  PROVE  \E f : /\ LookupAll(sc, name) = f[Len(sc)] /\ f[0] = <<>>
                /\ \A i \in 0..Len(sc) : f[i] \in Scope
                /\ \A i \in 1..Len(sc) : f[i] = Named(sc[i], name) \o f[i - 1]
<1> DEFINE n == Len(sc)
           base == <<>>
           Step(i, v) == Named(sc[i], name) \o v
           step == [i \in 1..n |-> [v \in Scope |-> Step(i, v)]]
           Moved(f) == f = [i \in 0..Len(sc) |-> IF i = 0 THEN <<>> ELSE Named(sc[i], name) \o f[i - 1]]
           found == CHOOSE f : Moved(f)
<1>1. n \in Nat /\ \A i \in 1..n : sc[i] \in Scope
  BY LenProperties, ElementOfSeq
<1>2. base \in Scope
  BY DEF Scope
<1>3. \A i \in 1..n, v \in Scope : Step(i, v) \in Scope
  BY <1>1, NamedOK, ConcatProperties DEF Scope
<1>4. StaysIn(Scope, n, base, step)
  <2>1. step \in [1..n -> [Scope -> Scope]]
    <3> HIDE DEF Step
    <3> QED BY <1>3
  <2> HIDE DEF step, base
  <2> QED BY <1>2, <2>1 DEF StaysIn
<1>5. \E f : Moved(f) /\ f \in [0..n -> Scope]
  <2>1. PICK f : Follows(f, Scope, n, base, step)
    <3> HIDE DEF base, step, n
    <3> QED BY <1>1, <1>4, RecursionExists
  <2> HIDE DEF Step, base
  <2>2. f \in [0..n -> Scope] /\ \A i \in 1..n : f[i - 1] \in Scope
    <3> HIDE DEF step
    <3>1. f \in [0..n -> Scope]
      BY <2>1 DEF Follows
    <3>2. \A i \in 1..n : i - 1 \in 0..n
      BY <1>1
    <3> HIDE DEF n
    <3> QED BY <3>1, <3>2
  <2>3. f[0] = base /\ \A i \in 1..n : f[i] = Step(i, f[i - 1])
    <3>1. \A i \in 1..n : step[i][f[i - 1]] = Step(i, f[i - 1])
      BY <2>2
    <3> HIDE DEF step
    <3> QED BY <2>1, <3>1 DEF Follows
  <2>4. f = [i \in 0..n |-> IF i = 0 THEN base ELSE Step(i, f[i - 1])]
    <3>1. \A i \in 0..n : f[i] = IF i = 0 THEN base ELSE Step(i, f[i - 1])
      BY <1>1, <2>3
    <3> QED BY <2>2, <3>1
  <2> QED BY <2>2, <2>4 DEF base, Step
<1>6. Moved(found)
  <2> HIDE DEF Moved
  <2> QED BY <1>5
<1>7. LookupAll(sc, name) = found[n]
  BY DEF LookupAll
<1>8. found[0] = base /\ \A i \in 1..n : found[i] = Step(i, found[i - 1])
  <2>1. found = [i \in 0..n |-> IF i = 0 THEN base ELSE Step(i, found[i - 1])]
    <3> HIDE DEF found
    <3> QED BY <1>6
  <2> HIDE DEF found, base, n, Step
  <2> QED BY <1>1, <2>1
<1> HIDE DEF found, Step, base
<1> DEFINE S == {i \in 0..n : found[i] \in Scope}
<1>9. 0 \in S
  BY <1>1, <1>2, <1>8
<1>10. ASSUME NEW i \in 0..n - 1, i \in S PROVE i + 1 \in S
  <2>1. i + 1 \in 1..n /\ i + 1 - 1 = i
    BY <1>1
  <2> QED BY <1>3, <1>8, <1>10, <2>1
<1>11. \A i \in 0..n : found[i] \in Scope
  <2> HIDE DEF S, n
  <2>1. 0..n \subseteq S
    BY <1>1, <1>9, <1>10, BoundedInduction
  <2> QED BY <2>1 DEF S
<1>12. found[0] = <<>> /\ \A i \in 1..n : found[i] = Named(sc[i], name) \o found[i - 1]
  BY <1>8 DEF Step, base
<1> QED BY <1>7, <1>11, <1>12

LEMMA LookupAllOK ==
  ASSUME NEW sc \in Seq(Scope), NEW name
  PROVE  LookupAll(sc, name) \in Scope
<1>1. Len(sc) \in 0..Len(sc)
  BY LenProperties
<1> QED BY <1>1, LookupSteps

LEMMA LookupTypeOK ==
  ASSUME NEW sc \in Stack, NEW name
  PROVE  LookupType(sc, name) \in Types \cup {Unknown}
<1> DEFINE found == LookupAll(sc, name)
<1>1. found \in Seq(Symbol)
  BY LookupAllOK DEF Stack, Scope
<1>2. LookupType(sc, name) = IF found = <<>> THEN Unknown ELSE found[1].type
  BY DEF LookupType
<1> HIDE DEF found
<1>3. ASSUME found # <<>> PROVE found[1].type \in Types
  <2>1. 1 \in 1..Len(found)
    BY <1>1, <1>3, EmptySeq
  <2>2. found[1] \in Symbol
    BY <1>1, <2>1, ElementOfSeq
  <2> QED BY <2>2 DEF Symbol
<1> QED BY <1>2, <1>3

\* The choice among the first n candidates: the best score, the first of those.
BestOf(all, score, n, b) ==
  /\ b \in 0..n
  /\ b = 0 => \A i \in 1..n : score[all[i].type] < 0
  /\ b # 0 => /\ score[all[b].type] >= 0
              /\ \A i \in 1..n : \/ score[all[i].type] < score[all[b].type]
                                 \/ score[all[i].type] = score[all[b].type] /\ b <= i

LEMMA PickBest ==
  ASSUME NEW all \in Scope, NEW score \in [Types -> Int]
  PROVE  BestOf(all, score, Len(all), PickOverload(all, score))
<1> DEFINE n == Len(all)
           Score(i) == score[all[i].type]
           Takes(i, b) == Score(i) >= 0 /\ (b = 0 \/ Better(Score(i), Score(b)))
           Step(i, b) == IF Takes(i, b) THEN i ELSE b
           V == 0..n
           step == [i \in 1..n |-> [b \in V |-> Step(i, b)]]
           Moved(f) == f = [i \in 0..Len(all) |->
                              IF i = 0 THEN 0
                              ELSE IF /\ Score(i) >= 0
                                      /\ f[i - 1] = 0 \/ Better(Score(i), Score(f[i - 1]))
                              THEN i ELSE f[i - 1]]
           best == CHOOSE f : Moved(f)
<1>1. n \in Nat /\ \A i \in 1..n : all[i] \in Symbol
  BY LenProperties, ElementOfSeq DEF Scope
<1>2. \A i \in 1..n : Score(i) \in Int
  BY <1>1 DEF Symbol
<1>3. StaysIn(V, n, 0, step)
  <2>1. step \in [1..n -> [V -> V]]
    <3>1. \A i \in 1..n, b \in V : Step(i, b) \in V
      <4> HIDE DEF Takes
      <4> QED BY <1>1
    <3> HIDE DEF Step, V
    <3> QED BY <3>1
  <2> HIDE DEF step
  <2> QED BY <1>1, <2>1 DEF StaysIn
<1>4. \E f : Moved(f) /\ f \in [0..n -> V]
  <2>1. PICK f : Follows(f, V, n, 0, step)
    <3> HIDE DEF step, n, V
    <3> QED BY <1>1, <1>3, RecursionExists
  <2> HIDE DEF Step
  <2>2. f \in [0..n -> V] /\ \A i \in 1..n : f[i - 1] \in V
    <3> HIDE DEF step
    <3>1. f \in [0..n -> V]
      BY <2>1 DEF Follows
    <3>2. \A i \in 1..n : i - 1 \in 0..n
      BY <1>1
    <3> HIDE DEF n, V
    <3> QED BY <3>1, <3>2
  <2>3. f[0] = 0 /\ \A i \in 1..n : f[i] = Step(i, f[i - 1])
    <3> HIDE DEF V
    <3>1. \A i \in 1..n : step[i][f[i - 1]] = Step(i, f[i - 1])
      BY <2>2
    <3> HIDE DEF step
    <3> QED BY <2>1, <3>1 DEF Follows
  <2>4. f = [i \in 0..n |-> IF i = 0 THEN 0 ELSE Step(i, f[i - 1])]
    <3>1. \A i \in 0..n : f[i] = IF i = 0 THEN 0 ELSE Step(i, f[i - 1])
      BY <1>1, <2>3
    <3> HIDE DEF V
    <3> QED BY <2>2, <3>1
  <2> QED BY <2>2, <2>4 DEF Step
<1>5. Moved(best)
  <2> HIDE DEF Moved
  <2> QED BY <1>4
<1>6. PickOverload(all, score) = best[n]
  BY DEF PickOverload
<1>7. best[0] = 0 /\ \A i \in 1..n : best[i] = Step(i, best[i - 1])
  <2>1. best = [i \in 0..n |-> IF i = 0 THEN 0 ELSE Step(i, best[i - 1])]
    <3> HIDE DEF best, Score
    <3> QED BY <1>5, Zenon
  <2> HIDE DEF best, n, Step
  <2> QED BY <1>1, <2>1
<1> HIDE DEF best
<1> DEFINE S == {i \in 0..n : BestOf(all, score, i, best[i])}
<1>8. 0 \in S
  BY <1>1, <1>7 DEF BestOf
<1>9. ASSUME NEW i \in 0..n - 1, i \in S PROVE i + 1 \in S
  <2>1. i + 1 \in 1..n /\ i + 1 - 1 = i /\ i \in 0..n /\ i \in Nat
    BY <1>1
  <2> DEFINE m == i + 1
             b == best[i]
  <2>2. best[m] = Step(m, b) /\ m \in 1..n /\ BestOf(all, score, i, b)
    BY <1>7, <1>9, <2>1
  <2>3. b \in 0..i /\ Score(m) \in Int /\ (b # 0 => Score(b) \in Int)
    BY <1>1, <1>2, <2>1, <2>2 DEF BestOf
  <2> HIDE DEF b
  <2>4. \A k \in 1..m : k \in 1..i \/ k = m
    BY <2>1
  <2>5. CASE Takes(m, b)
    <3>1. best[m] = m
      BY <2>2, <2>5
    <3>2. \A k \in 1..i : Score(k) < Score(m) /\ m # 0
      <4> TAKE k \in 1..i
      <4>1. Score(k) \in Int /\ k \in 1..i
        BY <1>2, <2>1
      <4>2. CASE b = 0
        BY <2>1, <2>2, <2>3, <2>5, <4>1, <4>2 DEF BestOf
      <4>3. CASE b # 0
        <5>1. Score(m) > Score(b)
          BY <2>5, <4>3 DEF Better
        <5>2. Score(k) <= Score(b)
          BY <2>2, <2>3, <4>1, <4>3 DEF BestOf
        <5>3. Score(b) \in Int /\ Score(m) \in Int /\ m # 0
          BY <2>1, <2>3, <4>3
        <5> HIDE DEF Score, m
        <5> QED BY <4>1, <5>1, <5>2, <5>3
      <4> QED BY <4>2, <4>3
    <3>3. BestOf(all, score, m, m)
      BY <2>1, <2>3, <2>4, <2>5, <3>2 DEF BestOf
    <3> QED BY <2>1, <2>2, <3>1, <3>3
  <2>6. CASE ~Takes(m, b)
    <3>1. best[m] = b
      BY <2>2, <2>6
    <3>2. CASE b = 0
      <4>1. Score(m) < 0
        BY <2>3, <2>6, <3>2
      <4>2. BestOf(all, score, m, 0)
        BY <2>1, <2>2, <2>4, <3>2, <4>1 DEF BestOf
      <4> QED BY <2>1, <2>2, <3>1, <3>2, <4>2
    <3>3. CASE b # 0
      <4>1. Score(b) >= 0 /\ b <= i
        BY <2>1, <2>2, <2>3, <3>3 DEF BestOf
      <4>2. Score(m) <= Score(b)
        BY <2>3, <2>6, <3>3, <4>1 DEF Better
      <4>3. BestOf(all, score, m, b)
        BY <2>1, <2>2, <2>3, <2>4, <3>3, <4>1, <4>2 DEF BestOf
      <4> QED BY <2>1, <2>2, <3>1, <4>3
    <3> QED BY <3>2, <3>3
  <2> QED BY <2>5, <2>6
<1>10. n \in S
  <2> HIDE DEF S, n
  <2>1. 0..n \subseteq S
    BY <1>1, <1>8, <1>9, BoundedInduction
  <2> QED BY <1>1, <2>1
<1> QED BY <1>6, <1>10

-----------------------------------------------------------------------------
(* The inductive invariant: besides the scopes and the depth, the tree     *)
(* stays nested, the walk stays on it and only blocks open scopes, bodies  *)
(* run only when no walk does, and every body's scopes are untouched.      *)
WellFormed ==
  /\ tree \in Seq(Node) /\ tree # <<>> /\ tree[1].size = Len(tree)
  /\ \A n \in 1..Len(tree) : \A m \in n..n + tree[n].size - 1 :
       m + tree[m].size <= n + tree[n].size

OpensScope(n) == phase = "resolve" /\ tree[n].kind \in {"block", "branch"}

WalkOnTree ==
  \A i \in 1..Len(walk) :
    walk[i].node \in 1..Len(tree) /\ (walk[i].pushed => OpensScope(walk[i].node))

OneThing ==
  /\ Walking \/ walk = <<>>
  /\ phase = "check" \/ bodies = <<>>
  /\ Resolved => next = Len(tree) + 1

BodiesUntouched ==
  \A i \in 1..Len(bodies) :
    /\ Len(bodies[i].saved) = i
    /\ \A k \in 1..i : bodies[i].saved[k] = scopes[k]

Spoken(n) == types[n] # Unknown \/ n \in flagged \/ Around(n) \cap flagged # {}

SilentSoFar == phase # "declare" => \A n \in Idents : n < next => Spoken(n)

SemaInv ==
  TypeOK /\ WellFormed /\ ScopesMatch /\ WalkOnTree /\ OneThing /\ BodiesUntouched /\ SilentSoFar
-----------------------------------------------------------------------------
(* The scopes the walk has opened.                                         *)
Opened(w) == {i \in 1..Len(w) : w[i].pushed}

LEMMA OpenedFinite ==
  ASSUME NEW w \in Seq(Frame) PROVE IsFiniteSet(Opened(w)) /\ Cardinality(Opened(w)) \in Nat
<1>1. IsFiniteSet(1..Len(w))
  BY LenProperties, FS_Interval
<1>2. Opened(w) \subseteq 1..Len(w)
  BY DEF Opened
<1> QED BY <1>1, <1>2, FS_Subset, FS_CardinalityType

LEMMA OpenedAppend ==
  ASSUME NEW w \in Seq(Frame), NEW f \in Frame
  PROVE  Cardinality(Opened(Append(w, f))) = Cardinality(Opened(w)) + IF f.pushed THEN 1 ELSE 0
<1> DEFINE v == Append(w, f)
           n == Len(w)
<1>1. n \in Nat /\ Len(v) = n + 1 /\ v[n + 1] = f /\ \A k \in 1..n : v[k] = w[k]
  BY LenProperties, Appended
<1> HIDE DEF v
<1>2. 1..n + 1 = (1..n) \cup {n + 1} /\ n + 1 \notin 1..n
  BY <1>1
<1>3. Opened(v) = Opened(w) \cup (IF f.pushed THEN {n + 1} ELSE {})
  BY <1>1, <1>2 DEF Opened
<1>4. n + 1 \notin Opened(w)
  BY <1>2 DEF Opened
<1>5. CASE f.pushed
  BY <1>3, <1>4, <1>5, OpenedFinite, FS_AddElement DEF v
<1>6. CASE ~f.pushed
  <2>1. Opened(v) = Opened(w)
    BY <1>3, <1>6
  <2> QED BY <1>6, <2>1, OpenedFinite DEF v
<1> QED BY <1>5, <1>6

LEMMA OpenedFront ==
  ASSUME NEW w \in Seq(Frame), w # <<>>
  PROVE  Cardinality(Opened(w)) =
           Cardinality(Opened(SubSeq(w, 1, Len(w) - 1))) + IF w[Len(w)].pushed THEN 1 ELSE 0
<1> DEFINE n == Len(w)
           v == SubSeq(w, 1, n - 1)
<1>1. n \in Nat /\ n # 0
  BY LenProperties, EmptySeq
<1>2. v \in Seq(Frame) /\ Len(v) = n - 1 /\ \A k \in 1..n - 1 : v[k] = w[k]
  <2>1. n - 1 \in 0..Len(w)
    BY <1>1
  <2> HIDE DEF n
  <2> QED BY <2>1, FrontOf
<1> HIDE DEF v
<1>3. 1..n = (1..n - 1) \cup {n} /\ n \notin 1..n - 1
  BY <1>1
<1>4. Opened(w) = Opened(v) \cup (IF w[n].pushed THEN {n} ELSE {})
  BY <1>2, <1>3 DEF Opened
<1>5. n \notin Opened(v)
  BY <1>2, <1>3 DEF Opened
<1>6. CASE w[n].pushed
  BY <1>2, <1>4, <1>5, <1>6, OpenedFinite, FS_AddElement DEF v
<1>7. CASE ~w[n].pushed
  <2>1. Opened(v) = Opened(w)
    BY <1>4, <1>7
  <2> QED BY <1>7, <2>1, OpenedFinite DEF v
<1> QED BY <1>6, <1>7
-----------------------------------------------------------------------------
(* Where the walk stands.                                                  *)
LEMMA NodeOK ==
  ASSUME WellFormed, NEW n \in 1..Len(tree)
  PROVE  /\ tree[n] \in Node /\ tree[n].size \in Nat \ {0} /\ Len(tree) \in Nat
         /\ Last(n) \in n..Len(tree)
<1>1. Len(tree) \in Nat /\ tree[n] \in Node /\ 1 \in 1..Len(tree)
  BY LenProperties, ElementOfSeq DEF WellFormed
<1>2. tree[n].size \in Nat \ {0}
  BY <1>1 DEF Node
<1>3. n \in 1..1 + tree[1].size - 1
  BY <1>1 DEF WellFormed
<1>4. n + tree[n].size <= 1 + tree[1].size
  BY <1>1, <1>3 DEF WellFormed
<1>5. tree[1].size = Len(tree)
  BY DEF WellFormed
<1> DEFINE s == tree[n].size
           z == tree[1].size
           l == Len(tree)
<1>6. n \in 1..l /\ l \in Nat /\ s \in Nat \ {0} /\ n + s <= 1 + z /\ z = l
  BY <1>1, <1>2, <1>4, <1>5
<1> HIDE DEF s, z, l
<1>7. n + s - 1 \in n..l
  BY <1>6
<1> QED BY <1>1, <1>2, <1>7 DEF Last, s, l

LEMMA TopOK ==
  ASSUME SemaInv, walk # <<>>
  PROVE  /\ Len(walk) \in Nat \ {0} /\ Top \in Frame /\ Top.node \in 1..Len(tree)
         /\ Top.pushed => OpensScope(Top.node) /\ Len(scopes) > 1
<1> DEFINE n == Len(walk)
<1>1. n \in Nat \ {0} /\ n \in 1..n /\ walk \in Seq(Frame)
  BY LenProperties, EmptySeq DEF SemaInv, TypeOK
<1>2. walk[n] \in Frame /\ Top = walk[n]
  BY <1>1, ElementOfSeq DEF Top
<1>3. Top.node \in 1..Len(tree) /\ (Top.pushed => OpensScope(Top.node))
  BY <1>1, <1>2 DEF SemaInv, WalkOnTree
<1>4. ASSUME Top.pushed PROVE Len(scopes) > 1
  <2>1. n \in Opened(walk)
    BY <1>1, <1>2, <1>4 DEF Opened
  <2>2. Cardinality(Opened(walk)) # 0
    BY <1>1, <2>1, OpenedFinite, FS_EmptySet
  <2>3. Len(scopes) = 1 + Cardinality(Opened(walk)) + Len(bodies) /\ Len(bodies) \in Nat
    BY LenProperties DEF SemaInv, TypeOK, ScopesMatch, Opened
  <2> QED BY <1>1, <2>2, <2>3, OpenedFinite
<1> QED BY <1>1, <1>2, <1>3, <1>4

LEMMA AtNodeOK ==
  ASSUME SemaInv, AtNode PROVE next \in 1..Len(tree) /\ Last(next) \in next..Len(tree)
<1>1. next \in 1..Len(tree) + 1 /\ WellFormed /\ Len(tree) \in Nat
  BY LenProperties DEF SemaInv, TypeOK
<1>2. next <= Len(tree)
  <2>1. CASE walk = <<>>
    BY <2>1 DEF AtNode
  <2>2. CASE walk # <<>>
    <3>1. next <= Last(Top.node) /\ Last(Top.node) \in Top.node..Len(tree)
      BY <1>1, <2>2, TopOK, NodeOK DEF AtNode
    <3>2. Top.node \in 1..Len(tree)
      BY <2>2, TopOK
    <3> QED BY <1>1, <3>1, <3>2
  <2> QED BY <2>1, <2>2
<1>3. next \in 1..Len(tree)
  BY <1>1, <1>2
<1> QED BY <1>1, <1>3, NodeOK

-----------------------------------------------------------------------------
(* What every activation that opens or ends does to the invariant.  The    *)
(* hypotheses say what its hook leaves of the rest.                        *)

\* What the hooks leave: a node stays spoken of.
HooksOK ==
  /\ scopes' \in Stack
  /\ types' \in [1..Len(tree) -> Types \cup {Unknown}]
  /\ flagged' \in SUBSET (1..Len(tree)) /\ flagged \subseteq flagged'
  /\ diags' \in SUBSET (Messages \X (1..Len(tree)))
  /\ \A n \in 1..Len(tree) : types[n] # Unknown => types'[n] # Unknown

LEMMA SpokenStays ==
  ASSUME HooksOK, tree' = tree, NEW n \in Idents, Spoken(n) PROVE Spoken(n)'
<1>1. n \in 1..Len(tree) /\ Around(n)' = Around(n)
  BY DEF Idents, Nodes, Around, Inside, Last
<1>2. CASE types[n] # Unknown
  BY <1>1, <1>2 DEF HooksOK, Spoken
<1>3. CASE n \in flagged \/ Around(n) \cap flagged # {}
  BY <1>1, <1>3 DEF HooksOK, Spoken
<1> QED BY <1>2, <1>3 DEF Spoken

LEMMA OpenOK ==
  ASSUME SemaInv, NEW pushed \in BOOLEAN, Open(pushed), HooksOK,
         pushed => OpensScope(next),
         Len(scopes') = Len(scopes) + IF pushed THEN 1 ELSE 0,
         phase = "declare" \/ tree[next].kind # "ident" \/ types'[next] # Unknown \/ next \in flagged'
  PROVE  SemaInv'
<1> DEFINE f == [node |-> next, pushed |-> pushed]
<1>1. /\ next \in 1..Len(tree) /\ Len(tree) \in Nat /\ next \in Nat
      /\ tree' = tree /\ phase' = phase /\ declares' = declares /\ mayFail' = mayFail
      /\ bodies' = bodies /\ next' = next + 1 /\ depth' = depth + 1 /\ walk' = Append(walk, f)
  BY AtNodeOK, LenProperties DEF Open, input, SemaInv, WellFormed
<1>2. f \in Frame /\ f.node = next /\ f.pushed = pushed /\ walk \in Seq(Frame) /\ Len(walk) \in Nat
  BY <1>1, LenProperties DEF Frame, SemaInv, TypeOK
<1> HIDE DEF f
<1>3. /\ walk' \in Seq(Frame) /\ Len(walk') = Len(walk) + 1
      /\ walk'[Len(walk) + 1] = f /\ \A k \in 1..Len(walk) : walk'[k] = walk[k]
  BY <1>1, <1>2, Appended
<1>4. TypeOK'
  <2>1. depth' \in 0..MaxDepth
    BY <1>1, ConstantsOK DEF Open, TooDeepHere, SemaInv, TypeOK
  <2>2. next' \in 1..Len(tree) + 1
    BY <1>1
  <2>3. scopes' \in Seq(Seq(Symbol)) /\ scopes' # <<>>
    BY DEF HooksOK, Stack, Scope
  <2> QED BY <1>1, <1>3, <2>1, <2>2, <2>3 DEF HooksOK, SemaInv, TypeOK
<1>5. WellFormed'
  BY <1>1 DEF SemaInv, WellFormed
<1>6. ScopesMatch'
  <2>1. Cardinality(Opened(walk')) = Cardinality(Opened(walk)) + IF pushed THEN 1 ELSE 0
    BY <1>1, <1>2, OpenedAppend
  <2>2. Len(scopes) = 1 + Cardinality(Opened(walk)) + Len(bodies) /\ depth = Len(walk)
    BY DEF SemaInv, ScopesMatch, Opened
  <2>3. Len(bodies) \in Nat /\ Cardinality(Opened(walk)) \in Nat
    BY <1>2, OpenedFinite, LenProperties DEF SemaInv, TypeOK
  <2>4. Len(scopes') = 1 + Cardinality(Opened(walk')) + Len(bodies')
    <3> DEFINE c == Cardinality(Opened(walk))
               b == Len(bodies)
               e == IF pushed THEN 1 ELSE 0
    <3>1. Len(scopes') = (1 + c + b) + e /\ Cardinality(Opened(walk')) = c + e /\ Len(bodies') = b
      BY <1>1, <2>1, <2>2
    <3>2. c \in Nat /\ b \in Nat /\ e \in Nat
      BY <2>3
    <3> HIDE DEF c, b, e
    <3> QED BY <3>1, <3>2
  <2> QED BY <1>1, <1>3, <2>2, <2>4 DEF ScopesMatch, Opened
<1>7. WalkOnTree'
  <2> SUFFICES ASSUME NEW i \in 1..Len(walk')
               PROVE  walk'[i].node \in 1..Len(tree') /\ (walk'[i].pushed => OpensScope(walk[i].node)')
    BY DEF WalkOnTree
  <2>1. /\ phase = "resolve" /\ tree[walk'[i].node].kind \in {"block", "branch"}
              => OpensScope(walk[i].node)'
        /\ tree' = tree
    BY <1>1 DEF OpensScope
  <2>2. CASE i = Len(walk) + 1
    <3>1. walk'[i].node = next /\ walk'[i].pushed = pushed
      BY <1>2, <1>3, <2>2
    <3>2. pushed => phase = "resolve" /\ tree[next].kind \in {"block", "branch"}
      BY DEF OpensScope
    <3> QED BY <1>1, <2>1, <3>1, <3>2
  <2>3. CASE i # Len(walk) + 1
    <3>1. i \in 1..Len(walk)
      BY <1>2, <1>3, <2>3
    <3>2. walk'[i] = walk[i]
      BY <1>3, <3>1
    <3>3. walk[i].node \in 1..Len(tree) /\ (walk[i].pushed => OpensScope(walk[i].node))
      BY <3>1 DEF SemaInv, WalkOnTree
    <3> QED BY <2>1, <3>2, <3>3 DEF OpensScope
  <2> QED BY <2>2, <2>3
<1>8. Walking /\ bodies = <<>>
  BY DEF Open, AtNode, Walking, SemaInv, OneThing
<1>9. OneThing' /\ BodiesUntouched'
  <2>1. phase' \notin {"check", "done"} /\ bodies' = <<>> /\ Len(bodies') = 0
    BY <1>1, <1>8 DEF Walking
  <2> QED BY <1>1, <1>8, <2>1 DEF OneThing, Walking, Resolved, BodiesUntouched
<1>10. SilentSoFar'
  <2> SUFFICES ASSUME phase' # "declare", NEW n \in Idents', n < next' PROVE Spoken(n)'
    BY DEF SilentSoFar
  <2>1. n \in Idents /\ n \in Nat /\ tree[n].kind = "ident"
    BY <1>1 DEF Idents, Nodes, IsKind
  <2>2. CASE n = next
    <3>1. types'[n] # Unknown \/ n \in flagged'
      BY <1>1, <2>1, <2>2
    <3> QED BY <3>1 DEF Spoken
  <2>3. CASE n < next
    <3>1. Spoken(n)
      BY <1>1, <2>1, <2>3 DEF SemaInv, SilentSoFar
    <3> QED BY <1>1, <2>1, <3>1, SpokenStays
  <2> QED BY <1>1, <2>1, <2>2, <2>3
<1> QED BY <1>4, <1>5, <1>6, <1>7, <1>9, <1>10 DEF SemaInv


LEMMA CloseOK ==
  ASSUME SemaInv, Close, HooksOK,
         Len(scopes') = Len(scopes) - IF Top.pushed THEN 1 ELSE 0
  PROVE  SemaInv'
<1> DEFINE n == Len(walk)
<1>1. /\ walk # <<>> /\ Walking /\ depth' = depth - 1 /\ walk' = SubSeq(walk, 1, n - 1)
      /\ tree' = tree /\ phase' = phase /\ declares' = declares /\ mayFail' = mayFail
      /\ bodies' = bodies /\ next' = next
  BY DEF Close, AtClose, input
<1>2. n \in Nat \ {0} /\ n - 1 \in 0..n /\ walk \in Seq(Frame) /\ Top = walk[n]
  BY <1>1, TopOK, SMTT(30) DEF Top, SemaInv, TypeOK
<1>3. walk' \in Seq(Frame) /\ Len(walk') = n - 1 /\ \A k \in 1..n - 1 : walk'[k] = walk[k]
  <2> HIDE DEF n
  <2> QED BY <1>1, <1>2, FrontOf DEF n
<1>4. TypeOK'
  <2>1. depth' \in 0..MaxDepth
    BY <1>1, <1>2, ConstantsOK DEF SemaInv, TypeOK, ScopesMatch
  <2>2. scopes' \in Seq(Seq(Symbol)) /\ scopes' # <<>>
    BY DEF HooksOK, Stack, Scope
  <2> QED BY <1>1, <1>3, <2>1, <2>2 DEF HooksOK, SemaInv, TypeOK
<1>5. WellFormed'
  BY <1>1 DEF SemaInv, WellFormed
<1>6. ScopesMatch'
  <2>1. Cardinality(Opened(walk)) = Cardinality(Opened(walk')) + IF Top.pushed THEN 1 ELSE 0
    BY <1>1, <1>2, OpenedFront
  <2>2. Len(scopes) = 1 + Cardinality(Opened(walk)) + Len(bodies) /\ depth = n
    BY DEF SemaInv, ScopesMatch, Opened
  <2>3. Len(bodies) \in Nat /\ Cardinality(Opened(walk')) \in Nat
    BY <1>3, OpenedFinite, LenProperties DEF SemaInv, TypeOK
  <2>4. Len(scopes') = 1 + Cardinality(Opened(walk')) + Len(bodies')
    <3> DEFINE c == Cardinality(Opened(walk'))
               b == Len(bodies)
               e == IF Top.pushed THEN 1 ELSE 0
    <3>1. Len(scopes') = (1 + (c + e) + b) - e /\ Len(bodies') = b
      BY <1>1, <2>1, <2>2
    <3>2. c \in Nat /\ b \in Nat /\ e \in Nat
      BY <2>3
    <3> DEFINE l == Len(scopes')
    <3> HIDE DEF c, b, e, l
    <3>3. l = 1 + c + b
      BY <3>1, <3>2 DEF l
    <3> QED BY <3>1, <3>3 DEF c, l
  <2> QED BY <1>1, <1>3, <2>2, <2>4 DEF ScopesMatch, Opened
<1>7. WalkOnTree'
  <2> SUFFICES ASSUME NEW i \in 1..Len(walk')
               PROVE  walk'[i].node \in 1..Len(tree') /\ (walk'[i].pushed => OpensScope(walk[i].node)')
    BY DEF WalkOnTree
  <2>1. i \in 1..n - 1 /\ i \in 1..Len(walk)
    BY <1>2, <1>3
  <2>2. walk'[i] = walk[i]
    BY <1>3, <2>1
  <2>3. walk[i].node \in 1..Len(tree) /\ (walk[i].pushed => OpensScope(walk[i].node))
    BY <2>1 DEF SemaInv, WalkOnTree
  <2> QED BY <1>1, <2>2, <2>3 DEF OpensScope
<1>8. bodies = <<>>
  BY <1>1 DEF Walking, SemaInv, OneThing
<1>9. OneThing' /\ BodiesUntouched'
  <2>1. phase' \notin {"check", "done"} /\ bodies' = <<>> /\ Len(bodies') = 0
    BY <1>1, <1>8 DEF Walking
  <2> QED BY <1>1, <1>8, <2>1 DEF OneThing, Walking, Resolved, BodiesUntouched
<1>10. SilentSoFar'
  <2> SUFFICES ASSUME phase' # "declare", NEW m \in Idents', m < next' PROVE Spoken(m)'
    BY DEF SilentSoFar
  <2>1. m \in Idents /\ m < next /\ phase # "declare"
    BY <1>1 DEF Idents, Nodes, IsKind
  <2>2. Spoken(m)
    BY <2>1 DEF SemaInv, SilentSoFar
  <2> QED BY <1>1, <2>1, <2>2, SpokenStays
<1> QED BY <1>4, <1>5, <1>6, <1>7, <1>9, <1>10 DEF SemaInv


LEMMA StackTyped == ASSUME SemaInv PROVE scopes \in Stack
BY DEF SemaInv, TypeOK, Stack, Scope

LEMMA SymbolOK ==
  ASSUME SemaInv, NEW n \in 1..Len(tree)
  PROVE  /\ [name |-> tree[n].name, type |-> tree[n].type] \in Symbol
         /\ <<[name |-> tree[n].name, type |-> tree[n].type]>> \in Seq(Entry)
<1>1. tree[n] \in Node
  BY NodeOK DEF SemaInv
<1>2. tree[n].name \in Names /\ tree[n].type \in Types
  BY <1>1 DEF Node
<1> DEFINE a == tree[n].name
           b == tree[n].type
<1> HIDE DEF a, b
<1>3. [name |-> a, type |-> b] \in Symbol /\ [name |-> a, type |-> b] \in Entry
  BY <1>2 DEF Symbol, Entry, a, b
<1> QED BY <1>3 DEF a, b

LEMMA FlagOK ==
  ASSUME SemaInv, NEW n \in 1..Len(tree), NEW failed, Flag(n, failed)
  PROVE  flagged' \in SUBSET (1..Len(tree)) /\ flagged \subseteq flagged'
BY DEF Flag, SemaInv, TypeOK

LEMMA ReportedOK ==
  ASSUME SemaInv, NEW n \in 1..Len(tree), NEW msg \in Messages, diags' \in Reported(msg, n)
  PROVE  diags' \in SUBSET (Messages \X (1..Len(tree)))
BY DEF Reported, SemaInv, TypeOK

LEMMA BindSymbolOK ==
  ASSUME SemaInv, NEW n \in 1..Len(tree), BindSymbol(n)
  PROVE  /\ scopes' \in Stack /\ Len(scopes') = Len(scopes)
         /\ flagged' \in SUBSET (1..Len(tree)) /\ flagged \subseteq flagged'
<1> DEFINE s == [name |-> tree[n].name, type |-> tree[n].type]
<1>1. PICK sc \in Bind(scopes, s) : scopes' = sc /\ Flag(n, sc = scopes)
  BY DEF BindSymbol
<1>2. s \in Symbol /\ scopes \in Stack
  BY SymbolOK, StackTyped
<1> HIDE DEF s
<1>3. OnTop(sc, scopes)
  BY <1>2, BindOK
<1> QED BY <1>1, <1>3, FlagOK DEF OnTop

\* An action that leaves the scopes, the types and the diagnostics alone.
LEMMA QuietOK ==
  ASSUME SemaInv, UNCHANGED <<scopes, types, diags>>,
         flagged' \in SUBSET (1..Len(tree)), flagged \subseteq flagged'
  PROVE  HooksOK /\ Len(scopes') = Len(scopes)
BY StackTyped DEF HooksOK, SemaInv, TypeOK

LEMMA BoundOK ==
  ASSUME SemaInv, UNCHANGED <<types, diags>>, scopes' \in Stack,
         flagged' \in SUBSET (1..Len(tree)), flagged \subseteq flagged'
  PROVE  HooksOK
BY DEF HooksOK, SemaInv, TypeOK

LEMMA OpenIsAtNode ==
  ASSUME SemaInv, NEW pushed, Open(pushed) PROVE next \in 1..Len(tree)
BY AtNodeOK DEF Open

LEMMA OpenSame ==
  ASSUME SemaInv, Open(FALSE), HooksOK, Len(scopes') = Len(scopes),
         phase = "declare" \/ tree[next].kind # "ident" \/ types'[next] # Unknown \/ next \in flagged'
  PROVE  SemaInv'
<1> DEFINE pushed == FALSE
<1>1. pushed \in BOOLEAN /\ ~pushed /\ Len(scopes) \in Nat
  BY StackTyped, StackLen
<1>2. Open(pushed)
  OBVIOUS
<1> HIDE DEF pushed
<1>3. Len(scopes') = Len(scopes) + IF pushed THEN 1 ELSE 0
  BY <1>1
<1> QED BY <1>1, <1>2, <1>3, OpenOK

LEMMA DeclareStep == ASSUME SemaInv, Declare PROVE SemaInv'
<1>1. Open(FALSE) /\ phase = "declare" /\ next \in 1..Len(tree) /\ UNCHANGED <<types, diags>>
  BY OpenIsAtNode DEF Declare
<1>2. Len(scopes) \in Nat
  BY StackTyped, StackLen
<1>3. HooksOK /\ Len(scopes') = Len(scopes)
  <2>1. CASE tree[next].kind = "fn"
    <3>1. BindSymbol(next)
      BY <2>1 DEF Declare
    <3>2. /\ scopes' \in Stack /\ Len(scopes') = Len(scopes)
          /\ flagged' \in SUBSET (1..Len(tree)) /\ flagged \subseteq flagged'
      BY <1>1, <3>1, BindSymbolOK
    <3> QED BY <1>1, <3>2, BoundOK
  <2>2. CASE tree[next].kind # "fn"
    <3>1. UNCHANGED <<scopes, flagged>>
      BY <2>2 DEF Declare
    <3>2. flagged' \in SUBSET (1..Len(tree)) /\ flagged \subseteq flagged'
      BY <3>1 DEF SemaInv, TypeOK
    <3> QED BY <1>1, <3>1, <3>2, QuietOK
  <2> QED BY <2>1, <2>2
<1> QED BY <1>1, <1>3, OpenSame

LEMMA PlainStep == ASSUME SemaInv, ResolvePlain PROVE SemaInv'
<1>1. /\ Open(FALSE) /\ next \in 1..Len(tree) /\ UNCHANGED <<scopes, types, flagged, diags>>
      /\ tree[next].kind # "ident"
  BY OpenIsAtNode DEF ResolvePlain
<1>2. Len(scopes) \in Nat /\ flagged' \in SUBSET (1..Len(tree)) /\ flagged \subseteq flagged'
  BY <1>1, StackTyped, StackLen DEF SemaInv, TypeOK
<1>3. HooksOK /\ Len(scopes') = Len(scopes)
  BY <1>1, <1>2, QuietOK
<1> QED BY <1>1, <1>3, OpenSame

LEMMA LetStep == ASSUME SemaInv, ResolveLet PROVE SemaInv'
<1>1. /\ Open(FALSE) /\ next \in 1..Len(tree) /\ UNCHANGED <<types, diags>>
      /\ tree[next].kind # "ident" /\ BindSymbol(next)
  BY OpenIsAtNode DEF ResolveLet
<1>2. /\ scopes' \in Stack /\ Len(scopes') = Len(scopes)
      /\ flagged' \in SUBSET (1..Len(tree)) /\ flagged \subseteq flagged'
  BY <1>1, BindSymbolOK
<1>3. HooksOK
  BY <1>1, <1>2, BoundOK
<1> QED BY <1>1, <1>2, <1>3, OpenSame

LEMMA BlockStep == ASSUME SemaInv, ResolveBlock PROVE SemaInv'
<1>1. PICK sc \in PushScope(scopes) : Open(sc # scopes) /\ scopes' = sc /\ Flag(next, sc = scopes)
  BY DEF ResolveBlock
<1>2. /\ next \in 1..Len(tree) /\ UNCHANGED <<types, diags>>
      /\ phase = "resolve" /\ tree[next].kind = "block"
  BY AtNodeOK DEF ResolveBlock
<1>3. scopes' \in Stack /\ Len(scopes') = Len(scopes) + IF sc # scopes THEN 1 ELSE 0
  BY <1>1, StackTyped, StackLen, PushScopeOK
<1>4. HooksOK
  BY <1>1, <1>2, <1>3, FlagOK, BoundOK
<1>5. OpensScope(next) /\ tree[next].kind # "ident" /\ (sc # scopes) \in BOOLEAN
  BY <1>2 DEF OpensScope
<1> QED BY <1>1, <1>3, <1>4, <1>5, OpenOK

LEMMA BranchStep == ASSUME SemaInv, ResolveBranch PROVE SemaInv'
<1> DEFINE s == [name |-> tree[next].name, type |-> tree[next].type]
<1>1. PICK sc \in PushScope(scopes) :
        /\ Open(sc # scopes)
        /\ \E after \in IF sc = scopes THEN {sc} ELSE Bind(sc, s) :
             scopes' = after /\ Flag(next, after = sc)
  BY DEF ResolveBranch
<1>2. PICK after \in IF sc = scopes THEN {sc} ELSE Bind(sc, s) :
        scopes' = after /\ Flag(next, after = sc)
  BY <1>1
<1>3. /\ next \in 1..Len(tree) /\ UNCHANGED <<types, diags>>
      /\ phase = "resolve" /\ tree[next].kind = "branch"
  BY AtNodeOK DEF ResolveBranch
<1>4. s \in Symbol
  BY <1>3, SymbolOK
<1> HIDE DEF s
<1>5. scopes' \in Stack /\ Len(scopes') = Len(scopes) + IF sc # scopes THEN 1 ELSE 0
  <2>1. CASE sc = scopes
    BY <1>2, <2>1, StackTyped, StackLen
  <2>2. CASE sc # scopes
    <3>1. sc \in Stack /\ Len(sc) = Len(scopes) + 1
      BY <2>2, StackTyped, PushScopeOK
    <3>2. OnTop(after, sc)
      BY <1>2, <1>4, <2>2, <3>1, BindOK
    <3> QED BY <1>2, <2>2, <3>1, <3>2 DEF OnTop
  <2> QED BY <2>1, <2>2
<1>6. HooksOK
  BY <1>2, <1>3, <1>5, FlagOK, BoundOK
<1>7. OpensScope(next) /\ tree[next].kind # "ident" /\ (sc # scopes) \in BOOLEAN
  BY <1>3 DEF OpensScope
<1> QED BY <1>1, <1>5, <1>6, <1>7, OpenOK

LEMMA IdentStep == ASSUME SemaInv, ResolveIdent PROVE SemaInv'
<1> DEFINE type == LookupType(scopes, tree[next].name)
           msg  == "undefined symbol"
<1>1. /\ Open(FALSE) /\ next \in 1..Len(tree) /\ UNCHANGED scopes
      /\ IF type # Unknown
         THEN types' = [types EXCEPT ![next] = type] /\ UNCHANGED <<flagged, diags>>
         ELSE /\ Flag(next, TRUE) /\ diags' \in Reported(msg, next)
              /\ UNCHANGED types
  BY OpenIsAtNode, Zenon DEF ResolveIdent
<1>2. type \in Types \cup {Unknown} /\ scopes \in Stack
  BY StackTyped, LookupTypeOK
<1>3. msg \in Messages
  BY Zenon DEF Messages
<1> HIDE DEF type, msg
<1>4. types \in [1..Len(tree) -> Types \cup {Unknown}]
  BY DEF SemaInv, TypeOK
<1>5. HooksOK /\ (types'[next] # Unknown \/ next \in flagged')
  <2>1. CASE type # Unknown
    <3>1. types' = [types EXCEPT ![next] = type] /\ UNCHANGED <<flagged, diags>>
      BY <1>1, <2>1
    <3>2. /\ types' \in [1..Len(tree) -> Types \cup {Unknown}] /\ types'[next] # Unknown
          /\ \A n \in 1..Len(tree) : types[n] # Unknown => types'[n] # Unknown
      BY <1>1, <1>2, <1>4, <2>1, <3>1
    <3> QED BY <1>1, <1>2, <3>1, <3>2 DEF HooksOK, SemaInv, TypeOK
  <2>2. CASE type = Unknown
    <3>1. Flag(next, TRUE) /\ diags' \in Reported(msg, next) /\ UNCHANGED types
      BY <1>1, <2>2
    <3>2. /\ flagged' \in SUBSET (1..Len(tree)) /\ flagged \subseteq flagged' /\ next \in flagged'
      BY <1>1, <3>1, FlagOK DEF Flag
    <3>3. diags' \in SUBSET (Messages \X (1..Len(tree)))
      BY <1>1, <1>3, <3>1, ReportedOK
    <3> QED BY <1>1, <1>2, <1>4, <3>1, <3>2, <3>3 DEF HooksOK
  <2> QED BY <2>1, <2>2
<1> QED BY <1>1, <1>5, OpenSame


LEMMA TooDeepStep == ASSUME SemaInv, TooDeep PROVE SemaInv'
<1> DEFINE msg == "AST nesting too deep"
<1>1. /\ UNCHANGED <<input, phase, walk, depth, scopes, types, bodies>>
      /\ diags' \in Reported(msg, next)
  BY Zenon DEF TooDeep
<1>2. msg \in Messages
  BY Zenon DEF Messages
<1> HIDE DEF msg
<1>3. /\ AtNode /\ next \in 1..Len(tree) /\ Last(next) \in next..Len(tree) /\ Len(tree) \in Nat
      /\ flagged' = flagged \cup {next} /\ next' = Last(next) + 1
  BY AtNodeOK, LenProperties, Zenon DEF TooDeep, Flag, SemaInv, WellFormed
<1>4. diags' \in SUBSET (Messages \X (1..Len(tree)))
  BY <1>1, <1>2, <1>3, ReportedOK
<1>5. /\ tree' = tree /\ declares' = declares /\ mayFail' = mayFail
      /\ phase' = phase /\ walk' = walk /\ depth' = depth /\ scopes' = scopes /\ types' = types
      /\ bodies' = bodies
  BY <1>1 DEF input
<1>6. /\ next' \in 1..Len(tree) + 1 /\ flagged' \subseteq 1..Len(tree)
  BY <1>3 DEF SemaInv, TypeOK
<1>7. TypeOK'
  BY <1>4, <1>5, <1>6 DEF SemaInv, TypeOK
<1>8. WellFormed' /\ ScopesMatch' /\ BodiesUntouched'
  BY <1>5 DEF SemaInv, WellFormed, ScopesMatch, BodiesUntouched
<1>9. WalkOnTree'
  BY <1>5 DEF SemaInv, WalkOnTree, OpensScope
<1>10. OneThing'
  <2>1. phase \notin {"check", "done"} /\ Walking
    BY <1>3 DEF AtNode, Walking
  <2> QED BY <1>5, <2>1 DEF OneThing, SemaInv, Walking, Resolved
<1>11. SilentSoFar'
  <2> SUFFICES ASSUME phase' # "declare", NEW n \in Idents', n < next' PROVE Spoken(n)'
    BY DEF SilentSoFar
  <2>1. n \in Idents /\ n \in 1..Len(tree) /\ Around(n)' = Around(n)
    BY <1>5 DEF Idents, Nodes, IsKind, Around, Inside, Last
  <2>2. CASE n < next
    <3>1. Spoken(n)
      BY <1>5, <2>1, <2>2 DEF SemaInv, SilentSoFar
    <3> QED BY <1>3, <1>5, <2>1, <3>1 DEF Spoken
  <2>3. CASE n = next
    BY <1>3, <2>3 DEF Spoken
  <2>4. CASE n > next
    <3>1. next \in Around(n)
      BY <1>3, <2>1, <2>4 DEF Around, Inside, Nodes
    <3> QED BY <1>3, <2>1, <3>1 DEF Spoken
  <2> QED BY <1>3, <2>1, <2>2, <2>3, <2>4
<1> QED BY <1>7, <1>8, <1>9, <1>10, <1>11 DEF SemaInv

LEMMA CloseSame ==
  ASSUME SemaInv, Close, HooksOK, Len(scopes') = Len(scopes), ~OpensScope(Top.node)
  PROVE  SemaInv'
<1>1. ~Top.pushed
  BY TopOK DEF Close, AtClose
<1>2. Len(scopes') = Len(scopes) - IF Top.pushed THEN 1 ELSE 0
  BY <1>1, StackTyped, StackLen
<1> QED BY <1>2, CloseOK

LEMMA CloseQuietSteps == ASSUME SemaInv, CloseDeclare \/ ClosePlain PROVE SemaInv'
<1>1. Close /\ UNCHANGED <<scopes, types, flagged>>
  BY DEF CloseDeclare, ClosePlain
<1>2. ~OpensScope(Top.node)
  BY DEF CloseDeclare, ClosePlain, OpensScope
<1>3. HooksOK /\ Len(scopes') = Len(scopes)
  <2>1. UNCHANGED diags
    BY <1>1 DEF Close
  <2>2. flagged' \in SUBSET (1..Len(tree)) /\ flagged \subseteq flagged'
    BY <1>1 DEF SemaInv, TypeOK
  <2> QED BY <1>1, <2>1, <2>2, QuietOK
<1> QED BY <1>1, <1>2, <1>3, CloseSame

LEMMA CloseBlockStep == ASSUME SemaInv, CloseBlock PROVE SemaInv'
<1>1. Close /\ scopes' = AfterBlock /\ UNCHANGED <<types, flagged, diags>> /\ walk # <<>>
  BY DEF CloseBlock, Close, AtClose
<1>2. scopes' \in Stack /\ Len(scopes') = Len(scopes) - IF Top.pushed THEN 1 ELSE 0
  BY <1>1, TopOK, StackTyped, StackLen, PopScopeOK DEF AfterBlock
<1>3. HooksOK
  BY <1>1, <1>2, BoundOK DEF SemaInv, TypeOK
<1> QED BY <1>1, <1>2, <1>3, CloseOK

LEMMA CloseGuardStep == ASSUME SemaInv, CloseGuard PROVE SemaInv'
<1> DEFINE list == <<[name |-> tree[Top.node].name, type |-> tree[Top.node].type]>>
<1>1. PICK e \in EarlyExit(list) : scopes' = e.scopes /\ Flag(Top.node, ~e.all)
  BY DEF CloseGuard
<1>2. /\ Close /\ UNCHANGED <<types, diags>> /\ walk # <<>>
      /\ tree[Top.node].kind = "guard"
  BY DEF CloseGuard, Close, AtClose
<1>3. Top.node \in 1..Len(tree) /\ ~OpensScope(Top.node)
  BY <1>2, TopOK DEF OpensScope
<1>4. list \in Seq(Entry)
  BY <1>3, SymbolOK
<1> HIDE DEF list
<1>5. OnTop(scopes', scopes)
  BY <1>1, <1>4, StackTyped, EarlyExitOK
<1>6. HooksOK
  BY <1>1, <1>2, <1>3, <1>5, FlagOK, BoundOK DEF OnTop
<1> QED BY <1>2, <1>3, <1>5, <1>6, CloseSame DEF OnTop

LEMMA CloseGroupStep == ASSUME SemaInv, CloseGroup PROVE SemaInv'
<1> DEFINE n == Top.node
<1>1. /\ Close /\ UNCHANGED <<scopes, flagged, diags>> /\ walk # <<>> /\ tree[n].kind = "group"
      /\ types' = IF tree[n].size > 1 /\ types[n + 1] # Unknown
                  THEN [types EXCEPT ![n] = types[n + 1]] ELSE types
  BY DEF CloseGroup, Close, AtClose
<1>2. n \in 1..Len(tree) /\ ~OpensScope(n) /\ Last(n) \in n..Len(tree) /\ tree[n].size \in Nat
      /\ Len(tree) \in Nat
  BY <1>1, TopOK, NodeOK DEF OpensScope, SemaInv
<1> HIDE DEF n
<1>3. types \in [1..Len(tree) -> Types \cup {Unknown}]
  BY DEF SemaInv, TypeOK
<1>4. /\ types' \in [1..Len(tree) -> Types \cup {Unknown}]
      /\ \A m \in 1..Len(tree) : types[m] # Unknown => types'[m] # Unknown
  <2>1. CASE tree[n].size > 1 /\ types[n + 1] # Unknown
    <3>1. n + 1 \in 1..Len(tree)
      BY <1>2, <2>1 DEF Last
    <3>2. types[n + 1] \in Types \cup {Unknown} /\ types' = [types EXCEPT ![n] = types[n + 1]]
      BY <1>1, <1>3, <2>1, <3>1
    <3> DEFINE ty == types[n + 1]
    <3>3. ty # Unknown /\ ty \in Types \cup {Unknown} /\ types' = [types EXCEPT ![n] = ty]
      BY <2>1, <3>2
    <3> HIDE DEF ty
    <3> QED BY <1>2, <1>3, <3>3
  <2>2. CASE ~(tree[n].size > 1 /\ types[n + 1] # Unknown)
    BY <1>1, <1>3, <2>2
  <2> QED BY <2>1, <2>2
<1>5. HooksOK /\ Len(scopes') = Len(scopes)
  BY <1>1, <1>4, StackTyped DEF HooksOK, SemaInv, TypeOK
<1> QED BY <1>1, <1>2, <1>5, CloseSame DEF n

LEMMA EndWalkStep == ASSUME SemaInv, EndWalk PROVE SemaInv'
<1>1. /\ Walking /\ walk = <<>> /\ next > Len(tree) /\ depth' = 0
      /\ tree' = tree /\ declares' = declares /\ mayFail' = mayFail
      /\ walk' = walk /\ scopes' = scopes /\ types' = types /\ flagged' = flagged
      /\ diags' = diags /\ bodies' = bodies
      /\ \/ phase = "declare" /\ phase' = "resolve" /\ next' = 1
         \/ phase # "declare" /\ phase' \in {"check", "done"} /\ next' = next
  BY DEF EndWalk, input
<1>2. /\ next = Len(tree) + 1 /\ Len(tree) \in Nat /\ 1 \in 1..Len(tree) + 1 /\ Len(walk) = 0
      /\ phase \in {"declare", "resolve"} /\ bodies = <<>> /\ Len(bodies) = 0
  BY <1>1, LenProperties DEF SemaInv, WellFormed, TypeOK, OneThing, Walking
<1>3. TypeOK'
  <2>1. phase' \in Phases /\ next' \in 1..Len(tree) + 1 /\ depth' \in 0..MaxDepth
    BY <1>1, <1>2, ConstantsOK DEF Phases
  <2> QED BY <1>1, <2>1 DEF SemaInv, TypeOK
<1>4. WellFormed' /\ BodiesUntouched'
  BY <1>1, <1>2 DEF SemaInv, WellFormed, BodiesUntouched
<1>5. ScopesMatch'
  BY <1>1, <1>2 DEF SemaInv, ScopesMatch
<1>6. WalkOnTree'
  BY <1>1, <1>2 DEF WalkOnTree
<1>7. OneThing'
  BY <1>1, <1>2 DEF OneThing, Walking, Resolved
<1>8. SilentSoFar'
  <2> SUFFICES ASSUME phase' # "declare", NEW n \in Idents', n < next' PROVE Spoken(n)'
    BY DEF SilentSoFar
  <2>1. n \in Idents /\ n \in 1..Len(tree) /\ Around(n)' = Around(n)
    BY <1>1 DEF Idents, Nodes, IsKind, Around, Inside, Last
  <2>2. phase # "declare" /\ n < next
    BY <1>1, <1>2, <2>1
  <2>3. Spoken(n)
    BY <2>1, <2>2 DEF SemaInv, SilentSoFar
  <2> QED BY <1>1, <2>1, <2>3 DEF Spoken
<1> QED BY <1>3, <1>4, <1>5, <1>6, <1>7, <1>8 DEF SemaInv

-----------------------------------------------------------------------------
(* The narrowing helpers after the walks.                                  *)
LEMMA CheckScopes ==
  ASSUME SemaInv, phase = "check"
  PROVE  /\ walk = <<>> /\ Len(bodies) \in Nat /\ Len(scopes) = Len(bodies) + 1
         /\ scopes \in Stack /\ bodies \in Seq(Body)
<1>1. walk = <<>> /\ bodies \in Seq(Body) /\ Len(bodies) \in Nat
  BY LenProperties DEF SemaInv, OneThing, Walking, TypeOK
<1>2. Opened(walk) = {} /\ Cardinality(Opened(walk)) = 0
  BY <1>1, FS_EmptySet DEF Opened
<1>3. Len(scopes) = 1 + 0 + Len(bodies)
  BY <1>2 DEF SemaInv, ScopesMatch, Opened
<1> QED BY <1>1, <1>3, StackTyped

LEMMA CheckOK ==
  ASSUME SemaInv, phase = "check", UNCHANGED walkDone,
         scopes' \in Stack, bodies' \in Seq(Body), Len(scopes') = Len(bodies') + 1,
         BodiesUntouched'
  PROVE  SemaInv'
<1>1. /\ tree' = tree /\ declares' = declares /\ mayFail' = mayFail /\ phase' = phase
      /\ next' = next /\ walk' = walk /\ depth' = depth /\ types' = types
      /\ flagged' = flagged /\ diags' = diags
  BY DEF walkDone, input
<1>2. TypeOK'
  BY <1>1 DEF SemaInv, TypeOK, Stack, Scope
<1>3. WellFormed'
  BY <1>1 DEF SemaInv, WellFormed
<1>4. walk = <<>> /\ depth = Len(walk) /\ Len(bodies') \in Nat
  BY CheckScopes, LenProperties DEF SemaInv, ScopesMatch
<1>5. ScopesMatch'
  <2>1. Opened(walk') = {} /\ Cardinality(Opened(walk')) = 0
    BY <1>1, <1>4, FS_EmptySet DEF Opened
  <2>2. Len(scopes') = 1 + Cardinality(Opened(walk')) + Len(bodies')
    BY <1>4, <2>1
  <2> QED BY <1>1, <1>4, <2>2 DEF ScopesMatch, Opened
<1>6. WalkOnTree' /\ OneThing'
  BY <1>1, <1>4 DEF SemaInv, WalkOnTree, OpensScope, OneThing, Walking, Resolved
<1>7. SilentSoFar'
  BY <1>1 DEF SemaInv, SilentSoFar, Spoken, Idents, Nodes, IsKind, Around, Inside, Last
<1> QED BY <1>2, <1>3, <1>5, <1>6, <1>7 DEF SemaInv

\* Scopes over which bodies run agree with what they saved below the current one.
LEMMA BodiesStay ==
  ASSUME SemaInv, phase = "check", NEW sc \in Stack,
         \A k \in 1..Len(bodies) : sc[k] = scopes[k],
         scopes' = sc, bodies' = bodies
  PROVE  BodiesUntouched'
<1>1. Len(bodies) \in Nat
  BY CheckScopes
<1> SUFFICES ASSUME NEW i \in 1..Len(bodies), NEW k \in 1..i
             PROVE  Len(bodies[i].saved) = i /\ bodies[i].saved[k] = sc[k]
  BY DEF BodiesUntouched
<1>2. Len(bodies[i].saved) = i /\ bodies[i].saved[k] = scopes[k]
  BY DEF SemaInv, BodiesUntouched
<1>3. k \in 1..Len(bodies)
  BY <1>1
<1> QED BY <1>2, <1>3

LEMMA BeginBodyStep == ASSUME SemaInv, BeginBody PROVE SemaInv'
<1> DEFINE Begins(list, sc, e) ==
             IF e.all
             THEN scopes' = e.scopes /\ bodies' = Append(bodies, [saved |-> scopes, list |-> list])
             ELSE scopes' = AfterFailure(e.scopes) /\ UNCHANGED bodies
<1>0. PICK list \in Narrowings, sc \in PushScope(scopes) \ {scopes} :
        \E e \in ApplyNarrowings(sc, list) : Begins(list, sc, e)
  BY DEF BeginBody
<1>1. PICK e \in ApplyNarrowings(sc, list) : Begins(list, sc, e)
  BY <1>0
<1>2. phase = "check" /\ UNCHANGED walkDone
  BY DEF BeginBody
<1> DEFINE n == Len(bodies)
<1>3. n \in Nat /\ Len(scopes) = n + 1 /\ scopes \in Stack /\ bodies \in Seq(Body)
  BY <1>2, CheckScopes
<1>4. sc \in Stack /\ Len(sc) = n + 2 /\ \A k \in 1..n + 1 : sc[k] = scopes[k]
  BY <1>3, PushScopeOK
<1>5. list \in Seq(Entry)
  BY ConstantsOK DEF Entry
<1>6. /\ e.scopes \in Stack /\ Len(e.scopes) = n + 2
      /\ \A k \in 1..n + 1 : e.scopes[k] = scopes[k]
  <2>1. OnTop(e.scopes, sc)
    BY <1>4, <1>5, ApplyOK
  <2>2. \A k \in 1..n + 1 : k \in 1..Len(sc) - 1
    BY <1>3, <1>4
  <2> QED BY <1>4, <2>1, <2>2 DEF OnTop
<1>7. CASE e.all
  <2> DEFINE b == [saved |-> scopes, list |-> list]
  <2>1. b \in Body /\ b.saved = scopes
    BY <1>3 DEF Body, Stack, Scope
  <2> HIDE DEF b
  <2>2. scopes' = e.scopes /\ bodies' = Append(bodies, b)
    BY <1>1, <1>7 DEF b
  <2>3. /\ bodies' \in Seq(Body) /\ Len(bodies') = n + 1
        /\ bodies'[n + 1] = b /\ \A k \in 1..n : bodies'[k] = bodies[k]
    BY <1>3, <2>1, <2>2, Appended
  <2>4. BodiesUntouched'
    <3> SUFFICES ASSUME NEW i \in 1..Len(bodies'), NEW k \in 1..i
                 PROVE  Len(bodies'[i].saved) = i /\ bodies'[i].saved[k] = scopes'[k]
      BY DEF BodiesUntouched
    <3>1. k \in 1..n + 1 /\ (i = n + 1 \/ i \in 1..n)
      BY <1>3, <2>3
    <3>2. e.scopes[k] = scopes[k]
      BY <1>6, <3>1
    <3>3. CASE i = n + 1
      BY <1>3, <2>1, <2>2, <2>3, <3>2, <3>3
    <3>4. CASE i \in 1..n
      <4>1. bodies'[i] = bodies[i]
        BY <2>3, <3>4
      <4>2. Len(bodies[i].saved) = i /\ bodies[i].saved[k] = scopes[k]
        BY <3>4 DEF SemaInv, BodiesUntouched
      <4> QED BY <2>2, <3>2, <4>1, <4>2
    <3> QED BY <3>1, <3>3, <3>4
  <2>5. Len(scopes') = Len(bodies') + 1 /\ scopes' \in Stack
    BY <1>3, <1>6, <2>2, <2>3
  <2> QED BY <1>2, <2>3, <2>4, <2>5, CheckOK
<1>8. CASE ~e.all
  <2>1. scopes' = PopScope(e.scopes) /\ bodies' = bodies
    BY <1>1, <1>8 DEF AfterFailure
  <2>2. /\ PopScope(e.scopes) \in Stack /\ Len(PopScope(e.scopes)) = n + 1
        /\ \A k \in 1..n + 1 : PopScope(e.scopes)[k] = scopes[k]
    <3>1. Len(e.scopes) > 1 /\ Len(e.scopes) - 1 = n + 1
      BY <1>3, <1>6
    <3> QED BY <1>6, <3>1, PopScopeOK
  <2>3. \A k \in 1..n : PopScope(e.scopes)[k] = scopes[k]
    BY <1>3, <2>2
  <2>4. BodiesUntouched'
    BY <1>2, <2>1, <2>2, <2>3, BodiesStay
  <2> QED BY <1>2, <1>3, <2>1, <2>2, <2>4, CheckOK
<1> QED BY <1>7, <1>8

LEMMA EndBodyStep == ASSUME SemaInv, EndBody PROVE SemaInv'
<1> DEFINE n == Len(bodies)
<1>1. /\ phase = "check" /\ bodies # <<>> /\ scopes' = PopScope(scopes)
      /\ bodies' = SubSeq(bodies, 1, n - 1) /\ UNCHANGED walkDone
  BY DEF EndBody
<1>2. n \in Nat /\ Len(scopes) = n + 1 /\ scopes \in Stack /\ bodies \in Seq(Body)
  BY <1>1, CheckScopes
<1>3. n # 0 /\ n - 1 \in 0..Len(bodies) /\ Len(scopes) > 1
  BY <1>1, <1>2, EmptySeq
<1>4. /\ bodies' \in Seq(Body) /\ Len(bodies') = n - 1
      /\ \A k \in 1..n - 1 : bodies'[k] = bodies[k]
  <2> HIDE DEF n
  <2> QED BY <1>1, <1>2, <1>3, FrontOf
<1>5. scopes' \in Stack /\ Len(scopes') = n /\ \A k \in 1..n : scopes'[k] = scopes[k]
  BY <1>1, <1>2, <1>3, PopScopeOK, SMTT(30)
<1>6. BodiesUntouched'
  <2> SUFFICES ASSUME NEW i \in 1..Len(bodies'), NEW k \in 1..i
               PROVE  Len(bodies'[i].saved) = i /\ bodies'[i].saved[k] = scopes'[k]
    BY DEF BodiesUntouched
  <2>1. i \in 1..n - 1 /\ i \in 1..n /\ k \in 1..n
    BY <1>2, <1>4
  <2>2. Len(bodies[i].saved) = i /\ bodies[i].saved[k] = scopes[k]
    BY <2>1 DEF SemaInv, BodiesUntouched
  <2> QED BY <1>4, <1>5, <2>1, <2>2
<1>7. Len(scopes') = Len(bodies') + 1
  BY <1>2, <1>4, <1>5
<1> QED BY <1>1, <1>4, <1>5, <1>6, <1>7, CheckOK

LEMMA NarrowAfterStep == ASSUME SemaInv, NarrowAfter PROVE SemaInv'
<1>1. PICK list \in Narrowings : \E e \in EarlyExit(list) : scopes' = e.scopes
  BY DEF NarrowAfter
<1>2. PICK e \in EarlyExit(list) : scopes' = e.scopes
  BY <1>1
<1>3. phase = "check" /\ UNCHANGED walkDone /\ bodies' = bodies
  BY DEF NarrowAfter
<1>4. Len(bodies) \in Nat /\ Len(scopes) = Len(bodies) + 1 /\ scopes \in Stack /\ bodies \in Seq(Body)
  BY <1>3, CheckScopes
<1>5. OnTop(scopes', scopes)
  <2>1. list \in Seq(Entry)
    BY ConstantsOK DEF Entry
  <2> QED BY <1>2, <1>4, <2>1, EarlyExitOK
<1>6. scopes' \in Stack /\ \A k \in 1..Len(bodies) : scopes'[k] = scopes[k]
  BY <1>4, <1>5 DEF OnTop
<1>7. BodiesUntouched'
  BY <1>3, <1>6, BodiesStay
<1> QED BY <1>3, <1>4, <1>5, <1>7, CheckOK DEF OnTop

LEMMA ReturnStep == ASSUME SemaInv, Return PROVE SemaInv'
<1>1. /\ phase = "check" /\ phase' = "done" /\ bodies = <<>>
      /\ tree' = tree /\ declares' = declares /\ mayFail' = mayFail
      /\ next' = next /\ walk' = walk /\ depth' = depth /\ scopes' = scopes /\ types' = types
      /\ flagged' = flagged /\ diags' = diags /\ bodies' = bodies
  BY DEF Return, input
<1>2. TypeOK'
  BY <1>1 DEF SemaInv, TypeOK, Phases
<1>3. WellFormed' /\ ScopesMatch' /\ BodiesUntouched'
  BY <1>1 DEF SemaInv, WellFormed, ScopesMatch, BodiesUntouched
<1>4. WalkOnTree' /\ OneThing'
  BY <1>1, CheckScopes DEF SemaInv, WalkOnTree, OneThing, Walking, Resolved
<1>5. SilentSoFar'
  BY <1>1 DEF SemaInv, SilentSoFar, Spoken, Idents, Nodes, IsKind, Around, Inside, Last
<1> QED BY <1>2, <1>3, <1>4, <1>5 DEF SemaInv

LEMMA StutterStep == ASSUME SemaInv, UNCHANGED vars PROVE SemaInv'
<1>1. /\ phase' = phase /\ tree' = tree /\ declares' = declares /\ mayFail' = mayFail
      /\ next' = next /\ walk' = walk /\ depth' = depth /\ scopes' = scopes /\ types' = types
      /\ flagged' = flagged /\ diags' = diags /\ bodies' = bodies
  BY DEF vars
<1>2. TypeOK' /\ WellFormed' /\ ScopesMatch' /\ BodiesUntouched'
  BY <1>1 DEF SemaInv, TypeOK, WellFormed, ScopesMatch, BodiesUntouched
<1>3. WalkOnTree' /\ OneThing'
  BY <1>1 DEF SemaInv, WalkOnTree, OpensScope, OneThing, Walking, Resolved
<1>4. SilentSoFar'
  BY <1>1 DEF SemaInv, SilentSoFar, Spoken, Idents, Nodes, IsKind, Around, Inside, Last
<1> QED BY <1>2, <1>3, <1>4 DEF SemaInv

-----------------------------------------------------------------------------
LEMMA SemaStarts == Init => SemaInv
<1> SUFFICES ASSUME Init PROVE SemaInv
  OBVIOUS
<1>1. /\ phase \in {"declare", "resolve"} /\ next = 1 /\ walk = <<>> /\ depth = 0
      /\ declares \in BOOLEAN /\ mayFail \in BOOLEAN
      /\ types = [n \in 1..Len(tree) |-> Unknown]
      /\ flagged = {} /\ diags = {} /\ bodies = <<>> /\ scopes = << <<>> >>
  BY DEF Init
<1>2. tree \in Trees \cup FailingTrees
  BY DEF Init
<1>3. WellFormed
  BY <1>2, ConstantsOK DEF WellFormed
<1>4. Len(tree) \in Nat /\ 1 \in 1..Len(tree) + 1
  BY <1>3, LenProperties DEF WellFormed
<1>5. scopes \in Seq(Seq(Symbol)) /\ scopes # <<>> /\ Len(scopes) = 1
  BY <1>1
<1>6. TypeOK
  <2>1. phase \in Phases /\ depth \in 0..MaxDepth
    BY <1>1, ConstantsOK DEF Phases
  <2>2. types \in [1..Len(tree) -> Types \cup {Unknown}]
    BY <1>1
  <2>3. walk \in Seq(Frame) /\ bodies \in Seq(Body)
    BY <1>1
  <2> QED BY <1>1, <1>3, <1>4, <1>5, <2>1, <2>2, <2>3 DEF TypeOK, WellFormed
<1>7. ScopesMatch
  <2>1. Len(walk) = 0 /\ Len(bodies) = 0 /\ {i \in 1..Len(walk) : walk[i].pushed} = {}
    BY <1>1
  <2> QED BY <1>1, <1>5, <2>1, FS_EmptySet DEF ScopesMatch
<1>8. WalkOnTree /\ OneThing /\ BodiesUntouched
  BY <1>1 DEF WalkOnTree, OneThing, Walking, Resolved, BodiesUntouched
<1>9. SilentSoFar
  <2>1. \A n \in Idents : ~(n < next)
    BY <1>1, <1>4 DEF Idents, Nodes
  <2> QED BY <2>1 DEF SilentSoFar
<1> QED BY <1>3, <1>6, <1>7, <1>8, <1>9 DEF SemaInv

LEMMA SemaSteps == SemaInv /\ [Next]_vars => SemaInv'
<1> SUFFICES ASSUME SemaInv, [Next]_vars PROVE SemaInv'
  OBVIOUS
<1>1. CASE TooDeep
  BY <1>1, TooDeepStep
<1>2. CASE Declare \/ ResolvePlain \/ ResolveLet
  BY <1>2, DeclareStep, PlainStep, LetStep
<1>3. CASE ResolveBlock \/ ResolveBranch \/ ResolveIdent
  BY <1>3, BlockStep, BranchStep, IdentStep
<1>4. CASE CloseDeclare \/ ClosePlain \/ CloseBlock \/ CloseGuard \/ CloseGroup
  BY <1>4, CloseQuietSteps, CloseBlockStep, CloseGuardStep, CloseGroupStep
<1>5. CASE EndWalk
  BY <1>5, EndWalkStep
<1>6. CASE BeginBody \/ EndBody \/ NarrowAfter \/ Return
  BY <1>6, BeginBodyStep, EndBodyStep, NarrowAfterStep, ReturnStep
<1>7. CASE Done \/ UNCHANGED vars
  BY <1>7, StutterStep DEF Done
<1> QED BY <1>1, <1>2, <1>3, <1>4, <1>5, <1>6, <1>7 DEF Next

LEMMA SemaAlways == Spec => []SemaInv
BY SemaStarts, SemaSteps, PTL DEF Spec

(* Every variable keeps its type, for every tree, limit and failure of an  *)
(* allocation: resolve_depth stays within KAVAK_SEMA_MAX_RESOLVE_DEPTH and *)
(* the root scope is never popped.                                         *)
THEOREM SemaTyped == Spec => []TypeOK
<1>1. SemaInv => TypeOK
  BY DEF SemaInv
<1> QED BY <1>1, SemaAlways, PTL

(* The scope stack is exactly the scopes opened by the blocks being        *)
(* visited and the bodies being run, over the root scope                   *)
(* (src/src/sema.c:240, 337, 353).                                         *)
THEOREM ScopesAlwaysMatch == Spec => []ScopesMatch
<1>1. SemaInv => ScopesMatch
  BY DEF SemaInv
<1> QED BY <1>1, SemaAlways, PTL

(* What a branch narrowing binds is undone with its scope: the scopes      *)
(* around it are as it found them, however bodies nest                     *)
(* (src/src/sema.c:240, 276).                                              *)
THEOREM BranchesAlwaysUndone == Spec => []BranchesUndone
<1>1. ASSUME SemaInv PROVE BranchesUndone
  <2> SUFFICES ASSUME NEW i \in 1..Len(bodies)
               PROVE  SubSeq(scopes, 1, Len(bodies[i].saved)) = bodies[i].saved
    BY DEF BranchesUndone
  <2> DEFINE s == bodies[i].saved
             v == SubSeq(scopes, 1, i)
  <2>1. phase = "check"
    <3>1. bodies # <<>>
      OBVIOUS
    <3> QED BY <1>1, <3>1 DEF SemaInv, OneThing
  <2>2. bodies \in Seq(Body) /\ Len(bodies) \in Nat /\ Len(scopes) = Len(bodies) + 1
    BY <1>1, <2>1, CheckScopes
  <2>3. bodies[i] \in Body
    BY <2>2, ElementOfSeq
  <2>4. s \in Seq(Scope) /\ Len(s) = i /\ \A k \in 1..i : s[k] = scopes[k]
    BY <1>1, <2>3 DEF SemaInv, BodiesUntouched, Body, Scope
  <2>5. scopes \in Seq(Scope) /\ i \in 0..Len(scopes)
    BY <1>1, <2>2 DEF SemaInv, TypeOK, Scope
  <2>6. v \in Seq(Scope) /\ Len(v) = i /\ \A k \in 1..i : v[k] = scopes[k]
    BY <2>5, FrontOf
  <2> HIDE DEF s, v
  <2>7. v = s
    BY <2>4, <2>6, SeqEqual
  <2> QED BY <2>4, <2>7 DEF s, v
<1> QED BY <1>1, SemaAlways, PTL

(* No identifier stays without a type in silence: it is flagged, or lies   *)
(* under a node that is, whichever scopes, binds or diagnostics fail       *)
(* (src/src/sema.c:326, 333).                                              *)
THEOREM NeverSilent == Spec => []NothingSilent
<1>1. ASSUME SemaInv PROVE NothingSilent
  <2> SUFFICES ASSUME Resolved, NEW n \in Idents, types[n] = Unknown
               PROVE  n \in flagged \/ Around(n) \cap flagged # {}
    BY DEF NothingSilent
  <2>1. next = Len(tree) + 1 /\ phase # "declare" /\ Len(tree) \in Nat
    BY <1>1, LenProperties DEF SemaInv, OneThing, Resolved, WellFormed
  <2>2. n \in Nat /\ n < next
    BY <2>1 DEF Idents, Nodes
  <2> QED BY <1>1, <2>1, <2>2 DEF SemaInv, SilentSoFar, Spoken
<1> QED BY <1>1, SemaAlways, PTL

(* kavak_sema_pick_overload gives a candidate of the best score, the       *)
(* newest of those, and none only when none scores 0 or more               *)
(* (src/src/sema.c:195, 206).                                              *)
THEOREM OverloadAlwaysBest == Spec => []OverloadIsBest
<1>1. ASSUME SemaInv PROVE OverloadIsBest
  <2> SUFFICES ASSUME NEW name \in Names, NEW score \in [Types -> -1..1]
               PROVE  LET all    == LookupAll(scopes, name)
                          choice == PickOverload(all, score)
                          Score(i) == score[all[i].type]
                          fits   == {i \in 1..Len(all) : Score(i) >= 0}
                      IN  IF fits = {} THEN choice = 0
                          ELSE /\ choice \in fits
                               /\ \A i \in fits : \/ Score(i) < Score(choice)
                                                  \/ Score(i) = Score(choice) /\ choice <= i
    BY DEF OverloadIsBest
  <2> DEFINE all    == LookupAll(scopes, name)
             choice == PickOverload(all, score)
             Score(i) == score[all[i].type]
             fits   == {i \in 1..Len(all) : Score(i) >= 0}
  <2>1. all \in Scope
    BY <1>1, StackTyped, LookupAllOK DEF Stack
  <2>2. score \in [Types -> Int]
    OBVIOUS
  <2> HIDE DEF all
  <2>3. BestOf(all, score, Len(all), choice)
    BY <2>1, <2>2, PickBest
  <2>4. Len(all) \in Nat /\ \A i \in 1..Len(all) : Score(i) \in Int
    <3>1. Len(all) \in Nat /\ \A i \in 1..Len(all) : all[i] \in Symbol
      BY <2>1, LenProperties, ElementOfSeq DEF Scope
    <3> QED BY <2>2, <3>1 DEF Symbol
  <2> HIDE DEF choice
  <2>5. /\ choice \in 0..Len(all)
        /\ choice = 0 => \A i \in 1..Len(all) : Score(i) < 0
        /\ choice # 0 => /\ Score(choice) >= 0
                         /\ \A i \in 1..Len(all) : \/ Score(i) < Score(choice)
                                                   \/ Score(i) = Score(choice) /\ choice <= i
    BY <2>3 DEF BestOf
  <2> HIDE DEF Score
  <2>6. CASE choice = 0
    <3>1. fits = {}
      BY <2>4, <2>5, <2>6
    <3> QED BY <2>6, <3>1 DEF all, choice, Score
  <2>7. CASE choice # 0
    <3>1. choice \in fits
      BY <2>4, <2>5, <2>7
    <3>2. \A i \in fits : \/ Score(i) < Score(choice)
                          \/ Score(i) = Score(choice) /\ choice <= i
      BY <2>5, <2>7
    <3> QED BY <3>1, <3>2 DEF all, choice, Score
  <2> QED BY <2>6, <2>7
<1> QED BY <1>1, SemaAlways, PTL
-----------------------------------------------------------------------------
(* Lexical resolution.  The invariant: the activations are exactly the     *)
(* nodes around the place the walk has reached (Path); while no hook on a  *)
(* visited node failed, each open scope belongs to one open block, in      *)
(* order, and finds for every name the newest binding in force there       *)
(* (Lexical); and what was passed has its type (TypesRight, IdentsRight).  *)
NodesOf(w) == {w[i].node : i \in 1..Len(w)}
OpenNodes  == NodesOf(walk)
IsBlock(n) == tree[n].kind \in {"block", "branch"}

Path ==
  /\ \A i \in 1..Len(walk) :
       /\ Around(walk[i].node) = {walk[j].node : j \in 1..i - 1}
       /\ walk[i].node < next /\ next <= Last(walk[i].node) + 1
  /\ \A n \in Nodes : \A a \in Around(n) : n >= next /\ a < next => a \in OpenNodes
  /\ phase = "declare" => declares

LEMMA AroundOK ==
  ASSUME WellFormed, NEW n \in Nodes
  PROVE  /\ Around(n) \subseteq 1..n - 1 /\ n \in Nat \ {0} /\ IsFiniteSet(Around(n))
         /\ Cardinality(Around(n)) \in Nat
<1>1. n \in Nat \ {0} /\ Len(tree) \in Nat
  BY NodeOK DEF Nodes
<1>2. Around(n) \subseteq 1..n - 1
  BY <1>1 DEF Around, Inside, Nodes
<1>3. IsFiniteSet(1..n - 1)
  BY <1>1, FS_Interval
<1> QED BY <1>1, <1>2, <1>3, FS_Subset, FS_CardinalityType

\* Subtrees nest.
LEMMA Nested ==
  ASSUME WellFormed, NEW a \in Nodes, NEW m \in Nodes, a <= m, m <= Last(a)
  PROVE  Last(m) <= Last(a)
<1>1. tree[a].size \in Nat /\ tree[m].size \in Nat /\ a \in Nat /\ m \in Nat
  BY NodeOK DEF Nodes
<1>2. m \in a..a + tree[a].size - 1
  BY <1>1 DEF Last
<1>3. m + tree[m].size <= a + tree[a].size
  BY <1>2 DEF WellFormed, Nodes
<1> QED BY <1>1, <1>3 DEF Last

\* The activations are the nodes around the next one.
LEMMA AroundNext ==
  ASSUME SemaInv, Path, AtNode
  PROVE  /\ Around(next) = OpenNodes /\ next \in Nodes
         /\ \A a \in OpenNodes : Last(next) <= Last(a)
<1>1. next \in Nodes /\ WellFormed /\ Len(tree) \in Nat /\ next \in Nat /\ Len(walk) \in Nat
  BY AtNodeOK, LenProperties DEF Nodes, SemaInv, TypeOK, WellFormed
<1>2. Around(next) \subseteq OpenNodes
  <2> SUFFICES ASSUME NEW a \in Around(next) PROVE a \in OpenNodes
    OBVIOUS
  <2>1. a < next /\ next >= next
    BY <1>1 DEF Around, Inside
  <2> QED BY <1>1, <2>1 DEF Path
<1>3. ASSUME NEW a \in OpenNodes PROVE a \in Around(next) /\ Last(next) <= Last(a)
  <2>1. PICK i \in 1..Len(walk) : a = walk[i].node
    BY <1>3 DEF OpenNodes, NodesOf
  <2>2. /\ a \in Nodes /\ a < next /\ Len(walk) \in 1..Len(walk) /\ Top = walk[Len(walk)]
        /\ i \in Nat /\ Top.node \in Nodes /\ walk # <<>>
    BY <1>1, <2>1 DEF Path, SemaInv, WalkOnTree, Nodes, Top
  <2>3. next <= Last(Top.node)
    BY <2>2 DEF AtNode
  <2>4. /\ a \in Nat /\ Last(a) \in Nat /\ Top.node \in Nat /\ Last(Top.node) \in Nat
        /\ Last(next) \in Nat
    <3>1. \A n \in Nodes : Last(n) \in Nat /\ n \in Nat
      <4> TAKE n \in Nodes
      <4>1. Last(n) \in n..Len(tree) /\ n \in Nat
        BY <1>1, NodeOK DEF Nodes
      <4> QED BY <1>1, <4>1
    <3> QED BY <1>1, <2>2, <3>1
  <2>5. Last(Top.node) <= Last(a)
    <3>1. CASE i = Len(walk)
      BY <2>1, <2>2, <2>4, <3>1
    <3>2. CASE i # Len(walk)
      <4>1. i \in 1..Len(walk) - 1
        BY <1>1, <2>2, <3>2
      <4>2. a \in Around(Top.node)
        BY <2>1, <2>2, <4>1 DEF Path
      <4>3. a <= Top.node /\ Top.node <= Last(a)
        BY <2>4, <4>2 DEF Around, Inside
      <4> QED BY <1>1, <2>2, <4>3, Nested
    <3> QED BY <3>1, <3>2
  <2>6. next <= Last(a)
    BY <1>1, <2>3, <2>4, <2>5
  <2>7. a <= next
    BY <1>1, <2>2, <2>4
  <2>8. Last(next) <= Last(a)
    BY <1>1, <2>2, <2>6, <2>7, Nested
  <2> QED BY <2>2, <2>6, <2>8 DEF Around, Inside
<1> QED BY <1>1, <1>2, <1>3

\* Path counts: one node per activation.
LEMMA PathCount ==
  ASSUME SemaInv, Path, NEW k \in 0..Len(walk)
  PROVE  Cardinality({walk[j].node : j \in 1..k}) = k
<1> DEFINE f == [j \in 1..k |-> walk[j].node]
           T == {walk[j].node : j \in 1..k}
<1>1. Len(walk) \in Nat /\ k \in Nat /\ \A j \in 1..k : j \in 1..Len(walk)
  BY LenProperties DEF SemaInv, TypeOK
<1>2. ASSUME NEW i \in 1..k, NEW j \in 1..k, i < j PROVE walk[i].node < walk[j].node
  <2>1. i \in 1..j - 1 /\ j \in 1..Len(walk)
    BY <1>1, <1>2
  <2>2. walk[i].node \in Around(walk[j].node)
    BY <2>1 DEF Path
  <2> QED BY <2>2 DEF Around, Inside
<1>3. \A i \in 1..k : walk[i].node \in Nat
  BY <1>1, NodeOK DEF SemaInv, WalkOnTree
<1>4. f \in Bijection(1..k, T)
  <2>1. f \in [1..k -> T] /\ \A t \in T : \E i \in 1..k : f[i] = t
    OBVIOUS
  <2>2. ASSUME NEW i \in 1..k, NEW j \in 1..k, f[i] = f[j] PROVE i = j
    <3>1. walk[i].node = walk[j].node
      BY <2>2
    <3>2. ~(i < j) /\ ~(j < i)
      BY <1>2, <1>3, <3>1
    <3> QED BY <3>2
  <2> HIDE DEF f, T
  <2> QED BY <2>1, <2>2 DEF Bijection, Injection, Surjection, IsInjective
<1>5. IsFiniteSet(1..k) /\ Cardinality(1..k) = k
  BY <1>1, FS_Interval
<1> HIDE DEF f, T
<1>6. Cardinality(T) = k
  BY <1>4, <1>5, FS_Bijection DEF ExistsBijection
<1> QED BY <1>6 DEF T

\* Which nodes the walks visit.
LEMMA NextVisited ==
  ASSUME SemaInv, Path, AtNode
  PROVE  /\ ~TooDeepHere => next \in Visited
         /\ TooDeepHere => \A n \in next..Last(next) : n \notin Visited
<1>1. Around(next) = OpenNodes /\ next \in Nodes /\ Len(walk) \in 0..Len(walk)
  BY AroundNext, LenProperties DEF SemaInv, TypeOK
<1>2. Cardinality(Around(next)) = Len(walk) /\ Len(walk) = depth /\ depth \in Nat
  <2>1. Cardinality(OpenNodes) = Len(walk)
    BY <1>1, PathCount DEF OpenNodes, NodesOf
  <2>2. depth = Len(walk) /\ depth \in 0..MaxDepth
    BY DEF SemaInv, ScopesMatch, TypeOK
  <2> QED BY <1>1, <2>1, <2>2
<1>3. ~TooDeepHere => next \in Visited
  BY <1>1, <1>2, ConstantsOK DEF TooDeepHere, Visited
<1>4. ASSUME TooDeepHere, NEW n \in next..Last(next) PROVE n \notin Visited
  <2>1. n \in Nodes /\ Last(next) \in Nat /\ next \in Nat /\ n \in Nat /\ Len(tree) \in Nat
    BY <1>1, NodeOK DEF SemaInv, Nodes
  <2>2. Around(next) \subseteq Around(n)
    <3> SUFFICES ASSUME NEW a \in Around(next) PROVE a \in Around(n)
      OBVIOUS
    <3>1. a \in Nodes /\ a < next /\ Last(next) <= Last(a) /\ a \in Nat /\ Last(a) \in Nat
      BY <1>1, AroundNext, NodeOK, SMTT(30) DEF Around, Inside, SemaInv, Nodes
    <3> QED BY <2>1, <3>1 DEF Around, Inside
  <2>3. Cardinality(Around(next)) <= Cardinality(Around(n)) /\ Cardinality(Around(n)) \in Nat
    BY <2>1, <2>2, AroundOK, FS_Subset DEF SemaInv
  <2> QED BY <1>2, <1>4, <2>3, ConstantsOK DEF TooDeepHere, Visited
<1> QED BY <1>3, <1>4

LEMMA TopVisited ==
  ASSUME SemaInv, Path, walk # <<>>
  PROVE  /\ Top.node \in Visited /\ Top.node \in OpenNodes /\ Top.node < next
         /\ Around(Top.node) = OpenNodes \ {Top.node} /\ next <= Last(Top.node) + 1
<1> DEFINE n == Len(walk)
<1>1. n \in Nat \ {0} /\ Top = walk[n] /\ n \in 1..n /\ Top.node \in Nodes /\ Top.node \in Nat
  BY TopOK, NodeOK DEF Top, Nodes, SemaInv
<1>2. /\ Around(Top.node) = {walk[j].node : j \in 1..n - 1} /\ Top.node < next
      /\ next <= Last(Top.node) + 1
  BY <1>1 DEF Path
<1>3. n - 1 \in 0..Len(walk) /\ depth = n /\ depth \in 0..MaxDepth
  BY <1>1 DEF SemaInv, ScopesMatch, TypeOK
<1>4. Cardinality(Around(Top.node)) = n - 1
  BY <1>2, <1>3, PathCount
<1>5. Top.node \in Visited
  BY <1>1, <1>3, <1>4, ConstantsOK DEF Visited
<1>6. OpenNodes = {walk[j].node : j \in 1..n - 1} \cup {Top.node}
  <2>1. 1..n = (1..n - 1) \cup {n}
    BY <1>1
  <2> HIDE DEF n
  <2> QED BY <1>1, <2>1 DEF OpenNodes, NodesOf, n
<1>7. Top.node \notin Around(Top.node)
  BY <1>1 DEF Around, Inside
<1> QED BY <1>1, <1>2, <1>5, <1>6, <1>7
-----------------------------------------------------------------------------
(* The bindings in force when a walk has reached nx with these nodes open. *)
Acts(ph, nx, open, b) ==
  \/ IsKind(b, "fn") /\ declares /\ (ph = "declare" => b < nx)
  \/ ph # "declare" /\ \/ IsKind(b, "let") /\ b < nx
                       \/ IsKind(b, "guard") /\ Last(b) < nx /\ b \notin open
                       \/ IsKind(b, "branch") /\ b < nx
InForce(ph, nx, open, h, x) ==
  {b \in Visited : tree[b].name = x /\ Home(b) = h /\ Acts(ph, nx, open, b)}

\* Whether the hook called when b opens binds its symbol.
BindsOpening(b) == IF phase = "declare" THEN IsKind(b, "fn") ELSE tree[b].kind \in {"let", "branch"}

LEMMA VisitedOK ==
  ASSUME WellFormed, NEW b \in Visited
  PROVE  b \in Nodes /\ b \in Nat \ {0} /\ Last(b) \in Nat /\ b <= Last(b)
<1>1. b \in Nodes /\ Last(b) \in b..Len(tree) /\ Len(tree) \in Nat
  BY NodeOK DEF Visited, Nodes
<1> QED BY <1>1 DEF Nodes

LEMMA ActsOpen ==
  ASSUME SemaInv, Path, AtNode, NEW b \in Visited
  PROVE  Acts(phase, next + 1, OpenNodes \cup {next}, b)
           <=> Acts(phase, next, OpenNodes, b) \/ (b = next /\ BindsOpening(b))
<1>1. b \in Nodes /\ b \in Nat \ {0} /\ Last(b) \in Nat /\ b <= Last(b) /\ next \in Nat
  BY VisitedOK DEF SemaInv, TypeOK
<1>2. b < next + 1 <=> b < next \/ b = next
  BY <1>1
<1>3. Last(b) < next + 1 /\ b \notin OpenNodes \cup {next} <=> Last(b) < next /\ b \notin OpenNodes
  <2>1. ASSUME Last(b) = next, b # next PROVE b \in OpenNodes
    <3>1. b \in Around(next)
      BY <1>1, <2>1 DEF Around, Inside
    <3> QED BY <3>1, AroundNext
  <2>2. Last(b) < next => b # next
    BY <1>1
  <2>3. Last(b) < next + 1 <=> Last(b) < next \/ Last(b) = next
    BY <1>1
  <2> QED BY <2>1, <2>2, <2>3
<1>4. phase = "declare" => declares
  BY DEF Path
<1>5. b = next => ~(b < next)
  BY <1>1
<1> QED BY <1>2, <1>3, <1>4, <1>5 DEF Acts, BindsOpening, IsKind

LEMMA ActsDeep ==
  ASSUME SemaInv, Path, AtNode, TooDeepHere, NEW b \in Visited
  PROVE  Acts(phase, Last(next) + 1, OpenNodes, b) <=> Acts(phase, next, OpenNodes, b)
<1>1. /\ b \in Nodes /\ b \in Nat \ {0} /\ Last(b) \in Nat /\ b <= Last(b)
      /\ next \in Nat /\ Last(next) \in Nat /\ next <= Last(next)
  BY VisitedOK, AtNodeOK DEF SemaInv, TypeOK
<1>2. b \notin next..Last(next)
  BY NextVisited
<1>3. b < Last(next) + 1 <=> b < next
  BY <1>1, <1>2
<1>4. Last(b) < Last(next) + 1 /\ b \notin OpenNodes <=> Last(b) < next /\ b \notin OpenNodes
  <2>1. ASSUME Last(b) < Last(next) + 1, next <= Last(b) PROVE b \in OpenNodes
    <3>1. b < next
      BY <1>1, <1>3, <2>1
    <3>2. b \in Around(next)
      BY <1>1, <2>1, <3>1 DEF Around, Inside
    <3> QED BY <3>2, AroundNext
  <2>2. Last(b) < next => Last(b) < Last(next) + 1
    BY <1>1
  <2>3. Last(b) < next \/ next <= Last(b)
    BY <1>1
  <2> QED BY <2>1, <2>2, <2>3
<1> QED BY <1>3, <1>4 DEF Acts

LEMMA ActsClose ==
  ASSUME SemaInv, Path, AtClose, NEW b \in Visited
  PROVE  Acts(phase, next, OpenNodes \ {Top.node}, b)
           <=> Acts(phase, next, OpenNodes, b)
                 \/ (b = Top.node /\ phase # "declare" /\ IsKind(b, "guard"))
<1>1. walk # <<>> /\ Last(Top.node) < next
  BY TopOK, NodeOK DEF AtClose, SemaInv, TypeOK
<1>2. Top.node \in OpenNodes
  BY <1>1, TopVisited
<1> QED BY <1>1, <1>2 DEF Acts

LEMMA NewerOpen ==
  ASSUME SemaInv, Path, AtNode, BindsOpening(next), NEW c \in Visited,
         Acts(phase, next, OpenNodes, c)
  PROVE  Newer(next, c)
<1>1. /\ c \in Nodes /\ c \in Nat \ {0} /\ Last(c) \in Nat /\ c <= Last(c)
      /\ next \in Nat \ {0}
  BY VisitedOK, AtNodeOK DEF SemaInv
<1>2. CASE phase = "declare"
  BY <1>1, <1>2 DEF Acts, BindsOpening, Newer, Bound, IsKind
<1>3. CASE phase # "declare"
  <2>1. Bound(next) = next
    BY <1>3 DEF BindsOpening, Bound, IsKind
  <2>2. Bound(c) < next
    BY <1>1, <1>3 DEF Acts, Bound, IsKind
  <2> QED BY <1>1, <2>1, <2>2 DEF Newer
<1> QED BY <1>2, <1>3

LEMMA NewerClose ==
  ASSUME SemaInv, Path, AtClose, phase # "declare", IsKind(Top.node, "guard"), NEW c \in Visited,
         Acts(phase, next, OpenNodes, c)
  PROVE  Newer(Top.node, c)
<1> DEFINE b == Top.node
<1>1. /\ walk # <<>> /\ b \in OpenNodes /\ b \in Visited /\ Around(b) = OpenNodes \ {b}
      /\ next <= Last(b) + 1 /\ Last(b) < next
  BY TopVisited, TopOK, NodeOK DEF AtClose, SemaInv, TypeOK
<1>2. /\ c \in Nodes /\ c \in Nat \ {0} /\ Last(c) \in Nat /\ c <= Last(c)
      /\ b \in Nodes /\ b \in Nat \ {0} /\ Last(b) \in Nat /\ b <= Last(b) /\ next \in Nat
  BY <1>1, VisitedOK DEF SemaInv, TypeOK
<1> HIDE DEF b
<1>3. next = Last(b) + 1
  BY <1>1, <1>2
<1>4. Bound(b) = Last(b) /\ IsKind(b, "guard") /\ ~IsKind(b, "fn")
  BY DEF Bound, IsKind, b
<1>5. ASSUME IsKind(c, "guard") PROVE Newer(b, c)
  <2>1. Last(c) < next /\ c \notin OpenNodes /\ Bound(c) = Last(c)
    BY <1>5 DEF Acts, Bound, IsKind
  <2>2. Last(c) <= Last(b) /\ c # b
    BY <1>1, <1>2, <1>3, <2>1
  <2>3. ASSUME Last(c) = Last(b), c < b PROVE FALSE
    <3>1. c \in Around(b)
      BY <1>2, <2>3 DEF Around, Inside
    <3> QED BY <1>1, <2>1, <3>1
  <2>4. CASE Last(c) < Last(b)
    BY <1>4, <2>1, <2>4 DEF Newer
  <2>5. CASE Last(c) = Last(b)
    <3>1. b < c
      BY <1>2, <2>2, <2>3, <2>5
    <3> QED BY <1>4, <2>1, <2>5, <3>1 DEF Newer
  <2> QED BY <1>2, <2>2, <2>4, <2>5
<1>6. ASSUME ~IsKind(c, "guard") PROVE Newer(b, c)
  <2>1. Bound(c) \in Nat /\ Bound(c) < next
    BY <1>2, <1>3, <1>6 DEF Acts, Bound, IsKind
  <2>2. Bound(c) < Bound(b) \/ Bound(c) = Bound(b)
    BY <1>2, <1>3, <1>4, <2>1
  <2> QED BY <1>4, <1>6, <2>2 DEF Newer
<1> QED BY <1>5, <1>6 DEF b
-----------------------------------------------------------------------------
(* What one scope finds for a name, when the bindings S are in force in it. *)

\* Symbol i is the newest of this name.
Newest(symbols, x, i) ==
  /\ i \in 1..Len(symbols) /\ symbols[i].name = x
  /\ \A j \in i + 1..Len(symbols) : symbols[j].name # x
Lacks(symbols, x) == \A i \in 1..Len(symbols) : symbols[i].name # x
NewestIn(S, b) == b \in S /\ \A c \in S \ {b} : Newer(b, c)

Finds(symbols, x, S) ==
  \/ S = {} /\ Lacks(symbols, x)
  \/ \E b, i : NewestIn(S, b) /\ Newest(symbols, x, i) /\ symbols[i].type = tree[b].type

LEMMA Extended ==
  ASSUME NEW symbols \in Scope, NEW s \in Symbol
  PROVE  LET new == symbols \o <<s>> IN
         /\ new \in Scope /\ Len(symbols) \in Nat /\ Len(new) = Len(symbols) + 1
         /\ new[Len(symbols) + 1] = s /\ \A k \in 1..Len(symbols) : new[k] = symbols[k]
<1>1. symbols \in Seq(Symbol) /\ <<s>> \in Seq(Symbol) /\ Len(<<s>>) = 1 /\ <<s>>[1] = s
  BY DEF Scope
<1> DEFINE one == <<s>>
           new == symbols \o one
<1>2. one \in Seq(Symbol) /\ Len(one) = 1 /\ one[1] = s /\ Len(symbols) \in Nat
  BY <1>1, LenProperties
<1> HIDE DEF one
<1>3. /\ new \in Seq(Symbol) /\ Len(new) = Len(symbols) + 1
      /\ \A i \in 1..Len(symbols) + 1 :
           new[i] = IF i <= Len(symbols) THEN symbols[i] ELSE one[i - Len(symbols)]
  BY <1>1, <1>2, ConcatProperties
<1> HIDE DEF new
<1>4. new[Len(symbols) + 1] = s /\ \A k \in 1..Len(symbols) : new[k] = symbols[k]
  BY <1>2, <1>3
<1> QED BY <1>2, <1>3, <1>4 DEF Scope, new, one

LEMMA FindsMore ==
  ASSUME NEW symbols \in Scope, NEW s \in Symbol, NEW b, NEW S,
         s.type = tree[b].type, \A c \in S : Newer(b, c)
  PROVE  Finds(symbols \o <<s>>, s.name, S \cup {b})
<1> DEFINE new == symbols \o <<s>>
           n   == Len(symbols) + 1
<1>1. n \in Nat \ {0} /\ Len(new) = n /\ new[n] = s
  BY Extended
<1> HIDE DEF new, n
<1>2. Newest(new, s.name, n) /\ NewestIn(S \cup {b}, b)
  BY <1>1 DEF Newest, NewestIn
<1>3. Finds(new, s.name, S \cup {b})
  BY <1>1, <1>2 DEF Finds
<1> QED BY <1>3 DEF new

LEMMA FindsOther ==
  ASSUME NEW symbols \in Scope, NEW s \in Symbol, NEW x, x # s.name, NEW S, Finds(symbols, x, S)
  PROVE  Finds(symbols \o <<s>>, x, S)
<1> DEFINE new == symbols \o <<s>>
           n   == Len(symbols)
<1>1. n \in Nat /\ Len(new) = n + 1 /\ new[n + 1] = s /\ \A k \in 1..n : new[k] = symbols[k]
  BY Extended
<1> HIDE DEF new
<1>2. CASE S = {} /\ Lacks(symbols, x)
  BY <1>1, <1>2 DEF Finds, Lacks, new
<1>3. ASSUME NEW b, NEW i, NewestIn(S, b), Newest(symbols, x, i), symbols[i].type = tree[b].type
      PROVE  Finds(new, x, S)
  <2>1. i \in 1..n /\ new[i] = symbols[i] /\ symbols[i].name = x
    BY <1>1, <1>3 DEF Newest
  <2>2. \A j \in i + 1..n + 1 : j \in i + 1..n \/ j = n + 1
    BY <1>1, <2>1
  <2>3. \A j \in i + 1..n : j \in 1..n /\ symbols[j].name # x
    BY <1>1, <1>3, <2>1 DEF Newest
  <2>4. \A j \in i + 1..n + 1 : new[j].name # x
    BY <1>1, <2>2, <2>3
  <2>5. Newest(new, x, i)
    BY <1>1, <2>1, <2>4 DEF Newest
  <2> QED BY <1>3, <2>1, <2>5 DEF Finds
<1> QED BY <1>2, <1>3 DEF Finds, new
-----------------------------------------------------------------------------
(* Lookup takes the newest symbol of the newest scope that has the name.   *)
LEMMA NamedNewest ==
  ASSUME NEW symbols \in Scope, NEW x
  PROVE  /\ Lacks(symbols, x) => Named(symbols, x) = <<>>
         /\ \A i : Newest(symbols, x, i) => /\ Named(symbols, x) \in Scope
                                            /\ Len(Named(symbols, x)) > 0
                                            /\ Named(symbols, x)[1] = symbols[i]
<1> DEFINE n == Len(symbols)
           Step(i, v) == IF symbols[i].name = x THEN <<symbols[i]>> \o v ELSE v
           Good(m, v) ==
             /\ (\A k \in 1..m : symbols[k].name # x) => v = <<>>
             /\ \A i \in 1..m : symbols[i].name = x /\ (\A k \in i + 1..m : symbols[k].name # x)
                  => Len(v) > 0 /\ v[1] = symbols[i]
<1>1. n \in Nat /\ \A k \in 1..n : symbols[k] \in Symbol
  BY LenProperties, ElementOfSeq DEF Scope
<1>2. PICK f : /\ Named(symbols, x) = f[n] /\ f[0] = <<>>
               /\ \A i \in 0..n : f[i] \in Scope
               /\ \A i \in 1..n : f[i] = Step(i, f[i - 1])
  <2> HIDE DEF n
  <2> QED BY NamedSteps DEF n
<1> DEFINE S == {m \in 0..n : Good(m, f[m])}
<1>3. 0 \in S
  BY <1>1, <1>2
<1>4. ASSUME NEW m \in 0..n - 1, m \in S PROVE m + 1 \in S
  <2> DEFINE k == m + 1
             v == f[m]
  <2>1. /\ k \in 1..n /\ m \in 0..n /\ k - 1 = m /\ m \in Nat /\ k \in 0..n
        /\ \A i \in 1..k : i \in 1..m \/ i = k
        /\ \A i \in 1..m : k \in i + 1..k /\ i + 1..m \subseteq i + 1..k /\ i \in 1..k
        /\ \A j \in k + 1..k : FALSE
    BY <1>1
  <2>2. f[k] = Step(k, v) /\ v \in Scope /\ symbols[k] \in Symbol
    BY <1>1, <1>2, <2>1
  <2>3. Good(m, v)
    BY <1>4
  <2> HIDE DEF v, k
  <2>4. CASE symbols[k].name = x
    <3>1. f[k] = <<symbols[k]>> \o v
      BY <2>2, <2>4
    <3>2. Len(f[k]) > 0 /\ f[k][1] = symbols[k]
      <4> DEFINE one == <<symbols[k]>>
      <4>1. one \in Seq(Symbol) /\ Len(one) = 1 /\ one[1] = symbols[k]
        BY <2>2
      <4>2. v \in Seq(Symbol) /\ Len(v) \in Nat
        BY <2>2, LenProperties DEF Scope
      <4> HIDE DEF one
      <4>3. /\ Len(one \o v) = Len(one) + Len(v)
            /\ \A i \in 1..Len(one) + Len(v) : (one \o v)[i] = IF i <= Len(one) THEN one[i]
                                                               ELSE v[i - Len(one)]
        BY <4>1, <4>2, ConcatProperties
      <4> QED BY <3>1, <4>1, <4>2, <4>3 DEF one
    <3>3. Good(k, f[k])
      <4>1. \A i \in 1..m : k \in i + 1..k
        BY <2>1
      <4> QED BY <2>1, <2>4, <3>2, <4>1
    <3> QED BY <2>1, <3>3 DEF k
  <2>5. CASE symbols[k].name # x
    <3>1. f[k] = v
      BY <2>2, <2>5
    <3>2. Good(k, v)
      <4>1. (\A i \in 1..k : symbols[i].name # x) => \A i \in 1..m : symbols[i].name # x
        BY <2>1
      <4>2. ASSUME NEW i \in 1..k, symbols[i].name = x, \A j \in i + 1..k : symbols[j].name # x
            PROVE  i \in 1..m /\ \A j \in i + 1..m : symbols[j].name # x
        BY <2>1, <2>5, <4>2
      <4> QED BY <2>3, <4>1, <4>2
    <3> QED BY <2>1, <3>1, <3>2 DEF k
  <2> QED BY <2>4, <2>5
<1>5. Good(n, f[n]) /\ f[n] \in Scope
  <2> HIDE DEF S, n, Good
  <2>1. 0..n \subseteq S
    BY <1>1, <1>3, <1>4, BoundedInduction
  <2> QED BY <1>1, <1>2, <2>1 DEF S
<1> QED BY <1>2, <1>5 DEF Lacks, Newest

LEMMA LookupNewest ==
  ASSUME NEW sc \in Seq(Scope), NEW x
  PROVE  /\ (\A k \in 1..Len(sc) : Lacks(sc[k], x)) => LookupType(sc, x) = Unknown
         /\ \A k \in 1..Len(sc) : \A i :
              Newest(sc[k], x, i) /\ (\A j \in k + 1..Len(sc) : Lacks(sc[j], x))
                => LookupType(sc, x) = sc[k][i].type
<1> DEFINE n == Len(sc)
           Good(m, v) ==
             /\ (\A k \in 1..m : Lacks(sc[k], x)) => v = <<>>
             /\ \A k \in 1..m : \A i :
                  Newest(sc[k], x, i) /\ (\A j \in k + 1..m : Lacks(sc[j], x))
                    => Len(v) > 0 /\ v[1] = sc[k][i]
<1>1. n \in Nat /\ \A k \in 1..n : sc[k] \in Scope
  BY LenProperties, ElementOfSeq
<1>2. PICK f : /\ LookupAll(sc, x) = f[n] /\ f[0] = <<>>
               /\ \A i \in 0..n : f[i] \in Scope
               /\ \A i \in 1..n : f[i] = Named(sc[i], x) \o f[i - 1]
  <2> HIDE DEF n
  <2> QED BY LookupSteps, ZenonT(60) DEF n
<1> DEFINE S == {m \in 0..n : Good(m, f[m])}
<1>3. 0 \in S
  BY <1>1, <1>2
<1>4. ASSUME NEW m \in 0..n - 1, m \in S PROVE m + 1 \in S
  <2> DEFINE k == m + 1
             v == f[m]
             u == Named(sc[k], x)
  <2>1. /\ k \in 1..n /\ m \in 0..n /\ k - 1 = m /\ m \in Nat /\ k \in 0..n
        /\ \A i \in 1..k : i \in 1..m \/ i = k
        /\ \A i \in 1..m : k \in i + 1..k /\ i + 1..m \subseteq i + 1..k /\ i \in 1..k
        /\ \A j \in k + 1..k : FALSE
    BY <1>1
  <2>2. f[k] = u \o v /\ v \in Scope /\ sc[k] \in Scope
    BY <1>1, <1>2, <2>1
  <2>3. Good(m, v)
    BY <1>4
  <2>4. u \in Scope
    BY <2>2, NamedOK
  <2>5. u \in Seq(Symbol) /\ v \in Seq(Symbol) /\ Len(u) \in Nat /\ Len(v) \in Nat
    BY <2>2, <2>4, LenProperties DEF Scope
  <2>6. /\ Len(u \o v) = Len(u) + Len(v)
        /\ \A i \in 1..Len(u) + Len(v) : (u \o v)[i] = IF i <= Len(u) THEN u[i] ELSE v[i - Len(u)]
    <3> HIDE DEF u, v
    <3> QED BY <2>5, ConcatProperties
  <2>7. /\ Lacks(sc[k], x) => u = <<>>
        /\ \A i : Newest(sc[k], x, i) => Len(u) > 0 /\ u[1] = sc[k][i]
    BY <2>2, NamedNewest
  <2>8. u = <<>> => u \o v = v
    <3> HIDE DEF u, v
    <3> QED BY <2>5
  <2> HIDE DEF v, k, u
  <2>9. ASSUME NEW i, Newest(sc[k], x, i) PROVE Len(f[k]) > 0 /\ f[k][1] = sc[k][i]
    BY <2>2, <2>5, <2>6, <2>7, <2>9
  <2>10. ASSUME Lacks(sc[k], x) PROVE f[k] = v
    BY <2>2, <2>7, <2>8, <2>10
  <2>11. Good(k, f[k])
    <3>1. ASSUME \A j \in 1..k : Lacks(sc[j], x) PROVE f[k] = <<>>
      <4>1. Lacks(sc[k], x) /\ \A j \in 1..m : Lacks(sc[j], x)
        BY <2>1, <3>1
      <4> QED BY <2>3, <2>10, <4>1
    <3>2. ASSUME NEW j \in 1..k, NEW i, Newest(sc[j], x, i), \A l \in j + 1..k : Lacks(sc[l], x)
          PROVE  Len(f[k]) > 0 /\ f[k][1] = sc[j][i]
      <4>1. CASE j = k
        BY <2>9, <3>2, <4>1
      <4>2. CASE j # k
        <5>1. j \in 1..m /\ Lacks(sc[k], x) /\ \A l \in j + 1..m : Lacks(sc[l], x)
          BY <2>1, <3>2, <4>2
        <5> QED BY <2>3, <2>10, <3>2, <5>1
      <4> QED BY <4>1, <4>2
    <3> QED BY <3>1, <3>2
  <2> QED BY <2>1, <2>11 DEF k
<1>5. Good(n, f[n]) /\ f[n] \in Scope
  <2> HIDE DEF S, n, Good
  <2>1. 0..n \subseteq S
    BY <1>1, <1>3, <1>4, BoundedInduction
  <2> QED BY <1>1, <1>2, <2>1 DEF S
<1>6. LookupType(sc, x) = IF f[n] = <<>> THEN Unknown ELSE f[n][1].type
  BY <1>2 DEF LookupType
<1> DEFINE all == f[n]
<1>7. all # <<>> <=> Len(all) > 0
  <2>1. all \in Seq(Symbol)
    BY <1>5 DEF Scope
  <2> HIDE DEF all
  <2>2. Len(all) \in Nat /\ (all = <<>> <=> Len(all) = 0)
    BY <2>1, LenProperties, EmptySeq
  <2> QED BY <2>2
<1> HIDE DEF n
<1> QED BY <1>5, <1>6, <1>7 DEF n
-----------------------------------------------------------------------------
(* Which block each open scope belongs to, the root scope to 0.            *)
HomesOf(homes, n, B) ==
  /\ homes \in [1..n -> {0} \cup B] /\ homes[1] = 0
  /\ \A i, j \in 1..n : i < j => homes[i] < homes[j]
  /\ \A b \in B : \E i \in 1..n : homes[i] = b
InScopes(homes, sc, ph, nx, open) ==
  \A i \in 1..Len(sc), x \in Names : Finds(sc[i], x, InForce(ph, nx, open, homes[i], x))

BlocksIn(ph, open) == {n \in open : ph = "resolve" /\ IsBlock(n)}
Pushed(ph, w) == ph = "resolve" => \A i \in 1..Len(w) : IsBlock(w[i].node) => w[i].pushed

\* No hook has failed on a node the walks visit.
Clean(fl) == fl \cap Visited \subseteq Idents
Lexical(ph, nx, w, sc) ==
  /\ Pushed(ph, w)
  /\ \E homes : /\ HomesOf(homes, Len(sc), BlocksIn(ph, NodesOf(w)))
                /\ InScopes(homes, sc, ph, nx, NodesOf(w))

\* What the walk that resolves has passed.
Passed(ph, nx, n) == ph # "declare" /\ n < nx
TypesRight(ph, nx, open, ty) ==
  /\ \A n \in Nodes : ~Passed(ph, nx, n) => ty[n] = Unknown
  /\ \A n \in Visited : IsKind(n, "group") /\ tree[n].size > 1 /\ Passed(ph, nx, n) =>
       ty[n] = IF n \in open THEN Unknown ELSE ty[n + 1]
IdentsRight(ph, nx, ty, fl) ==
  Clean(fl) => \A n \in Idents \cap Visited :
    IF Passed(ph, nx, n) THEN ty[n] = TypeAt(n) /\ (n \in fl <=> TypeAt(n) = Unknown)
    ELSE n \notin fl

LexInv ==
  /\ Path
  /\ Walking /\ Clean(flagged) => Lexical(phase, next, walk, scopes)
  /\ TypesRight(phase, next, OpenNodes, types)
  /\ IdentsRight(phase, next, types, flagged)

\* The tree does not change, so neither does what is read off it.
LEMMA RefsSame ==
  ASSUME tree' = tree, declares' = declares
  PROVE  /\ Nodes' = Nodes /\ Visited' = Visited /\ Idents' = Idents
         /\ \A n : Around(n)' = Around(n) /\ Last(n)' = Last(n) /\ Home(n)' = Home(n)
         /\ \A n : TypeAt(n)' = TypeAt(n) /\ IsBlock(n)' = IsBlock(n)
         /\ \A b, c : Newer(b, c)' = Newer(b, c)
<1>1. Nodes' = Nodes /\ \A n : Last(n)' = Last(n)
  BY DEF Nodes, Last
<1>2. \A n : Around(n)' = Around(n)
  BY <1>1 DEF Around, Inside
<1>3. Visited' = Visited /\ Idents' = Idents
  BY <1>1, <1>2 DEF Visited, Idents, IsKind
<1>4. \A n : Blocks(n)' = Blocks(n)
  BY <1>2 DEF Blocks
<1>5. \A n : Home(n)' = Home(n)
  <2> TAKE n
  <2>1. Blocks(n)' = Blocks(n) /\ tree' = tree
    BY <1>4
  <2> QED BY <2>1, SMT DEF Home, IsKind
<1>6. \A b, c : Newer(b, c)' = Newer(b, c)
  BY <1>1 DEF Newer, Bound, IsKind
<1>7. \A n : Bindings(n)' = Bindings(n)
  BY <1>1, <1>3, <1>4, <1>5 DEF Bindings, IsKind
<1>8. \A b, c : Shadows(b, c)' = Shadows(b, c)
  BY <1>5, <1>6 DEF Shadows
<1>9. \A n : TypeAt(n)' = TypeAt(n)
  <2> TAKE n
  <2>1. Bindings(n)' = Bindings(n) /\ tree' = tree
    BY <1>7
  <2> QED BY <2>1, SMT DEF TypeAt, Shadows, Home, Newer, Bound, IsKind, Last, Blocks, Around, Inside, Nodes
<1> QED BY <1>1, <1>2, <1>3, <1>5, <1>6, <1>9 DEF IsBlock

LEMMA LexicalNext ==
  ASSUME tree' = tree, declares' = declares,
         NEW ph, ph = phase', NEW nx, nx = next', NEW w, w = walk', NEW sc, sc = scopes',
         ph \in {"declare", "resolve"} /\ Clean(flagged') => Lexical(ph, nx, w, sc)
  PROVE  (Walking /\ Clean(flagged) => Lexical(phase, next, walk, scopes))'
<1> SUFFICES ASSUME (Walking /\ Clean(flagged))' 
             PROVE  /\ Pushed(phase, walk)'
                    /\ \E homes : /\ HomesOf(homes, Len(scopes), BlocksIn(phase, NodesOf(walk)))'
                                  /\ InScopes(homes, scopes, phase, next, NodesOf(walk))'
  BY DEF Lexical
<1>1. Clean(flagged') /\ ph \in {"declare", "resolve"}
  BY RefsSame DEF Clean, Walking
<1>2. Pushed(phase, walk)'
  BY <1>1 DEF Lexical, Pushed, IsBlock
<1>3. PICK homes : /\ HomesOf(homes, Len(sc), BlocksIn(ph, NodesOf(w)))
                   /\ InScopes(homes, sc, ph, nx, NodesOf(w))
  BY <1>1 DEF Lexical
<1>4. NodesOf(walk)' = NodesOf(w)
  BY DEF NodesOf
<1>5. HomesOf(homes, Len(scopes), BlocksIn(phase, NodesOf(walk)))'
  BY <1>3, <1>4 DEF HomesOf, BlocksIn, IsBlock
<1>6. ASSUME NEW h, NEW x
      PROVE  InForce(phase, next, NodesOf(walk), h, x)' = InForce(ph, nx, NodesOf(w), h, x)
  BY <1>4, RefsSame DEF InForce, Acts, IsKind
<1>7. ASSUME NEW i \in 1..Len(sc), NEW x \in Names
      PROVE  Finds(scopes[i], x, InForce(phase, next, NodesOf(walk), homes[i], x))'
  <2> DEFINE S == InForce(ph, nx, NodesOf(w), homes[i], x)
  <2>1. Finds(sc[i], x, S)
    BY <1>3 DEF InScopes
  <2>2. InForce(phase, next, NodesOf(walk), homes[i], x)' = S
    BY <1>6
  <2> HIDE DEF S
  <2> QED BY <2>1, <2>2, RefsSame DEF Finds, NewestIn, Newest, Lacks
<1>8. InScopes(homes, scopes, phase, next, NodesOf(walk))'
  BY <1>7 DEF InScopes
<1> QED BY <1>2, <1>5, <1>8

LEMMA TypesNext ==
  ASSUME tree' = tree, declares' = declares,
         NEW ph, ph = phase', NEW nx, nx = next', NEW open, open = OpenNodes',
         TypesRight(ph, nx, open, types')
  PROVE  TypesRight(phase, next, OpenNodes, types)'
BY RefsSame DEF TypesRight, Passed, IsKind

LEMMA IdentsNext ==
  ASSUME tree' = tree, declares' = declares,
         NEW ph, ph = phase', NEW nx, nx = next', IdentsRight(ph, nx, types', flagged')
  PROVE  IdentsRight(phase, next, types, flagged)'
BY RefsSame DEF IdentsRight, Passed, Clean
-----------------------------------------------------------------------------
(* Scopes and their homes.                                                 *)

LEMMA HomesNat ==
  ASSUME NEW homes, NEW n, NEW B \in SUBSET (Nat \ {0}), HomesOf(homes, n, B)
  PROVE  \A i \in 1..n : homes[i] \in Nat
<1> TAKE i \in 1..n
<1>1. homes[i] \in {0} \cup B
  BY DEF HomesOf
<1>2. {0} \cup B \subseteq Nat
  OBVIOUS
<1> QED BY <1>1, <1>2

\* A variable, or a guard, is bound in the current scope.
LEMMA BindsOnTop ==
  ASSUME WellFormed, NEW b \in Nodes, tree[b].kind \in {"let", "guard"},
         NEW homes, NEW n \in Nat \ {0}, HomesOf(homes, n, Blocks(b))
  PROVE  Home(b) = homes[n]
<1> DEFINE B == Blocks(b)
<1>1. B \subseteq Nat \ {0}
  BY AroundOK DEF Blocks
<1>2. Home(b) = IF B = {} THEN 0 ELSE CHOOSE a \in B : \A c \in B : c <= a
  BY DEF Home, IsKind
<1>3. HomesOf(homes, n, B) /\ n \in 1..n
  OBVIOUS
<1> HIDE DEF B
<1>4. homes[n] \in {0} \cup B /\ \A i \in 1..n : homes[i] \in {0} \cup B
  BY <1>3 DEF HomesOf
<1>5. CASE B = {}
  BY <1>2, <1>4, <1>5
<1>6. CASE B # {}
  <2> DEFINE t == homes[n]
  <2>0. t \in Nat /\ \A c \in B : c \in Nat /\ c # 0
    <3>1. \A c \in B : c \in Nat /\ c # 0
      BY <1>1
    <3>2. t = 0 \/ t \in B
      BY <1>4
    <3> QED BY <3>1, <3>2
  <2>1. ASSUME NEW c \in B PROVE c <= t
    <3>1. PICK i \in 1..n : homes[i] = c
      BY <1>3 DEF HomesOf
    <3>2. i = n \/ i < n
      OBVIOUS
    <3>3. i < n => homes[i] < t
      BY <1>3 DEF HomesOf
    <3>4. c = t \/ c < t
      BY <3>1, <3>2, <3>3
    <3> HIDE DEF t
    <3> QED BY <2>0, <3>4
  <2>2. t \in B
    <3>1. PICK c \in B : TRUE
      BY <1>6
    <3>2. c <= t /\ c \in Nat /\ c # 0
      BY <2>0, <2>1
    <3>3. t \in {0} \cup B
      BY <1>4
    <3> HIDE DEF t
    <3> QED BY <2>0, <3>2, <3>3
  <2> HIDE DEF t
  <2>3. ASSUME NEW a \in B, \A c \in B : c <= a PROVE a = t
    <3>1. t <= a /\ a <= t /\ a \in Nat
      BY <2>0, <2>1, <2>2, <2>3
    <3> QED BY <2>0, <3>1
  <2>4. (CHOOSE a \in B : \A c \in B : c <= a) = t
    BY <2>1, <2>2, <2>3
  <2> QED BY <1>2, <1>6, <2>4 DEF t
<1> QED BY <1>5, <1>6

\* The symbol of node b.
SymbolAt(b) == [name |-> tree[b].name, type |-> tree[b].type]

LEMMA BindAllTop ==
  ASSUME NEW sc \in Stack, NEW s \in Symbol
  PROVE  LET new == BindAll(sc, <<s>>)
             n   == Len(sc)
         IN  /\ new \in Stack /\ Len(new) = n /\ n \in Nat \ {0} /\ new[n] = sc[n] \o <<s>>
             /\ \A k \in 1..n : k # n => new[k] = sc[k]
<1> DEFINE n == Len(sc)
           v == sc[n] \o <<s>>
<1>1. n \in Nat \ {0} /\ n \in 1..n /\ sc[n] \in Scope /\ sc \in Seq(Scope)
  BY StackLen DEF Stack
<1>2. v \in Scope
  BY <1>1, Extended
<1>3. BindAll(sc, <<s>>) = [sc EXCEPT ![n] = v]
  BY <1>1 DEF BindAll
<1> HIDE DEF v
<1>4. /\ [sc EXCEPT ![n] = v] \in Seq(Scope) /\ Len([sc EXCEPT ![n] = v]) = n
      /\ [sc EXCEPT ![n] = v][n] = v
      /\ \A k \in 1..n : k # n => [sc EXCEPT ![n] = v][k] = sc[k]
  BY <1>1, <1>2, Replaced
<1>5. <<s>> \in Scope
  BY DEF Scope
<1>6. BindAll(sc, <<s>>) \in Stack
  BY <1>5, BindAllOK DEF OnTop
<1> QED BY <1>1, <1>3, <1>4, <1>6 DEF v

LEMMA BoundOnTop ==
  ASSUME NEW sc \in Stack, NEW b \in Visited, SymbolAt(b) \in Symbol,
         NEW homes, NEW B, HomesOf(homes, Len(sc), B), B \subseteq Nat \ {0},
         NEW ph, NEW nx, NEW open, InScopes(homes, sc, ph, nx, open),
         NEW ph2, NEW nx2, NEW open2,
         Home(b) = homes[Len(sc)],
         \A c \in Visited : Acts(ph, nx, open, c) => Newer(b, c),
         \A c \in Visited : Acts(ph2, nx2, open2, c) <=> Acts(ph, nx, open, c) \/ c = b
  PROVE  InScopes(homes, BindAll(sc, <<SymbolAt(b)>>), ph2, nx2, open2)
<1> DEFINE n   == Len(sc)
           s   == SymbolAt(b)
           new == BindAll(sc, <<s>>)
<1>1. /\ n \in Nat \ {0} /\ Len(new) = n /\ new[n] = sc[n] \o <<s>>
      /\ \A k \in 1..n : k # n => new[k] = sc[k]
      /\ sc[n] \in Scope /\ s.name = tree[b].name /\ s.type = tree[b].type
  BY BindAllTop, StackLen DEF SymbolAt
<1> HIDE DEF n, new
<1>2. ASSUME NEW i \in 1..n, NEW x \in Names, i # n \/ x # tree[b].name
      PROVE  InForce(ph2, nx2, open2, homes[i], x) = InForce(ph, nx, open, homes[i], x)
  <2>1. ASSUME i # n PROVE homes[i] # homes[n]
    <3>1. i < n /\ n \in 1..n
      BY <1>1, <2>1
    <3>2. homes[i] < homes[n]
      BY <3>1 DEF HomesOf, n
    <3>3. homes[i] \in Nat /\ homes[n] \in Nat
      BY <3>1, HomesNat DEF n
    <3> QED BY <3>2, <3>3
  <2>2. tree[b].name = x /\ Home(b) = homes[i] => FALSE
    BY <1>2, <2>1 DEF n
  <2> QED BY <2>2 DEF InForce
<1>3. InForce(ph2, nx2, open2, homes[n], s.name) = InForce(ph, nx, open, homes[n], s.name) \cup {b}
  BY <1>1 DEF InForce, n
<1>4. ASSUME NEW i \in 1..n, NEW x \in Names
      PROVE  Finds(new[i], x, InForce(ph2, nx2, open2, homes[i], x))
  <2> DEFINE S == InForce(ph, nx, open, homes[i], x)
  <2>1. Finds(sc[i], x, S) /\ \A c \in S : Newer(b, c)
    BY DEF InScopes, InForce, n
  <2>2. CASE i # n
    BY <1>1, <1>2, <2>1, <2>2
  <2>3. CASE i = n /\ x = s.name
    <3>1. InForce(ph2, nx2, open2, homes[i], x) = S \cup {b}
      BY <1>3, <2>3
    <3> HIDE DEF S, s
    <3>2. Finds(sc[n] \o <<s>>, s.name, S \cup {b})
      BY <1>1, <2>1, FindsMore DEF s
    <3> QED BY <1>1, <2>3, <3>1, <3>2
  <2>4. CASE i = n /\ x # s.name
    <3>1. InForce(ph2, nx2, open2, homes[i], x) = S
      BY <1>1, <1>2, <2>4
    <3> HIDE DEF S, s
    <3>2. Finds(sc[n] \o <<s>>, x, S)
      BY <1>1, <2>1, <2>4, FindsOther DEF s
    <3> QED BY <1>1, <2>4, <3>1, <3>2
  <2> QED BY <2>2, <2>3, <2>4
<1> QED BY <1>1, <1>4 DEF InScopes, new

\* Nothing is bound: what is in force stays.
LEMMA NothingBound ==
  ASSUME NEW homes, NEW sc, NEW ph, NEW nx, NEW open, InScopes(homes, sc, ph, nx, open),
         NEW ph2, NEW nx2, NEW open2,
         \A c \in Visited : Acts(ph2, nx2, open2, c) <=> Acts(ph, nx, open, c)
  PROVE  InScopes(homes, sc, ph2, nx2, open2)
<1>1. \A h, x : InForce(ph2, nx2, open2, h, x) = InForce(ph, nx, open, h, x)
  BY DEF InForce
<1> QED BY <1>1 DEF InScopes

\* The innermost block around a node exists.
LEMMA Innermost ==
  ASSUME WellFormed, NEW c \in Nodes, Blocks(c) # {}
  PROVE  \E a \in Blocks(c) : \A d \in Blocks(c) : d <= a
<1> DEFINE D == {c - d : d \in Blocks(c)}
<1>1. Blocks(c) \subseteq 1..c - 1 /\ c \in Nat
  BY AroundOK DEF Blocks
<1>2. D \in SUBSET Nat /\ D # {}
  <2>1. \A d \in Blocks(c) : c - d \in Nat
    BY <1>1
  <2> QED BY <2>1
<1>3. PICK e \in D : \A f \in D : e <= f
  <2> HIDE DEF D
  <2> QED BY <1>2, LeastNumber
<1>4. PICK a \in Blocks(c) : e = c - a
  OBVIOUS
<1>5. \A d \in Blocks(c) : d <= a
  <2> TAKE d \in Blocks(c)
  <2>1. c - d \in D
    OBVIOUS
  <2>2. e <= c - d /\ d \in 1..c - 1 /\ a \in 1..c - 1
    BY <1>1, <1>3, <2>1
  <2> QED BY <1>1, <1>4, <2>2
<1> QED BY <1>5

LEMMA HomeOK ==
  ASSUME WellFormed, NEW c \in Visited
  PROVE  Home(c) \in Nat
<1>1. c \in Nodes /\ c \in Nat /\ Blocks(c) \subseteq Nat
  BY AroundOK DEF Visited, Blocks
<1>2. Home(c) = c \/ Home(c) = 0 \/ Home(c) \in Blocks(c)
  BY <1>1, Innermost DEF Home
<1> QED BY <1>1, <1>2

\* A scope that opens belongs to the next node and finds nothing yet.
LEMMA PushedHome ==
  ASSUME SemaInv, Path, AtNode, phase = "resolve", IsBlock(next),
         NEW homes, HomesOf(homes, Len(scopes), BlocksIn(phase, OpenNodes)),
         InScopes(homes, scopes, phase, next, OpenNodes)
  PROVE  \E h : /\ HomesOf(h, Len(scopes) + 1, BlocksIn(phase, OpenNodes \cup {next}))
                /\ h[Len(scopes) + 1] = next
                /\ InScopes(h, Append(scopes, <<>>), phase, next, OpenNodes)
<1> DEFINE n == Len(scopes)
           B == BlocksIn(phase, OpenNodes)
           h == [i \in 1..n + 1 |-> IF i = n + 1 THEN next ELSE homes[i]]
           new == Append(scopes, <<>>)
<1>1. /\ n \in Nat \ {0} /\ scopes \in Seq(Scope) /\ <<>> \in Scope /\ next \in Nodes
      /\ next \in Nat \ {0}
  BY StackTyped, StackLen, AtNodeOK DEF Stack, Scope, Nodes
<1>2. \A b \in B : b \in Nat /\ b < next
  BY <1>1, AroundNext, AroundOK DEF SemaInv, BlocksIn
<1>3. BlocksIn(phase, OpenNodes \cup {next}) = B \cup {next}
  BY DEF BlocksIn
<1>4. /\ Len(new) = n + 1 /\ new[n + 1] = <<>> /\ \A k \in 1..n : new[k] = scopes[k]
  <2> HIDE DEF n
  <2> QED BY <1>1, Appended DEF n
<1> HIDE DEF B, n, new
<1>5. HomesOf(h, n + 1, B \cup {next})
  <2>1. /\ homes \in [1..n -> {0} \cup B] /\ homes[1] = 0
        /\ \A i, j \in 1..n : i < j => homes[i] < homes[j]
        /\ \A b \in B : \E i \in 1..n : homes[i] = b
    BY DEF HomesOf, B, n
  <2>2. \A i \in 1..n : h[i] = homes[i] /\ i \in 1..n + 1 /\ homes[i] \in {0} \cup B
    BY <1>1, <2>1
  <2>3. h[n + 1] = next /\ n + 1 \in 1..n + 1 /\ 1 \in 1..n
    BY <1>1
  <2>4. h \in [1..n + 1 -> {0} \cup (B \cup {next})]
    <3>1. \A i \in 1..n + 1 : i \in 1..n \/ i = n + 1
      BY <1>1
    <3> QED BY <2>2, <3>1
  <2> HIDE DEF h
  <2>5. \A i, j \in 1..n + 1 : i < j => h[i] < h[j]
    <3> TAKE i, j \in 1..n + 1
    <3>1. CASE j \in 1..n
      BY <1>1, <2>1, <2>2, <3>1
    <3>2. CASE j = n + 1
      <4>1. ASSUME i < j PROVE i \in 1..n
        BY <1>1, <3>2, <4>1
      <4>2. \A k \in 1..n : homes[k] < next
        BY <1>1, <1>2, <2>2
      <4> QED BY <2>2, <2>3, <3>2, <4>1, <4>2
    <3> QED BY <1>1, <3>1, <3>2
  <2> QED BY <2>1, <2>2, <2>3, <2>4, <2>5 DEF HomesOf
<1>6. ASSUME NEW x PROVE InForce(phase, next, OpenNodes, next, x) = {}
  <2> SUFFICES ASSUME NEW c \in Visited, Home(c) = next, Acts(phase, next, OpenNodes, c)
               PROVE  FALSE
    BY DEF InForce
  <2>1. c \in Nodes /\ c \in Nat \ {0} /\ Last(c) \in Nat /\ c <= Last(c)
    BY VisitedOK DEF SemaInv
  <2>2. CASE IsKind(c, "fn")
    BY <1>1, <2>2 DEF Home, IsKind
  <2>3. CASE IsKind(c, "branch")
    BY <1>1, <2>1, <2>3 DEF Acts, Home, IsKind
  <2>4. CASE tree[c].kind \in {"let", "guard"}
    <3>1. c < next
      BY <1>1, <2>1, <2>4 DEF Acts, IsKind
    <3>2. Blocks(c) \subseteq 1..c - 1
      BY <2>1, AroundOK DEF Blocks, SemaInv
    <3>3. Blocks(c) # {} /\ next = CHOOSE a \in Blocks(c) : \A d \in Blocks(c) : d <= a
      BY <1>1, <2>4 DEF Home, IsKind
    <3>4. \E a \in Blocks(c) : \A d \in Blocks(c) : d <= a
      BY <2>1, <3>3, Innermost DEF SemaInv
    <3>5. next \in Blocks(c)
      BY <3>3, <3>4
    <3> QED BY <1>1, <2>1, <3>1, <3>2, <3>5
  <2> QED BY <2>2, <2>3, <2>4 DEF Acts, IsKind
<1>7. h[n + 1] = next /\ \A i \in 1..n : h[i] = homes[i]
  BY <1>1
<1> HIDE DEF h
<1>8. ASSUME NEW i \in 1..n + 1, NEW x \in Names
      PROVE  Finds(new[i], x, InForce(phase, next, OpenNodes, h[i], x))
  <2>1. CASE i = n + 1
    <3>1. Lacks(new[i], x)
      BY <1>4, <2>1 DEF Lacks
    <3> QED BY <1>6, <1>7, <2>1, <3>1 DEF Finds
  <2>2. CASE i # n + 1
    <3>1. i \in 1..n
      BY <1>1, <2>2
    <3> QED BY <1>4, <1>7, <3>1 DEF InScopes, n
  <2> QED BY <2>1, <2>2
<1>9. InScopes(h, new, phase, next, OpenNodes)
  BY <1>4, <1>8 DEF InScopes
<1> QED BY <1>3, <1>5, <1>7, <1>9 DEF n, new

\* The current scope belongs to the block that ends.
LEMMA PoppedHome ==
  ASSUME SemaInv, Path, AtClose, phase = "resolve", IsBlock(Top.node),
         NEW homes, HomesOf(homes, Len(scopes), BlocksIn(phase, OpenNodes)),
         NEW ph, NEW nx, NEW open, InScopes(homes, scopes, ph, nx, open)
  PROVE  \E h : /\ HomesOf(h, Len(scopes) - 1, BlocksIn(phase, OpenNodes \ {Top.node}))
                /\ InScopes(h, PopScope(scopes), ph, nx, open)
<1> DEFINE n == Len(scopes)
           B == BlocksIn(phase, OpenNodes)
           t == Top.node
           h == [i \in 1..n - 1 |-> homes[i]]
<1>1. /\ n \in Nat \ {0} /\ scopes \in Stack /\ walk # <<>>
      /\ t \in OpenNodes /\ Around(t) = OpenNodes \ {t} /\ t \in Nodes /\ t \in Nat \ {0}
  BY StackTyped, StackLen, TopVisited, TopOK DEF AtClose, Nodes
<1>2. t \in B /\ \A b \in B : b \in Nat /\ b <= t
  BY <1>1, AroundOK DEF BlocksIn, SemaInv
<1>3. BlocksIn(phase, OpenNodes \ {t}) = B \ {t}
  BY DEF BlocksIn
<1>4. /\ homes \in [1..n -> {0} \cup B] /\ homes[1] = 0
      /\ \A i, j \in 1..n : i < j => homes[i] < homes[j]
      /\ \A b \in B : \E i \in 1..n : homes[i] = b
  BY DEF HomesOf
<1> HIDE DEF B, n, t
<1>5. \A i \in 1..n : homes[i] \in Nat /\ homes[i] \in {0} \cup B
  BY <1>2, <1>4
<1>6. homes[n] = t
  <2>1. PICK i \in 1..n : homes[i] = t
    BY <1>2, <1>4
  <2>2. i = n \/ homes[i] < homes[n]
    BY <1>1, <1>4
  <2>3. homes[n] <= t
    BY <1>1, <1>2, <1>5
  <2> QED BY <1>1, <1>5, <2>1, <2>2, <2>3
<1>7. n > 1
  BY <1>1, <1>4, <1>6
<1>8. /\ PopScope(scopes) \in Stack /\ Len(PopScope(scopes)) = n - 1
      /\ \A k \in 1..n - 1 : PopScope(scopes)[k] = scopes[k]
  BY <1>1, <1>7, PopScopeOK DEF n
<1>9. \A i \in 1..n - 1 : i \in 1..n /\ h[i] = homes[i] /\ homes[i] # t
  <2> TAKE i \in 1..n - 1
  <2>1. i \in 1..n /\ n \in 1..n /\ i < n
    BY <1>1
  <2>2. homes[i] < homes[n]
    BY <1>4, <2>1
  <2> QED BY <1>5, <1>6, <2>1, <2>2
<1>10. HomesOf(h, n - 1, B \ {t})
  <2>1. h \in [1..n - 1 -> {0} \cup (B \ {t})]
    BY <1>5, <1>9
  <2>2. h[1] = 0
    BY <1>1, <1>4, <1>7, <1>9
  <2>3. \A i, j \in 1..n - 1 : i < j => h[i] < h[j]
    BY <1>4, <1>9
  <2>4. \A b \in B \ {t} : \E i \in 1..n - 1 : h[i] = b
    <3> TAKE b \in B \ {t}
    <3>1. PICK i \in 1..n : homes[i] = b
      BY <1>4
    <3>2. i \in 1..n - 1
      BY <1>1, <1>6, <3>1
    <3> QED BY <1>9, <3>1, <3>2
  <2> QED BY <2>1, <2>2, <2>3, <2>4 DEF HomesOf
<1> HIDE DEF h
<1>11. InScopes(h, PopScope(scopes), ph, nx, open)
  BY <1>8, <1>9 DEF InScopes, n
<1> QED BY <1>3, <1>10, <1>11 DEF n, t
-----------------------------------------------------------------------------
(* The path, as activations open, end and are refused.                     *)
Opening(pushed) == Append(walk, [node |-> next, pushed |-> pushed])
Closing         == SubSeq(walk, 1, Len(walk) - 1)

LEMMA WalkOpened ==
  ASSUME SemaInv, AtNode, NEW pushed \in BOOLEAN
  PROVE  /\ NodesOf(Opening(pushed)) = OpenNodes \cup {next}
         /\ Len(walk) \in Nat /\ Len(Opening(pushed)) = Len(walk) + 1
         /\ Opening(pushed)[Len(walk) + 1] = [node |-> next, pushed |-> pushed]
         /\ \A k \in 1..Len(walk) : Opening(pushed)[k] = walk[k]
         /\ Pushed(phase, walk) /\ (phase = "resolve" /\ IsBlock(next) => pushed)
              => Pushed(phase, Opening(pushed))
<1> DEFINE f == [node |-> next, pushed |-> pushed]
           n == Len(walk)
           w == Append(walk, f)
<1>1. f \in Frame /\ walk \in Seq(Frame) /\ n \in Nat /\ f.node = next /\ f.pushed = pushed
  BY AtNodeOK, LenProperties DEF Frame, SemaInv, TypeOK
<1> HIDE DEF f
<1>2. Len(w) = n + 1 /\ w[n + 1] = f /\ \A k \in 1..n : w[k] = walk[k]
  BY <1>1, Appended
<1> HIDE DEF n, w
<1>3. 1..n + 1 = (1..n) \cup {n + 1}
  BY <1>1
<1>4. NodesOf(w) = OpenNodes \cup {next}
  BY <1>1, <1>2, <1>3 DEF NodesOf, OpenNodes, n
<1>5. Pushed(phase, walk) /\ (phase = "resolve" /\ IsBlock(next) => pushed) => Pushed(phase, w)
  BY <1>1, <1>2, <1>3 DEF Pushed, n
<1> QED BY <1>1, <1>2, <1>4, <1>5 DEF Opening, f, n, w

LEMMA WalkClosed ==
  ASSUME SemaInv, Path, walk # <<>>
  PROVE  /\ NodesOf(Closing) = OpenNodes \ {Top.node}
         /\ Len(walk) \in Nat \ {0} /\ Len(Closing) = Len(walk) - 1
         /\ \A k \in 1..Len(walk) - 1 : Closing[k] = walk[k]
         /\ Pushed(phase, walk) => Pushed(phase, Closing)
<1> DEFINE n == Len(walk)
           w == SubSeq(walk, 1, n - 1)
<1>1. n \in Nat \ {0} /\ n - 1 \in 0..n /\ walk \in Seq(Frame) /\ n \in 1..n /\ Top = walk[n]
  BY TopOK DEF Top, SemaInv, TypeOK
<1>2. Len(w) = n - 1 /\ \A k \in 1..n - 1 : w[k] = walk[k]
  <2> HIDE DEF n
  <2> QED BY <1>1, FrontOf DEF n
<1> HIDE DEF w
<1>3. Around(Top.node) = {walk[j].node : j \in 1..n - 1} /\ Around(Top.node) = OpenNodes \ {Top.node}
  BY <1>1, TopVisited DEF Path
<1>4. NodesOf(w) = OpenNodes \ {Top.node}
  BY <1>2, <1>3 DEF NodesOf
<1>5. Pushed(phase, walk) => Pushed(phase, w)
  <2>1. \A k \in 1..n - 1 : k \in 1..n
    BY <1>1
  <2> QED BY <1>2, <2>1 DEF Pushed
<1> QED BY <1>1, <1>2, <1>4, <1>5 DEF Closing, w

LEMMA PathNext ==
  ASSUME tree' = tree, declares' = declares, NEW w, w = walk', NEW nx, nx = next',
         \A i \in 1..Len(w) : /\ Around(w[i].node) = {w[j].node : j \in 1..i - 1}
                              /\ w[i].node < nx /\ nx <= Last(w[i].node) + 1,
         \A m \in Nodes : \A a \in Around(m) : m >= nx /\ a < nx => a \in NodesOf(w),
         phase' = "declare" => declares
  PROVE  Path'
<1>1. (\A i \in 1..Len(walk) : /\ Around(walk[i].node) = {walk[j].node : j \in 1..i - 1}
                               /\ walk[i].node < next /\ next <= Last(walk[i].node) + 1)'
  BY DEF Around, Inside, Last, Nodes
<1>2. (\A m \in Nodes : \A a \in Around(m) : m >= next /\ a < next => a \in OpenNodes)'
  BY DEF Around, Inside, Last, Nodes, OpenNodes, NodesOf
<1> QED BY <1>1, <1>2 DEF Path

LEMMA PathOpened ==
  ASSUME SemaInv, Path, NEW pushed \in BOOLEAN, Open(pushed)
  PROVE  Path' /\ OpenNodes' = OpenNodes \cup {next}
<1> DEFINE n == Len(walk)
<1>1. /\ AtNode /\ walk' = Opening(pushed) /\ next' = next + 1 /\ tree' = tree /\ phase' = phase
      /\ declares' = declares
  BY DEF Open, Opening, input
<1> DEFINE w == Opening(pushed)
<1>2. /\ n \in Nat /\ Len(w) = n + 1 /\ w[n + 1].node = next
      /\ \A k \in 1..n : w[k] = walk[k]
      /\ NodesOf(w) = OpenNodes \cup {next}
  <2>1. w[n + 1] = [node |-> next, pushed |-> pushed]
    BY <1>1, WalkOpened
  <2> QED BY <1>1, <2>1, WalkOpened
<1> HIDE DEF w
<1>3. OpenNodes' = OpenNodes \cup {next}
  BY <1>1, <1>2 DEF OpenNodes, NodesOf, w
<1>4. /\ Around(next) = OpenNodes /\ next \in Nat /\ Last(next) \in Nat /\ next <= Last(next)
      /\ \A a \in OpenNodes : Last(next) <= Last(a) /\ a < next /\ a \in Nat /\ Last(a) \in Nat
  <2>1. next \in Nat /\ Last(next) \in next..Len(tree) /\ WellFormed /\ Len(tree) \in Nat
    BY <1>1, AtNodeOK, LenProperties DEF SemaInv, WellFormed
  <2>2. Around(next) = OpenNodes /\ \A a \in OpenNodes : Last(next) <= Last(a)
    BY <1>1, AroundNext
  <2>3. \A a \in OpenNodes : a \in 1..Len(tree) /\ a < next
    BY <2>2 DEF Around, Inside, Nodes
  <2>4. \A a \in 1..Len(tree) : Last(a) \in Nat /\ a \in Nat
    <3> TAKE a \in 1..Len(tree)
    <3>1. Last(a) \in a..Len(tree)
      BY <2>1, NodeOK
    <3> QED BY <2>1, <3>1
  <2> QED BY <2>1, <2>2, <2>3, <2>4
<1> HIDE DEF n
<1>5. ASSUME NEW i \in 1..n + 1
      PROVE  /\ Around(w[i].node) = {w[j].node : j \in 1..i - 1}
             /\ w[i].node < next + 1 /\ next + 1 <= Last(w[i].node) + 1
  <2>1. CASE i = n + 1
    <3>1. {w[j].node : j \in 1..i - 1} = OpenNodes
      BY <1>2, <2>1 DEF OpenNodes, NodesOf, n
    <3> QED BY <1>2, <1>4, <2>1, <3>1
  <2>2. CASE i # n + 1
    <3>1. i \in 1..n /\ \A j \in 1..i - 1 : j \in 1..n
      BY <1>2, <2>2
    <3>2. Around(walk[i].node) = {walk[j].node : j \in 1..i - 1} /\ walk[i].node \in OpenNodes
      BY <3>1 DEF Path, OpenNodes, NodesOf, n
    <3>3. walk[i].node < next + 1 /\ next + 1 <= Last(walk[i].node) + 1
      BY <1>4, <3>2
    <3>4. {w[j].node : j \in 1..i - 1} = {walk[j].node : j \in 1..i - 1}
      BY <1>2, <3>1
    <3> QED BY <1>2, <3>1, <3>2, <3>3, <3>4
  <2> QED BY <2>1, <2>2
<1>6. ASSUME NEW m \in Nodes, NEW a \in Around(m), m >= next + 1, a < next + 1
      PROVE  a \in OpenNodes \cup {next}
  <2>1. m \in Nat /\ a \in Nat
    BY AroundOK DEF SemaInv
  <2>2. a = next \/ (a < next /\ m >= next)
    BY <1>4, <1>6, <2>1
  <2> QED BY <1>6, <2>2 DEF Path
<1>7. phase' = "declare" => declares
  BY <1>1 DEF Path
<1>8. w = walk' /\ next + 1 = next'
  BY <1>1 DEF w
<1> DEFINE nx == next + 1
<1>9. /\ \A i \in 1..Len(w) : /\ Around(w[i].node) = {w[j].node : j \in 1..i - 1}
                              /\ w[i].node < nx /\ nx <= Last(w[i].node) + 1
      /\ \A m \in Nodes : \A a \in Around(m) : m >= nx /\ a < nx => a \in NodesOf(w)
  BY <1>2, <1>5, <1>6
<1> HIDE DEF nx
<1>10. Path'
  BY <1>1, <1>7, <1>8, <1>9, PathNext DEF nx
<1> QED BY <1>3, <1>10

LEMMA PathClosed ==
  ASSUME SemaInv, Path, Close
  PROVE  Path' /\ OpenNodes' = OpenNodes \ {Top.node}
<1> DEFINE n == Len(walk)
           t == Top.node
<1>1. /\ AtClose /\ walk # <<>> /\ walk' = Closing /\ next' = next /\ tree' = tree
      /\ phase' = phase /\ declares' = declares
  BY DEF Close, AtClose, Closing, input
<1> PICK w, nx : w = Closing /\ nx = next
  OBVIOUS
<1>2. /\ n \in Nat \ {0} /\ Len(w) = n - 1 /\ \A k \in 1..n - 1 : w[k] = walk[k]
      /\ NodesOf(w) = OpenNodes \ {t}
  BY <1>1, WalkClosed
<1>3. OpenNodes' = OpenNodes \ {t}
  BY <1>1, <1>2 DEF OpenNodes, NodesOf
<1>5. ASSUME NEW i \in 1..n - 1
      PROVE  /\ Around(w[i].node) = {w[j].node : j \in 1..i - 1}
             /\ w[i].node < nx /\ nx <= Last(w[i].node) + 1
  <2>1. i \in 1..n /\ \A j \in 1..i - 1 : j \in 1..n - 1
    BY <1>2
  <2>2. {w[j].node : j \in 1..i - 1} = {walk[j].node : j \in 1..i - 1} /\ w[i] = walk[i]
    BY <1>2, <2>1
  <2> QED BY <2>1, <2>2 DEF Path
<1>6. ASSUME NEW m \in Nodes, NEW a \in Around(m), m >= nx, a < nx
      PROVE  a \in OpenNodes \ {t}
  <2>1. a \in OpenNodes
    BY <1>6 DEF Path
  <2>2. m <= Last(a) /\ Last(t) < nx /\ m \in Nat /\ nx \in Nat /\ Last(t) \in Nat
    <3>1. t \in Nodes /\ WellFormed /\ Last(t) < nx /\ nx \in 1..Len(tree) + 1
      BY <1>1, TopOK DEF AtClose, Nodes, SemaInv, TypeOK
    <3>2. Last(t) \in t..Len(tree) /\ Len(tree) \in Nat /\ t \in Nat /\ m \in Nat
      BY <3>1, NodeOK DEF Nodes
    <3>3. m <= Last(a)
      BY DEF Around, Inside
    <3> HIDE DEF t
    <3>4. Last(t) \in Nat /\ nx \in Nat
      BY <3>1, <3>2
    <3> QED BY <3>1, <3>2, <3>3, <3>4
  <2> HIDE DEF t
  <2>3. a # t
    BY <1>6, <2>2
  <2> QED BY <2>1, <2>3
<1>7. phase' = "declare" => declares
  BY <1>1 DEF Path
<1>8. \A i \in 1..Len(w) : /\ Around(w[i].node) = {w[j].node : j \in 1..i - 1}
                           /\ w[i].node < nx /\ nx <= Last(w[i].node) + 1
  BY <1>2, <1>5
<1>9. \A m \in Nodes : \A a \in Around(m) : m >= nx /\ a < nx => a \in NodesOf(w)
  BY <1>2, <1>6
<1> HIDE DEF n, t
<1>10. tree' = tree /\ declares' = declares /\ w = walk' /\ nx = next'
  BY <1>1
<1>11. Path'
  BY <1>7, <1>8, <1>9, <1>10, PathNext, Zenon
<1> QED BY <1>3, <1>11 DEF t

LEMMA PathSkipped ==
  ASSUME SemaInv, Path, AtNode, next' = Last(next) + 1,
         UNCHANGED <<tree, declares, phase, walk>>
  PROVE  Path' /\ OpenNodes' = OpenNodes
<1>1. tree' = tree /\ declares' = declares /\ phase' = phase /\ walk' = walk
  OBVIOUS
<1>2. OpenNodes' = OpenNodes
  BY <1>1 DEF OpenNodes, NodesOf
<1>4. /\ next \in Nodes /\ next \in Nat /\ Last(next) \in Nat /\ next <= Last(next) /\ Len(tree) \in Nat
      /\ \A a \in Nodes : a \in Nat /\ Last(a) \in Nat
  <2>1. next \in Nodes /\ WellFormed /\ Len(tree) \in Nat
    BY AtNodeOK, LenProperties DEF Nodes, SemaInv, WellFormed
  <2>2. ASSUME NEW a \in Nodes PROVE a \in Nat /\ Last(a) \in Nat /\ a <= Last(a)
    <3>1. Last(a) \in a..Len(tree) /\ a \in Nat
      BY <2>1, NodeOK DEF Nodes
    <3> QED BY <2>1, <3>1
  <2> QED BY <2>1, <2>2
<1> DEFINE l == Last(next)
<1>5. ASSUME NEW i \in 1..Len(walk) PROVE walk[i].node < l + 1 /\ l + 1 <= Last(walk[i].node) + 1
  <2>1. walk[i].node < next /\ walk[i].node \in OpenNodes /\ walk[i].node \in Nodes
    BY DEF Path, OpenNodes, NodesOf, SemaInv, WalkOnTree, Nodes
  <2>2. l <= Last(walk[i].node)
    BY <2>1, AroundNext
  <2> DEFINE a == walk[i].node
             la == Last(a)
  <2>3. a \in Nat /\ la \in Nat /\ l \in Nat /\ a < next /\ next <= l /\ l <= la
    BY <1>4, <2>1, <2>2
  <2> HIDE DEF a, la, l
  <2>4. a < l + 1 /\ l + 1 <= la + 1
    BY <1>4, <2>3
  <2> QED BY <2>4 DEF a, la
<1>6. ASSUME NEW m \in Nodes, NEW a \in Around(m), m >= l + 1, a < l + 1 PROVE a \in OpenNodes
  <2>1. a \in Nodes /\ m <= Last(a)
    BY DEF Around, Inside
  <2>2. CASE a < next
    BY <1>4, <1>6, <2>2 DEF Path
  <2>3. CASE next <= a
    <3>1. a <= l
      BY <1>4, <1>6, <2>1
    <3>2. Last(a) <= l
      BY <1>4, <2>1, <2>3, <3>1, Nested DEF SemaInv
    <3> QED BY <1>4, <1>6, <2>1, <3>2
  <2> QED BY <1>4, <2>1, <2>2, <2>3
<1> HIDE DEF l
<1>7. phase' = "declare" => declares
  BY <1>1 DEF Path
<1>8. l + 1 = next'
  BY DEF l
<1> DEFINE nx == l + 1
<1>9. /\ \A i \in 1..Len(walk) : /\ Around(walk[i].node) = {walk[j].node : j \in 1..i - 1}
                                 /\ walk[i].node < nx /\ nx <= Last(walk[i].node) + 1
      /\ \A m \in Nodes : \A a \in Around(m) : m >= nx /\ a < nx => a \in NodesOf(walk)
  BY <1>5, <1>6 DEF Path, OpenNodes
<1> HIDE DEF nx
<1>10. Path'
  BY <1>1, <1>7, <1>8, <1>9, PathNext DEF nx
<1> QED BY <1>2, <1>10
-----------------------------------------------------------------------------
(* What each activation that opens or ends leaves in the scopes.           *)
LEMMA OpenQuiet ==
  ASSUME SemaInv, Path, AtNode, Lexical(phase, next, walk, scopes),
         NEW pushed \in BOOLEAN, IsBlock(next) => phase # "resolve", ~BindsOpening(next)
  PROVE  Lexical(phase, next + 1, Opening(pushed), scopes)
<1> PICK w : w = Opening(pushed)
  OBVIOUS
<1>1. NodesOf(w) = OpenNodes \cup {next} /\ Pushed(phase, w)
  BY WalkOpened DEF Lexical
<1>2. PICK homes : /\ HomesOf(homes, Len(scopes), BlocksIn(phase, OpenNodes))
                   /\ InScopes(homes, scopes, phase, next, OpenNodes)
  BY DEF Lexical, OpenNodes
<1>3. BlocksIn(phase, NodesOf(w)) = BlocksIn(phase, OpenNodes)
  BY <1>1 DEF BlocksIn
<1>4. \A b \in Visited : Acts(phase, next + 1, NodesOf(w), b) <=> Acts(phase, next, OpenNodes, b)
  BY <1>1, ActsOpen
<1>5. InScopes(homes, scopes, phase, next + 1, NodesOf(w))
  BY <1>2, <1>4, NothingBound
<1> QED BY <1>1, <1>2, <1>3, <1>5 DEF Lexical

LEMMA OpenBinds ==
  ASSUME SemaInv, Path, AtNode, ~TooDeepHere, Lexical(phase, next, walk, scopes),
         NEW pushed \in BOOLEAN, IsBlock(next) => phase # "resolve", BindsOpening(next)
  PROVE  Lexical(phase, next + 1, Opening(pushed), BindAll(scopes, <<SymbolAt(next)>>))
<1> PICK w, nx, b : w = Opening(pushed) /\ nx = next + 1 /\ b = next
  OBVIOUS
<1> DEFINE B == BlocksIn(phase, OpenNodes)
           new == BindAll(scopes, <<SymbolAt(b)>>)
<1>1. /\ NodesOf(w) = OpenNodes \cup {next} /\ Pushed(phase, w)
      /\ scopes \in Stack /\ Len(scopes) \in Nat \ {0} /\ b \in Visited /\ next \in Nodes
      /\ SymbolAt(b) \in Symbol /\ Len(new) = Len(scopes) /\ Around(next) = OpenNodes
      /\ Len(scopes) \in 1..Len(scopes)
  <2>1. SymbolAt(b) \in Symbol
    BY AtNodeOK, SymbolOK DEF SymbolAt
  <2> QED BY <2>1, WalkOpened, StackTyped, StackLen, NextVisited, AroundNext, BindAllTop DEF Lexical
<1>2. PICK homes : /\ HomesOf(homes, Len(scopes), B)
                   /\ InScopes(homes, scopes, phase, next, OpenNodes)
  BY DEF Lexical, OpenNodes
<1>3. BlocksIn(phase, NodesOf(w)) = B
  BY <1>1 DEF BlocksIn
<1>4. B \in SUBSET (Nat \ {0})
  <2>1. Around(next) \subseteq 1..next - 1
    BY <1>1, AroundOK DEF SemaInv
  <2> QED BY <1>1, <2>1 DEF BlocksIn
<1>5. Home(b) = homes[Len(scopes)]
  <2>1. CASE phase = "declare"
    <3>1. Home(b) = 0 /\ B = {}
      BY <2>1 DEF BindsOpening, Home, IsKind, BlocksIn
    <3>2. homes[Len(scopes)] \in {0} \cup B
      BY <1>1, <1>2 DEF HomesOf
    <3> QED BY <3>1, <3>2
  <2>2. CASE phase # "declare"
    <3>1. phase = "resolve"
      BY <2>2 DEF AtNode, Walking
    <3>2. tree[next].kind \in {"let", "guard"}
      BY <2>2, <3>1 DEF BindsOpening, IsBlock
    <3>3. Blocks(next) = B
      BY <1>1, <3>1 DEF Blocks, BlocksIn, IsBlock
    <3> HIDE DEF B
    <3> QED BY <1>1, <1>2, <3>2, <3>3, BindsOnTop DEF SemaInv
  <2> QED BY <2>1, <2>2
<1>6. \A c \in Visited : Acts(phase, next, OpenNodes, c) => Newer(b, c)
  BY NewerOpen
<1>7. \A c \in Visited : Acts(phase, nx, NodesOf(w), c)
                           <=> Acts(phase, next, OpenNodes, c) \/ c = b
  BY <1>1, ActsOpen
<1> HIDE DEF B
<1>8. InScopes(homes, new, phase, nx, NodesOf(w))
  <2> HIDE DEF new
  <2>1. /\ scopes \in Stack /\ b \in Visited /\ SymbolAt(b) \in Symbol
        /\ HomesOf(homes, Len(scopes), B) /\ B \subseteq Nat \ {0}
        /\ InScopes(homes, scopes, phase, next, OpenNodes)
    BY <1>1, <1>2, <1>4
  <2>2. InScopes(homes, BindAll(scopes, <<SymbolAt(b)>>), phase, nx, NodesOf(w))
    BY <2>1, <1>5, <1>6, <1>7, BoundOnTop, Zenon
  <2> QED BY <2>2 DEF new
<1> HIDE DEF new
<1> QED BY <1>1, <1>2, <1>3, <1>8 DEF Lexical, new

LEMMA OpenPushes ==
  ASSUME SemaInv, Path, AtNode, ~TooDeepHere, Lexical(phase, next, walk, scopes),
         NEW pushed \in BOOLEAN, pushed, phase = "resolve", IsBlock(next)
  PROVE  LET new == Append(scopes, <<>>) IN
         Lexical(phase, next + 1, Opening(pushed),
                 IF BindsOpening(next) THEN BindAll(new, <<SymbolAt(next)>>) ELSE new)
<1> PICK w, nx, b : w = Opening(pushed) /\ nx = next + 1 /\ b = next
  OBVIOUS
<1> DEFINE B == BlocksIn(phase, OpenNodes \cup {next})
           new == Append(scopes, <<>>)
           bound == BindAll(new, <<SymbolAt(b)>>)
           n == Len(scopes) + 1
<1>1. /\ NodesOf(w) = OpenNodes \cup {next} /\ Pushed(phase, w)
      /\ scopes \in Stack /\ b \in Visited /\ next \in Nodes
      /\ SymbolAt(b) \in Symbol /\ Around(next) = OpenNodes
  <2>1. SymbolAt(b) \in Symbol
    BY AtNodeOK, SymbolOK DEF SymbolAt
  <2> QED BY <2>1, WalkOpened, StackTyped, NextVisited, AroundNext DEF Lexical
<1>2. new \in Stack /\ Len(new) = n
  BY <1>1, PushScopeOK, AppendIsNew DEF PushScope
<1>3. PICK homes : /\ HomesOf(homes, Len(scopes), BlocksIn(phase, OpenNodes))
                   /\ InScopes(homes, scopes, phase, next, OpenNodes)
  BY DEF Lexical, OpenNodes
<1>4. PICK h : /\ HomesOf(h, n, B) /\ h[n] = b
               /\ InScopes(h, new, phase, next, OpenNodes)
  BY <1>3, PushedHome
<1> HIDE DEF new, n
<1>5. CASE ~BindsOpening(next)
  <2>1. \A c \in Visited : Acts(phase, nx, NodesOf(w), c) <=> Acts(phase, next, OpenNodes, c)
    BY <1>1, <1>5, ActsOpen
  <2>2. InScopes(h, new, phase, nx, NodesOf(w))
    BY <1>4, <2>1, NothingBound
  <2>3. Lexical(phase, nx, w, new)
    BY <1>1, <1>2, <1>4, <2>2 DEF Lexical
  <2> QED BY <1>5, <2>3 DEF new
<1>6. CASE BindsOpening(next)
  <2>1. Home(b) = h[Len(new)]
    BY <1>2, <1>4, <1>6 DEF BindsOpening, IsBlock, Home, IsKind
  <2>2. \A c \in Visited : Acts(phase, next, OpenNodes, c) => Newer(b, c)
    BY <1>6, NewerOpen
  <2>3. \A c \in Visited : Acts(phase, nx, NodesOf(w), c)
                             <=> Acts(phase, next, OpenNodes, c) \/ c = b
    BY <1>1, <1>6, ActsOpen
  <2>4. B \in SUBSET (Nat \ {0})
    <3>1. Around(next) \subseteq 1..next - 1 /\ next \in Nat \ {0}
      BY <1>1, AroundOK DEF SemaInv
    <3> QED BY <1>1, <3>1 DEF BlocksIn
  <2> HIDE DEF B
  <2>5. InScopes(h, bound, phase, nx, NodesOf(w))
    <3> HIDE DEF bound
    <3>1. /\ new \in Stack /\ b \in Visited /\ SymbolAt(b) \in Symbol
          /\ HomesOf(h, Len(new), B) /\ B \subseteq Nat \ {0}
          /\ InScopes(h, new, phase, next, OpenNodes)
      BY <1>1, <1>2, <1>4, <2>4
    <3>2. InScopes(h, BindAll(new, <<SymbolAt(b)>>), phase, nx, NodesOf(w))
      BY <3>1, <2>1, <2>2, <2>3, BoundOnTop
    <3> QED BY <3>2 DEF bound
  <2>6. Len(bound) = n
    BY <1>1, <1>2, BindAllTop
  <2> HIDE DEF bound
  <2>7. Lexical(phase, nx, w, bound)
    BY <1>1, <1>4, <2>5, <2>6 DEF Lexical, B
  <2> QED BY <1>6, <2>7 DEF bound, new
<1> QED BY <1>5, <1>6

LEMMA CloseQuiet ==
  ASSUME SemaInv, Path, AtClose, Lexical(phase, next, walk, scopes),
         IsBlock(Top.node) => phase # "resolve", IsKind(Top.node, "guard") => phase = "declare"
  PROVE  Lexical(phase, next, Closing, scopes)
<1> PICK w : w = Closing
  OBVIOUS
<1>1. NodesOf(w) = OpenNodes \ {Top.node} /\ Pushed(phase, w)
  BY WalkClosed DEF Lexical, AtClose
<1>2. PICK homes : /\ HomesOf(homes, Len(scopes), BlocksIn(phase, OpenNodes))
                   /\ InScopes(homes, scopes, phase, next, OpenNodes)
  BY DEF Lexical, OpenNodes
<1>3. BlocksIn(phase, NodesOf(w)) = BlocksIn(phase, OpenNodes)
  BY <1>1 DEF BlocksIn
<1>4. \A b \in Visited : Acts(phase, next, NodesOf(w), b) <=> Acts(phase, next, OpenNodes, b)
  BY <1>1, ActsClose
<1>5. InScopes(homes, scopes, phase, next, NodesOf(w))
  BY <1>2, <1>4, NothingBound
<1> QED BY <1>1, <1>2, <1>3, <1>5 DEF Lexical

LEMMA CloseBinds ==
  ASSUME SemaInv, Path, AtClose, Lexical(phase, next, walk, scopes),
         phase = "resolve", IsKind(Top.node, "guard")
  PROVE  Lexical(phase, next, Closing, BindAll(scopes, <<SymbolAt(Top.node)>>))
<1> PICK w, t : w = Closing /\ t = Top.node
  OBVIOUS
<1> DEFINE B == BlocksIn(phase, OpenNodes)
           new == BindAll(scopes, <<SymbolAt(t)>>)
<1>1. /\ NodesOf(w) = OpenNodes \ {t} /\ Pushed(phase, w)
      /\ scopes \in Stack /\ t \in Visited /\ t \in Nodes
      /\ SymbolAt(t) \in Symbol /\ Len(new) = Len(scopes) /\ Around(t) = OpenNodes \ {t}
      /\ Len(scopes) \in Nat \ {0}
  <2>1. walk # <<>> /\ t \in Nodes
    BY TopOK DEF AtClose, Nodes
  <2>2. SymbolAt(t) \in Symbol
    BY <2>1, SymbolOK DEF SymbolAt, Nodes
  <2>3. NodesOf(w) = OpenNodes \ {t} /\ Pushed(phase, w)
    BY <2>1, WalkClosed DEF Lexical
  <2>4. t \in Visited /\ Around(t) = OpenNodes \ {t}
    BY <2>1, TopVisited
  <2>5. scopes \in Stack /\ Len(new) = Len(scopes) /\ Len(scopes) \in Nat \ {0}
    BY <2>2, StackTyped, StackLen, BindAllTop
  <2> QED BY <2>1, <2>2, <2>3, <2>4, <2>5
<1>2. PICK homes : /\ HomesOf(homes, Len(scopes), B)
                   /\ InScopes(homes, scopes, phase, next, OpenNodes)
  BY DEF Lexical, OpenNodes
<1>3. BlocksIn(phase, NodesOf(w)) = B /\ Blocks(t) = B
  BY <1>1 DEF BlocksIn, Blocks, IsBlock, IsKind
<1>4. B \in SUBSET (Nat \ {0})
  <2>1. Around(t) \subseteq 1..t - 1
    BY <1>1, AroundOK DEF SemaInv
  <2> QED BY <1>3, <2>1 DEF Blocks
<1>5. Home(t) = homes[Len(scopes)]
  <2>1. tree[t].kind \in {"let", "guard"}
    BY DEF IsKind
  <2> HIDE DEF B
  <2> QED BY <1>1, <1>2, <1>3, <2>1, BindsOnTop DEF SemaInv
<1>6. \A c \in Visited : Acts(phase, next, OpenNodes, c) => Newer(t, c)
  BY NewerClose
<1>7. \A c \in Visited : Acts(phase, next, NodesOf(w), c)
                           <=> Acts(phase, next, OpenNodes, c) \/ c = t
  BY <1>1, ActsClose
<1> HIDE DEF B
<1>8. InScopes(homes, new, phase, next, NodesOf(w))
  BY <1>1, <1>2, <1>4, <1>5, <1>6, <1>7, BoundOnTop, Zenon
<1> HIDE DEF new
<1> QED BY <1>1, <1>2, <1>3, <1>8 DEF Lexical, new

LEMMA ClosePops ==
  ASSUME SemaInv, Path, AtClose, Lexical(phase, next, walk, scopes),
         phase = "resolve", IsBlock(Top.node)
  PROVE  Lexical(phase, next, Closing, PopScope(scopes)) /\ Top.pushed
<1> PICK w, t : w = Closing /\ t = Top.node
  OBVIOUS
<1>1. NodesOf(w) = OpenNodes \ {t} /\ Pushed(phase, w) /\ Len(walk) \in 1..Len(walk) /\ walk # <<>>
  BY WalkClosed DEF Lexical, AtClose
<1>2. Top.pushed /\ Len(scopes) > 1
  BY <1>1, TopOK DEF Lexical, Pushed, Top
<1>3. PICK homes : /\ HomesOf(homes, Len(scopes), BlocksIn(phase, OpenNodes))
                   /\ InScopes(homes, scopes, phase, next, OpenNodes)
  BY DEF Lexical, OpenNodes
<1>4. PICK h : /\ HomesOf(h, Len(scopes) - 1, BlocksIn(phase, OpenNodes \ {t}))
               /\ InScopes(h, PopScope(scopes), phase, next, OpenNodes)
  BY <1>3, PoppedHome
<1>5. Len(PopScope(scopes)) = Len(scopes) - 1
  BY <1>2, StackTyped, PopScopeOK
<1>6. \A b \in Visited : Acts(phase, next, NodesOf(w), b) <=> Acts(phase, next, OpenNodes, b)
  BY <1>1, ActsClose DEF IsBlock, IsKind
<1>7. InScopes(h, PopScope(scopes), phase, next, NodesOf(w))
  BY <1>4, <1>6, NothingBound
<1> QED BY <1>1, <1>2, <1>4, <1>5, <1>7 DEF Lexical

LEMMA SkipQuiet ==
  ASSUME SemaInv, Path, AtNode, TooDeepHere, Lexical(phase, next, walk, scopes)
  PROVE  Lexical(phase, Last(next) + 1, walk, scopes)
<1>1. PICK homes : /\ HomesOf(homes, Len(scopes), BlocksIn(phase, OpenNodes))
                   /\ InScopes(homes, scopes, phase, next, OpenNodes)
  BY DEF Lexical, OpenNodes
<1>2. \A b \in Visited : Acts(phase, Last(next) + 1, OpenNodes, b) <=> Acts(phase, next, OpenNodes, b)
  BY ActsDeep
<1>3. InScopes(homes, scopes, phase, Last(next) + 1, OpenNodes)
  BY <1>1, <1>2, NothingBound
<1> QED BY <1>1, <1>3 DEF Lexical, OpenNodes

\* Declarations end: what is bound then is bound when resolution starts.
LEMMA DeclaredQuiet ==
  ASSUME SemaInv, phase = "declare", walk = <<>>, next > Len(tree),
         Lexical(phase, next, walk, scopes)
  PROVE  Lexical("resolve", 1, walk, scopes)
<1>1. NodesOf(walk) = {} /\ Len(walk) = 0
  BY DEF NodesOf
<1>2. PICK homes : /\ HomesOf(homes, Len(scopes), BlocksIn(phase, NodesOf(walk)))
                   /\ InScopes(homes, scopes, phase, next, NodesOf(walk))
  BY DEF Lexical
<1> PICK ph : ph = "resolve"
  OBVIOUS
<1>3. BlocksIn(ph, NodesOf(walk)) = BlocksIn(phase, NodesOf(walk)) /\ Pushed(ph, walk)
  BY <1>1 DEF BlocksIn, Pushed
<1>4. ASSUME NEW b \in Visited PROVE Acts(ph, 1, NodesOf(walk), b) <=> Acts(phase, next, NodesOf(walk), b)
  <2>1. b \in Nodes /\ b \in Nat \ {0} /\ Last(b) \in Nat /\ b <= Last(b) /\ Len(tree) \in Nat /\ next \in Nat
    BY VisitedOK, LenProperties DEF SemaInv, TypeOK
  <2>2. ~(b < 1) /\ ~(Last(b) < 1) /\ b < next
    BY <2>1 DEF Nodes
  <2>3. ph # "declare"
    OBVIOUS
  <2> QED BY <2>2, <2>3 DEF Acts
<1>5. InScopes(homes, scopes, ph, 1, NodesOf(walk))
  BY <1>2, <1>4, NothingBound
<1> QED BY <1>2, <1>3, <1>5 DEF Lexical
-----------------------------------------------------------------------------
(* Lookup finds what the tree says.                                        *)
LEMMA ShadowsOnce ==
  ASSUME WellFormed, NEW a \in Visited, NEW b \in Visited, a # b, Shadows(a, b)
  PROVE  ~Shadows(b, a)
<1>1. /\ a \in Nat \ {0} /\ b \in Nat \ {0} /\ Last(a) \in Nat /\ Last(b) \in Nat
      /\ a <= Last(a) /\ b <= Last(b)
  BY VisitedOK
<1>2. Home(a) \in Nat /\ Home(b) \in Nat
  BY HomeOK
<1>3. /\ Bound(a) \in Nat /\ (Bound(a) = 0 <=> IsKind(a, "fn"))
      /\ Bound(b) \in Nat /\ (Bound(b) = 0 <=> IsKind(b, "fn"))
  BY <1>1 DEF Bound
<1>4. ASSUME Newer(a, b), Newer(b, a) PROVE FALSE
  <2>1. Bound(a) = Bound(b)
    BY <1>3, <1>4 DEF Newer
  <2>2. IsKind(a, "fn") <=> IsKind(b, "fn")
    BY <1>3, <2>1
  <2>3. CASE IsKind(a, "fn")
    BY <1>1, <1>3, <1>4, <2>1, <2>2, <2>3 DEF Newer
  <2>4. CASE ~IsKind(a, "fn")
    BY <1>1, <1>3, <1>4, <2>1, <2>2, <2>4 DEF Newer
  <2> QED BY <2>3, <2>4
<1> QED BY <1>2, <1>4 DEF Shadows

LEMMA BindingsFound ==
  ASSUME SemaInv, Path, AtNode, phase = "resolve", IsKind(next, "ident"),
         NEW homes, HomesOf(homes, Len(scopes), BlocksIn(phase, OpenNodes))
  PROVE  Bindings(next) = UNION {InForce(phase, next, OpenNodes, homes[i], tree[next].name) :
                                   i \in 1..Len(scopes)}
<1> DEFINE n == Len(scopes)
           B == BlocksIn(phase, OpenNodes)
           x == tree[next].name
<1>1. /\ n \in Nat \ {0} /\ next \in Nodes /\ next \in Nat /\ Last(next) \in Nat /\ next <= Last(next)
      /\ Around(next) = OpenNodes /\ \A a \in OpenNodes : Last(next) <= Last(a)
  <2>1. next \in Nodes /\ next \in Nat /\ Last(next) \in next..Len(tree) /\ Len(tree) \in Nat
    BY AtNodeOK, LenProperties DEF Nodes, SemaInv, WellFormed
  <2> QED BY <2>1, AroundNext, StackTyped, StackLen
<1>2. Blocks(next) = B
  BY <1>1 DEF Blocks, BlocksIn, IsBlock
<1>3. \A h : h \in B \cup {0} <=> \E i \in 1..n : homes[i] = h
  <2>1. 1 \in 1..n
    BY <1>1
  <2> HIDE DEF B, n
  <2> QED BY <2>1 DEF HomesOf, B, n
<1>4. ASSUME NEW b \in Visited, Home(b) \in B \cup {0}
      PROVE  Acts(phase, next, OpenNodes, b) <=>
               \/ IsKind(b, "fn") /\ declares
               \/ IsKind(b, "let") /\ b < next
               \/ IsKind(b, "guard") /\ Last(b) < next
               \/ IsKind(b, "branch")
  <2>1. b \in Nat \ {0} /\ Last(b) \in Nat
    BY VisitedOK DEF SemaInv
  <2>2. phase # "declare"
    OBVIOUS
  <2>3. IsKind(b, "branch") => b < next
    <3> SUFFICES ASSUME IsKind(b, "branch") PROVE b < next
      OBVIOUS
    <3>1. Home(b) = b
      BY DEF Home
    <3>2. b \in B
      BY <1>4, <2>1, <3>1
    <3> QED BY <1>2, <3>2 DEF Blocks, Around, Inside
  <2>4. Last(b) < next => b \notin OpenNodes
    <3> SUFFICES ASSUME Last(b) < next, b \in OpenNodes PROVE FALSE
      OBVIOUS
    <3>1. Last(next) <= Last(b)
      BY <1>1
    <3> QED BY <1>1, <2>1, <3>1
  <2> QED BY <2>2, <2>3, <2>4 DEF Acts
<1> HIDE DEF B, n, x
<1>5. ASSUME NEW b PROVE b \in Bindings(next) <=>
                           \E i \in 1..n : b \in InForce(phase, next, OpenNodes, homes[i], x)
  <2>1. b \in Bindings(next) <=> /\ b \in Visited /\ tree[b].name = x /\ Home(b) \in B \cup {0}
                                 /\ Acts(phase, next, OpenNodes, b)
    BY <1>2, <1>4 DEF Bindings, x
  <2>2. (\E i \in 1..n : b \in InForce(phase, next, OpenNodes, homes[i], x)) <=>
          /\ b \in Visited /\ tree[b].name = x /\ (\E i \in 1..n : homes[i] = Home(b))
          /\ Acts(phase, next, OpenNodes, b)
    BY DEF InForce
  <2> QED BY <1>3, <2>1, <2>2
<1> QED BY <1>5 DEF n, x

LEMMA IdentFound ==
  ASSUME SemaInv, Path, AtNode, phase = "resolve", IsKind(next, "ident"),
         Lexical(phase, next, walk, scopes)
  PROVE  LookupType(scopes, tree[next].name) = TypeAt(next)
<1> DEFINE n == Len(scopes)
           x == tree[next].name
<1>1. PICK homes : /\ HomesOf(homes, n, BlocksIn(phase, OpenNodes))
                   /\ InScopes(homes, scopes, phase, next, OpenNodes)
  BY DEF Lexical, OpenNodes
<1> DEFINE S(i) == InForce(phase, next, OpenNodes, homes[i], x)
           All == Bindings(next)
<1>2. n \in Nat \ {0} /\ scopes \in Seq(Scope) /\ x \in Names
  <2>1. tree[next] \in Node
    BY AtNodeOK, NodeOK DEF SemaInv
  <2>2. tree[next].name \in Names
    BY <2>1 DEF Node
  <2> QED BY <2>2, StackTyped, StackLen DEF Stack
<1>3. All = UNION {S(i) : i \in 1..n}
  BY <1>1, BindingsFound
<1>4. \A i \in 1..n : Finds(scopes[i], x, S(i))
  BY <1>1, <1>2 DEF InScopes
<1>5. \A i \in 1..n : \A b \in S(i) : b \in Visited /\ Home(b) = homes[i]
  BY DEF InForce
<1>6. \A i \in 1..n : S(i) = {} => Lacks(scopes[i], x)
  BY <1>4 DEF Finds, NewestIn
<1>7. \A i, j \in 1..n : i < j => homes[i] < homes[j]
  BY <1>1 DEF HomesOf
<1> HIDE DEF S, All, n, x
<1>8. CASE All = {}
  <2>1. \A i \in 1..n : S(i) = {}
    BY <1>3, <1>8
  <2>2. LookupType(scopes, x) = Unknown
    BY <1>2, <1>6, <2>1, LookupNewest DEF n
  <2> QED BY <1>8, <2>2 DEF TypeAt, All, x
<1>9. CASE All # {}
  <2> DEFINE D == {n - i : i \in {j \in 1..n : S(j) # {}}}
  <2>1. D \in SUBSET Nat /\ D # {}
    <3>1. \E j \in 1..n : S(j) # {}
      BY <1>3, <1>9
    <3>2. \A j \in 1..n : n - j \in Nat
      BY <1>2
    <3> QED BY <3>1, <3>2
  <2>2. PICK e \in D : \A f \in D : e <= f
    <3> HIDE DEF D
    <3> QED BY <2>1, LeastNumber
  <2>3. PICK i \in 1..n : S(i) # {} /\ e = n - i
    OBVIOUS
  <2>4. \A j \in 1..n : S(j) # {} => j <= i
    <3> TAKE j \in 1..n
    <3> HAVE S(j) # {}
    <3>1. n - j \in D
      OBVIOUS
    <3>2. e <= n - j
      BY <2>2, <3>1
    <3> HIDE DEF D
    <3> QED BY <1>2, <2>3, <3>2
  <2> HIDE DEF D
  <2>5. PICK b, k : NewestIn(S(i), b) /\ Newest(scopes[i], x, k) /\ scopes[i][k].type = tree[b].type
    BY <1>4, <2>3 DEF Finds
  <2>6. \A j \in i + 1..n : Lacks(scopes[j], x)
    <3> TAKE j \in i + 1..n
    <3>1. j \in 1..n /\ ~(j <= i)
      BY <1>2
    <3> QED BY <1>6, <2>4, <3>1
  <2>7. LookupType(scopes, x) = tree[b].type
    BY <1>2, <2>5, <2>6, LookupNewest DEF n
  <2>8. b \in All /\ b \in S(i) /\ b \in Visited /\ All \subseteq Visited
    BY <1>3, <1>5, <2>5 DEF NewestIn
  <2>9. ASSUME NEW c \in All \ {b} PROVE Shadows(b, c)
    <3>1. PICK j \in 1..n : c \in S(j)
      BY <1>3
    <3>2. j <= i /\ Home(c) = homes[j] /\ Home(b) = homes[i]
      BY <1>5, <2>4, <2>8, <3>1
    <3>3. CASE j = i
      <4>1. Newer(b, c)
        BY <2>5, <3>1, <3>3 DEF NewestIn
      <4> QED BY <3>2, <3>3, <4>1 DEF Shadows
    <3>4. CASE j # i
      <4>1. homes[j] < homes[i]
        BY <1>7, <3>2, <3>4
      <4>2. Home(b) \in Nat /\ Home(c) \in Nat
        BY <2>8, HomeOK DEF SemaInv
      <4> QED BY <3>2, <4>1, <4>2 DEF Shadows
    <3> QED BY <3>3, <3>4
  <2>10. ASSUME NEW a \in All, \A c \in All \ {a} : Shadows(a, c) PROVE a = b
    <3> SUFFICES ASSUME a # b PROVE FALSE
      OBVIOUS
    <3>1. Shadows(a, b) /\ Shadows(b, a) /\ a \in Visited
      BY <2>8, <2>9, <2>10
    <3> QED BY <2>8, <3>1, ShadowsOnce DEF SemaInv
  <2>11. (CHOOSE a \in All : \A c \in All \ {a} : Shadows(a, c)) = b
    BY <2>8, <2>9, <2>10
  <2>12. TypeAt(next) = tree[b].type
    BY <1>9, <2>11 DEF TypeAt, All
  <2> QED BY <2>7, <2>12 DEF x
<1> QED BY <1>8, <1>9
-----------------------------------------------------------------------------
(* What was passed has its type.                                           *)
LEMMA NodesTyped ==
  ASSUME WellFormed
  PROVE  /\ Len(tree) \in Nat
         /\ \A n \in Nodes : /\ n \in Nat \ {0} /\ Last(n) \in Nat /\ n <= Last(n) /\ Last(n) <= Len(tree)
                             /\ tree[n].size > 1 => n + 1 \in Nodes /\ n + 1 <= Last(n)
<1>1. Len(tree) \in Nat
  BY LenProperties DEF WellFormed
<1>2. ASSUME NEW n \in Nodes
      PROVE  /\ n \in Nat \ {0} /\ Last(n) \in Nat /\ n <= Last(n) /\ Last(n) <= Len(tree)
             /\ tree[n].size > 1 => n + 1 \in Nodes /\ n + 1 <= Last(n)
  <2> DEFINE s == tree[n].size
             l == Last(n)
  <2>1. l \in n..Len(tree) /\ s \in Nat \ {0} /\ l = n + s - 1 /\ n \in 1..Len(tree)
    BY NodeOK DEF Nodes, Last
  <2> HIDE DEF s, l
  <2>2. l \in Nat /\ n <= l /\ l <= Len(tree) /\ (s > 1 => n + 1 \in 1..Len(tree) /\ n + 1 <= l) /\ n \in Nat \ {0}
    BY <1>1, <2>1
  <2> QED BY <2>2 DEF s, l, Nodes
<1> QED BY <1>1, <1>2

LEMMA TypesOpen ==
  ASSUME SemaInv, Path, AtNode, TypesRight(phase, next, OpenNodes, types),
         NEW ty, \A n \in Nodes \ {next} : ty[n] = types[n],
         ty[next] = types[next] \/ (phase # "declare" /\ ~IsKind(next, "group"))
  PROVE  TypesRight(phase, next + 1, OpenNodes \cup {next}, ty)
<1>1. WellFormed /\ next \in Nodes /\ next \in Nat /\ Around(next) = OpenNodes
  BY AroundNext, NodesTyped DEF SemaInv
<1>2. ASSUME NEW n \in Nodes, ~Passed(phase, next + 1, n) PROVE ty[n] = Unknown
  <2>1. ~Passed(phase, next, n) /\ (n = next => phase = "declare")
    BY <1>1, <1>2, NodesTyped DEF Passed
  <2> QED BY <2>1 DEF TypesRight
<1>3. ASSUME NEW n \in Visited, IsKind(n, "group"), tree[n].size > 1, Passed(phase, next + 1, n)
      PROVE  ty[n] = IF n \in OpenNodes \cup {next} THEN Unknown ELSE ty[n + 1]
  <2>1. n \in Nodes
    BY DEF Visited
  <2>2. CASE n = next
    <3>1. ty[n] = types[n] /\ ~Passed(phase, next, n)
      BY <1>1, <1>3, <2>2 DEF Passed
    <3> QED BY <2>1, <2>2, <3>1 DEF TypesRight
  <2>3. CASE n # next
    <3>1. Passed(phase, next, n) /\ ty[n] = types[n]
      BY <1>1, <1>3, <2>1, <2>3, NodesTyped DEF Passed
    <3>2. types[n] = IF n \in OpenNodes THEN Unknown ELSE types[n + 1]
      BY <1>3, <3>1 DEF TypesRight
    <3>3. n \notin OpenNodes => n + 1 # next /\ n + 1 \in Nodes
      <4>1. n + 1 \in Nodes /\ n + 1 <= Last(n) /\ n < next
        BY <1>1, <1>3, <2>1, <3>1, NodesTyped DEF Passed
      <4>2. n + 1 = next => n \in Around(next)
        BY <2>1, <4>1 DEF Around, Inside
      <4> QED BY <1>1, <4>1, <4>2
    <3> QED BY <2>3, <3>1, <3>2, <3>3
  <2> QED BY <2>2, <2>3
<1> QED BY <1>2, <1>3 DEF TypesRight

LEMMA TypesSkip ==
  ASSUME SemaInv, Path, AtNode, TooDeepHere, TypesRight(phase, next, OpenNodes, types)
  PROVE  TypesRight(phase, Last(next) + 1, OpenNodes, types)
<1>1. /\ WellFormed /\ next \in Nodes /\ next \in Nat /\ Last(next) \in Nat /\ next <= Last(next)
      /\ \A n \in Nodes : n \in Nat
  BY AroundNext, NodesTyped DEF SemaInv
<1> DEFINE l == Last(next)
<1>2. \A n \in next..l : n \notin Visited
  BY NextVisited
<1> HIDE DEF l
<1>3. \A n \in Nodes : ~Passed(phase, l + 1, n) => ~Passed(phase, next, n)
  BY <1>1 DEF Passed, l
<1>4. \A n \in Visited : Passed(phase, l + 1, n) => Passed(phase, next, n)
  <2> TAKE n \in Visited
  <2>1. n \in Nat /\ n \notin next..l
    BY <1>1, <1>2 DEF Visited
  <2>2. n < l + 1 => n < next
    BY <1>1, <2>1 DEF l
  <2> QED BY <2>2 DEF Passed
<1>5. TypesRight(phase, l + 1, OpenNodes, types)
  BY <1>3, <1>4 DEF TypesRight
<1> QED BY <1>5 DEF l

LEMMA TypesClose ==
  ASSUME SemaInv, Path, AtClose, TypesRight(phase, next, OpenNodes, types),
         NEW t, t = Top.node, NEW ty, \A n \in Nodes \ {t} : ty[n] = types[n],
         ty[t] = IF phase # "declare" /\ IsKind(t, "group") /\ tree[t].size > 1
                 THEN types[t + 1] ELSE types[t]
  PROVE  TypesRight(phase, next, OpenNodes \ {t}, ty)
<1>1. /\ WellFormed /\ t \in Nodes /\ t < next /\ Around(t) = OpenNodes \ {t} /\ t \in OpenNodes
      /\ next \in Nat /\ t \in Visited
  <2>1. walk # <<>>
    BY DEF AtClose
  <2>2. WellFormed /\ next \in Nat
    <3>1. next \in 1..Len(tree) + 1 /\ WellFormed
      BY DEF SemaInv, TypeOK
    <3> QED BY <3>1, NodesTyped
  <2> QED BY <2>1, <2>2, TopOK, TopVisited DEF Nodes
<1>2. ASSUME NEW n \in Nodes, ~Passed(phase, next, n) PROVE ty[n] = Unknown
  <2>1. n = t => phase = "declare"
    BY <1>1, <1>2 DEF Passed
  <2>2. types[n] = Unknown
    BY <1>2 DEF TypesRight
  <2> QED BY <2>1, <2>2
<1>3. ASSUME NEW n \in Visited, IsKind(n, "group"), tree[n].size > 1, Passed(phase, next, n)
      PROVE  ty[n] = IF n \in OpenNodes \ {t} THEN Unknown ELSE ty[n + 1]
  <2>1. n \in Nodes /\ n + 1 \in Nodes /\ n + 1 <= Last(n) /\ n \in Nat /\ phase # "declare"
    BY <1>1, <1>3, NodesTyped DEF Visited, Passed
  <2>2. CASE n = t
    <3>1. ty[n] = types[n + 1] /\ n + 1 # t
      BY <1>3, <2>1, <2>2
    <3> QED BY <2>1, <2>2, <3>1
  <2>3. CASE n # t
    <3>1. ty[n] = types[n] /\ types[n] = IF n \in OpenNodes THEN Unknown ELSE types[n + 1]
      BY <1>3, <2>1, <2>3 DEF TypesRight
    <3>2. n \notin OpenNodes => n + 1 # t
      <4>1. n + 1 = t => n \in Around(t)
        BY <2>1 DEF Around, Inside
      <4> QED BY <1>1, <4>1
    <3> QED BY <2>1, <2>3, <3>1, <3>2
  <2> QED BY <2>2, <2>3
<1> QED BY <1>2, <1>3 DEF TypesRight

LEMMA CleanBefore ==
  ASSUME NEW fl, NEW fl2, fl \subseteq fl2, Clean(fl2) PROVE Clean(fl)
BY DEF Clean

LEMMA IdentsOpen ==
  ASSUME SemaInv, Path, AtNode, IdentsRight(phase, next, types, flagged),
         NEW ty, \A n \in Nodes \ {next} : ty[n] = types[n],
         NEW fl, flagged \subseteq fl, fl \subseteq flagged \cup {next},
         next \in Idents /\ Clean(fl) =>
           IF phase = "declare" THEN next \notin fl
           ELSE ty[next] = TypeAt(next) /\ (next \in fl <=> TypeAt(next) = Unknown)
  PROVE  IdentsRight(phase, next + 1, ty, fl)
<1> SUFFICES ASSUME Clean(fl), NEW n \in Idents \cap Visited
             PROVE  IF Passed(phase, next + 1, n)
                    THEN ty[n] = TypeAt(n) /\ (n \in fl <=> TypeAt(n) = Unknown)
                    ELSE n \notin fl
  BY DEF IdentsRight
<1>1. next \in Nat /\ n \in Nat /\ n \in Nodes /\ Clean(flagged)
  BY AroundNext, NodesTyped, CleanBefore DEF SemaInv, Visited
<1>2. CASE n = next
  <2>1. Passed(phase, next + 1, n) <=> phase # "declare"
    BY <1>1, <1>2 DEF Passed
  <2> QED BY <1>2, <2>1
<1>3. CASE n # next
  <2>1. Passed(phase, next + 1, n) <=> Passed(phase, next, n)
    BY <1>1, <1>3 DEF Passed
  <2>2. ty[n] = types[n] /\ (n \in fl <=> n \in flagged)
    BY <1>1, <1>3
  <2> QED BY <1>1, <2>1, <2>2 DEF IdentsRight
<1> QED BY <1>2, <1>3

LEMMA IdentsSkip ==
  ASSUME SemaInv, Path, AtNode, TooDeepHere, IdentsRight(phase, next, types, flagged)
  PROVE  IdentsRight(phase, Last(next) + 1, types, flagged \cup {next})
<1> PICK fl, l : fl = flagged \cup {next} /\ l = Last(next)
  OBVIOUS
<1> SUFFICES ASSUME Clean(fl), NEW n \in Idents \cap Visited
             PROVE  IF Passed(phase, l + 1, n)
                    THEN types[n] = TypeAt(n) /\ (n \in fl <=> TypeAt(n) = Unknown)
                    ELSE n \notin fl
  BY DEF IdentsRight
<1>1. /\ next \in Nat /\ l \in Nat /\ next <= l /\ n \in Nat /\ n \in Nodes /\ Clean(flagged)
      /\ n \notin next..l
  BY AroundNext, NextVisited, NodesTyped, CleanBefore DEF SemaInv, Visited
<1>2. (n < l + 1 <=> n < next) /\ n # next
  BY <1>1
<1>3. Passed(phase, l + 1, n) <=> Passed(phase, next, n)
  BY <1>2 DEF Passed
<1>4. n \in fl <=> n \in flagged
  BY <1>2
<1> QED BY <1>1, <1>3, <1>4 DEF IdentsRight

LEMMA IdentsClose ==
  ASSUME IdentsRight(phase, next, types, flagged),
         NEW t, NEW ty, \A n \in Nodes \ {t} : ty[n] = types[n],
         NEW fl, flagged \subseteq fl, fl \subseteq flagged \cup {t},
         t \in Idents => fl = flagged /\ ty[t] = types[t]
  PROVE  IdentsRight(phase, next, ty, fl)
<1> SUFFICES ASSUME Clean(fl), NEW n \in Idents \cap Visited
             PROVE  IF Passed(phase, next, n)
                    THEN ty[n] = TypeAt(n) /\ (n \in fl <=> TypeAt(n) = Unknown)
                    ELSE n \notin fl
  BY DEF IdentsRight
<1>1. Clean(flagged) /\ ty[n] = types[n] /\ (n \in fl <=> n \in flagged)
  BY CleanBefore DEF Visited
<1> QED BY <1>1 DEF IdentsRight
-----------------------------------------------------------------------------
(* The invariant, step by step.                                            *)
LEMMA LexOpen ==
  ASSUME SemaInv, LexInv, NEW pushed \in BOOLEAN, Open(pushed),
         Clean(flagged') => Lexical(phase, next + 1, Opening(pushed), scopes'),
         \A n \in Nodes \ {next} : types'[n] = types[n],
         types'[next] = types[next] \/ (phase # "declare" /\ ~IsKind(next, "group")),
         flagged \subseteq flagged', flagged' \subseteq flagged \cup {next},
         next \in Idents /\ Clean(flagged') =>
           IF phase = "declare" THEN next \notin flagged'
           ELSE types'[next] = TypeAt(next) /\ (next \in flagged' <=> TypeAt(next) = Unknown)
  PROVE  LexInv'
<1> PICK ph, nx, w, sc, ty, fl, open :
      /\ ph = phase' /\ nx = next' /\ w = walk' /\ sc = scopes' /\ ty = types' /\ fl = flagged'
      /\ open = OpenNodes'
  OBVIOUS
<1>1. /\ tree' = tree /\ declares' = declares /\ ph = phase /\ nx = next + 1 /\ w = Opening(pushed)
      /\ AtNode /\ Path
  BY DEF Open, input, Opening, LexInv
<1>2. Path' /\ open = OpenNodes \cup {next}
  BY <1>1, PathOpened
<1>3. (Walking /\ Clean(flagged) => Lexical(phase, next, walk, scopes))'
  <2>1. ph \in {"declare", "resolve"} /\ Clean(flagged') => Lexical(ph, nx, w, sc)
    BY <1>1
  <2> QED BY <1>1, <2>1, LexicalNext
<1>4. TypesRight(phase, next, OpenNodes, types)'
  <2>1. TypesRight(phase, next + 1, OpenNodes \cup {next}, ty)
    BY <1>1, TypesOpen DEF LexInv
  <2>2. TypesRight(ph, nx, open, types')
    BY <1>1, <1>2, <2>1
  <2> QED BY <1>1, <2>2, TypesNext
<1>5. IdentsRight(phase, next, types, flagged)'
  <2>1. IdentsRight(phase, next + 1, ty, fl)
    BY <1>1, IdentsOpen DEF LexInv
  <2>2. IdentsRight(ph, nx, types', flagged')
    BY <1>1, <2>1
  <2> QED BY <1>1, <2>2, IdentsNext
<1> QED BY <1>2, <1>3, <1>4, <1>5 DEF LexInv

LEMMA LexClose ==
  ASSUME SemaInv, LexInv, Close,
         Clean(flagged') => Lexical(phase, next, Closing, scopes'),
         \A n \in Nodes \ {Top.node} : types'[n] = types[n],
         types'[Top.node] = IF /\ phase # "declare" /\ IsKind(Top.node, "group")
                               /\ tree[Top.node].size > 1
                            THEN types[Top.node + 1] ELSE types[Top.node],
         flagged \subseteq flagged', flagged' \subseteq flagged \cup {Top.node},
         Top.node \in Idents => flagged' = flagged
  PROVE  LexInv'
<1> PICK ph, nx, w, sc, ty, fl, open, t :
      /\ ph = phase' /\ nx = next' /\ w = walk' /\ sc = scopes' /\ ty = types' /\ fl = flagged'
      /\ open = OpenNodes' /\ t = Top.node
  OBVIOUS
<1>1. /\ tree' = tree /\ declares' = declares /\ ph = phase /\ nx = next /\ w = Closing
      /\ AtClose /\ Path
  BY DEF Close, input, Closing, LexInv
<1>2. Path' /\ open = OpenNodes \ {t}
  BY <1>1, PathClosed
<1>3. (Walking /\ Clean(flagged) => Lexical(phase, next, walk, scopes))'
  <2>1. ph \in {"declare", "resolve"} /\ Clean(flagged') => Lexical(ph, nx, w, sc)
    BY <1>1
  <2> QED BY <1>1, <2>1, LexicalNext
<1>4. TypesRight(phase, next, OpenNodes, types)'
  <2>1. TypesRight(phase, next, OpenNodes \ {t}, ty)
    BY <1>1, TypesClose DEF LexInv
  <2>2. TypesRight(ph, nx, open, types')
    BY <1>1, <1>2, <2>1
  <2> QED BY <1>1, <2>2, TypesNext
<1>5. IdentsRight(phase, next, types, flagged)'
  <2>1. t \in Idents => fl = flagged /\ ty[t] = types[t]
    BY DEF Idents, IsKind
  <2>2. IdentsRight(phase, next, ty, fl)
    BY <2>1, IdentsClose DEF LexInv
  <2>3. IdentsRight(ph, nx, types', flagged')
    BY <1>1, <2>2
  <2> QED BY <1>1, <2>3, IdentsNext
<1> QED BY <1>2, <1>3, <1>4, <1>5 DEF LexInv

\* A hook that fails leaves its mark.
LEMMA FlaggedUnclean ==
  ASSUME NEW n \in Visited, n \notin Idents, NEW fl, n \in fl PROVE ~Clean(fl)
BY DEF Clean

LEMMA LexicalNow ==
  ASSUME LexInv, Walking, flagged \subseteq flagged', Clean(flagged')
  PROVE  Lexical(phase, next, walk, scopes) /\ Clean(flagged)
BY CleanBefore DEF LexInv

LEMMA BindSymbolLex ==
  ASSUME NEW n \in Visited, n \notin Idents, BindSymbol(n)
  PROVE  /\ flagged \subseteq flagged' /\ flagged' \subseteq flagged \cup {n}
         /\ Clean(flagged') => scopes' = BindAll(scopes, <<SymbolAt(n)>>)
<1>1. PICK sc \in Bind(scopes, SymbolAt(n)) : scopes' = sc /\ Flag(n, sc = scopes)
  BY DEF BindSymbol, SymbolAt
<1>2. flagged \subseteq flagged' /\ flagged' \subseteq flagged \cup {n}
  BY <1>1 DEF Flag
<1>3. ASSUME Clean(flagged') PROVE sc = BindAll(scopes, <<SymbolAt(n)>>)
  <2>1. sc # scopes
    BY <1>1, <1>3, FlaggedUnclean DEF Flag
  <2> QED BY <1>1, <2>1 DEF Bind
<1> QED BY <1>1, <1>2, <1>3

LEMMA AtNext ==
  ASSUME SemaInv, LexInv, NEW pushed \in BOOLEAN, Open(pushed)
  PROVE  /\ AtNode /\ ~TooDeepHere /\ Path /\ Walking /\ next \in Visited /\ next \in Nodes
         /\ next \in Idents <=> IsKind(next, "ident")
         /\ types \in [1..Len(tree) -> Types \cup {Unknown}]
<1>1. AtNode /\ ~TooDeepHere /\ Path
  BY DEF Open, LexInv
<1> QED BY <1>1, NextVisited DEF AtNode, Visited, Idents, SemaInv, TypeOK

LEMMA LexDeclare == ASSUME SemaInv, LexInv, Declare PROVE LexInv'
<1> PICK pushed \in BOOLEAN : pushed = FALSE
  OBVIOUS
<1>1. Open(pushed) /\ phase = "declare" /\ UNCHANGED <<types, diags>>
  BY DEF Declare
<1>2. AtNode /\ ~TooDeepHere /\ Path /\ Walking /\ next \in Visited /\ next \in Nodes
  BY <1>1, AtNext
<1>3. /\ flagged \subseteq flagged' /\ flagged' \subseteq flagged \cup {next}
      /\ Clean(flagged') => Lexical(phase, next + 1, Opening(pushed), scopes')
      /\ next \in Idents => flagged' = flagged
  <2>1. CASE IsKind(next, "fn")
    <3>1. BindSymbol(next) /\ next \notin Idents /\ BindsOpening(next)
      BY <1>1, <2>1 DEF Declare, Idents, IsKind, BindsOpening
    <3>2. /\ flagged \subseteq flagged' /\ flagged' \subseteq flagged \cup {next}
          /\ Clean(flagged') => scopes' = BindAll(scopes, <<SymbolAt(next)>>)
      BY <1>2, <3>1, BindSymbolLex
    <3>3. ASSUME Clean(flagged') PROVE Lexical(phase, next + 1, Opening(pushed), scopes')
      <4>1. Lexical(phase, next, walk, scopes)
        BY <1>2, <3>2, <3>3, LexicalNow
      <4>2. Lexical(phase, next + 1, Opening(pushed), BindAll(scopes, <<SymbolAt(next)>>))
        BY <1>1, <1>2, <3>1, <4>1, OpenBinds
      <4> QED BY <3>2, <3>3, <4>2
    <3> QED BY <3>1, <3>2, <3>3
  <2>2. CASE ~IsKind(next, "fn")
    <3>1. scopes' = scopes /\ flagged' = flagged /\ ~BindsOpening(next)
      BY <1>1, <2>2 DEF Declare, IsKind, BindsOpening
    <3>2. ASSUME Clean(flagged') PROVE Lexical(phase, next + 1, Opening(pushed), scopes)
      <4>1. Lexical(phase, next, walk, scopes)
        BY <1>2, <3>1, <3>2, LexicalNow
      <4> QED BY <1>1, <1>2, <3>1, <4>1, OpenQuiet
    <3> QED BY <3>1, <3>2
  <2> QED BY <2>1, <2>2
<1>4. next \in Idents /\ Clean(flagged') => next \notin flagged'
  <2> SUFFICES ASSUME next \in Idents, Clean(flagged') PROVE next \notin flagged
    BY <1>3
  <2>1. ~Passed(phase, next, next) /\ Clean(flagged)
    BY <1>1, <1>3 DEF Passed
  <2> QED BY <1>2, <2>1 DEF LexInv, IdentsRight
<1>5. types' = types
  BY <1>1
<1> QED BY <1>1, <1>3, <1>4, <1>5, LexOpen

LEMMA LexPlain == ASSUME SemaInv, LexInv, ResolvePlain PROVE LexInv'
<1> PICK pushed \in BOOLEAN : pushed = FALSE
  OBVIOUS
<1>1. /\ Open(pushed) /\ phase = "resolve" /\ types' = types /\ scopes' = scopes /\ flagged' = flagged
      /\ ~IsBlock(next) /\ ~BindsOpening(next) /\ ~IsKind(next, "ident")
  BY DEF ResolvePlain, IsBlock, BindsOpening, IsKind
<1>2. AtNode /\ ~TooDeepHere /\ Path /\ Walking /\ next \in Visited /\ next \in Nodes /\ next \notin Idents
  BY <1>1, AtNext
<1>3. ASSUME Clean(flagged') PROVE Lexical(phase, next + 1, Opening(pushed), scopes)
  <2>1. Lexical(phase, next, walk, scopes)
    BY <1>1, <1>2, <1>3, LexicalNow
  <2> QED BY <1>1, <1>2, <2>1, OpenQuiet
<1> QED BY <1>1, <1>2, <1>3, LexOpen

LEMMA LexLet == ASSUME SemaInv, LexInv, ResolveLet PROVE LexInv'
<1> PICK pushed \in BOOLEAN : pushed = FALSE
  OBVIOUS
<1>1. /\ Open(pushed) /\ phase = "resolve" /\ types' = types /\ BindSymbol(next)
      /\ ~IsBlock(next) /\ BindsOpening(next) /\ ~IsKind(next, "ident")
  BY DEF ResolveLet, IsBlock, BindsOpening, IsKind
<1>2. AtNode /\ ~TooDeepHere /\ Path /\ Walking /\ next \in Visited /\ next \in Nodes /\ next \notin Idents
  BY <1>1, AtNext
<1>3. /\ flagged \subseteq flagged' /\ flagged' \subseteq flagged \cup {next}
      /\ Clean(flagged') => scopes' = BindAll(scopes, <<SymbolAt(next)>>)
  BY <1>1, <1>2, BindSymbolLex
<1>4. ASSUME Clean(flagged') PROVE Lexical(phase, next + 1, Opening(pushed), scopes')
  <2>1. Lexical(phase, next, walk, scopes)
    BY <1>2, <1>3, <1>4, LexicalNow
  <2>2. Lexical(phase, next + 1, Opening(pushed), BindAll(scopes, <<SymbolAt(next)>>))
    BY <1>1, <1>2, <2>1, OpenBinds
  <2> QED BY <1>3, <1>4, <2>2
<1> QED BY <1>1, <1>2, <1>3, <1>4, LexOpen

LEMMA LexBlock == ASSUME SemaInv, LexInv, ResolveBlock \/ ResolveBranch PROVE LexInv'
<1> DEFINE new == Append(scopes, <<>>)
<1>1. /\ phase = "resolve" /\ types' = types /\ IsBlock(next) /\ ~IsKind(next, "ident")
      /\ \E sc \in PushScope(scopes) :
           /\ Open(sc # scopes)
           /\ flagged \subseteq flagged' /\ flagged' \subseteq flagged \cup {next}
           /\ sc = scopes => next \in flagged'
           /\ next \notin flagged' => scopes' = IF BindsOpening(next) THEN BindAll(sc, <<SymbolAt(next)>>)
                                                ELSE sc
  <2>1. CASE ResolveBlock
    <3>1. phase = "resolve" /\ types' = types /\ IsBlock(next) /\ ~IsKind(next, "ident") /\ ~BindsOpening(next)
      BY <2>1 DEF ResolveBlock, IsBlock, IsKind, BindsOpening
    <3>2. PICK sc \in PushScope(scopes) : Open(sc # scopes) /\ scopes' = sc /\ Flag(next, sc = scopes)
      BY <2>1 DEF ResolveBlock
    <3> QED BY <3>1, <3>2 DEF Flag
  <2>2. CASE ResolveBranch
    <3>1. phase = "resolve" /\ types' = types /\ IsBlock(next) /\ ~IsKind(next, "ident") /\ BindsOpening(next)
      BY <2>2 DEF ResolveBranch, IsBlock, IsKind, BindsOpening
    <3>2. PICK sc \in PushScope(scopes) :
            /\ Open(sc # scopes)
            /\ \E after \in IF sc = scopes THEN {sc} ELSE Bind(sc, SymbolAt(next)) :
                 scopes' = after /\ Flag(next, after = sc)
      BY <2>2 DEF ResolveBranch, SymbolAt
    <3>3. PICK after \in IF sc = scopes THEN {sc} ELSE Bind(sc, SymbolAt(next)) :
            scopes' = after /\ Flag(next, after = sc)
      BY <3>2
    <3>4. /\ flagged \subseteq flagged' /\ flagged' \subseteq flagged \cup {next}
          /\ sc = scopes => next \in flagged'
          /\ next \notin flagged' => scopes' = BindAll(sc, <<SymbolAt(next)>>)
      BY <3>3 DEF Flag, Bind
    <3> QED BY <3>1, <3>2, <3>4
  <2> QED BY <2>1, <2>2
<1>2. PICK sc \in PushScope(scopes) :
        /\ Open(sc # scopes)
        /\ flagged \subseteq flagged' /\ flagged' \subseteq flagged \cup {next}
        /\ sc = scopes => next \in flagged'
        /\ next \notin flagged' => scopes' = IF BindsOpening(next) THEN BindAll(sc, <<SymbolAt(next)>>)
                                             ELSE sc
  BY <1>1
<1> PICK pushed \in BOOLEAN : pushed = (sc # scopes)
  OBVIOUS
<1>3. Open(pushed) /\ AtNode /\ ~TooDeepHere /\ Path /\ Walking /\ next \in Visited /\ next \in Nodes /\ next \notin Idents
  <2>1. Open(pushed)
    BY <1>2
  <2> QED BY <1>1, <2>1, AtNext
<1>4. ASSUME Clean(flagged') PROVE Lexical(phase, next + 1, Opening(pushed), scopes')
  <2>1. next \notin flagged'
    BY <1>3, <1>4, FlaggedUnclean
  <2>2. sc = new /\ pushed
    BY <1>2, <2>1 DEF PushScope
  <2>3. Lexical(phase, next, walk, scopes)
    BY <1>2, <1>3, <1>4, LexicalNow
  <2>4. Lexical(phase, next + 1, Opening(pushed),
                IF BindsOpening(next) THEN BindAll(new, <<SymbolAt(next)>>) ELSE new)
    BY <1>1, <1>3, <2>2, <2>3, OpenPushes
  <2> QED BY <1>2, <2>1, <2>2, <2>4
<1> QED BY <1>1, <1>2, <1>3, <1>4, LexOpen

LEMMA LexIdent == ASSUME SemaInv, LexInv, ResolveIdent PROVE LexInv'
<1> PICK pushed \in BOOLEAN : pushed = FALSE
  OBVIOUS
<1> DEFINE type == LookupType(scopes, tree[next].name)
<1>1. /\ Open(pushed) /\ phase = "resolve" /\ scopes' = scopes /\ IsKind(next, "ident")
      /\ IF type # Unknown THEN types' = [types EXCEPT ![next] = type] /\ flagged' = flagged
         ELSE flagged' = flagged \cup {next} /\ types' = types
  BY Zenon DEF ResolveIdent, Flag, IsKind
<1>2. /\ ~IsBlock(next) /\ ~BindsOpening(next) /\ ~IsKind(next, "group")
  BY <1>1 DEF IsBlock, BindsOpening, IsKind
<1>3. /\ AtNode /\ ~TooDeepHere /\ Path /\ Walking /\ next \in Visited /\ next \in Nodes /\ next \in Idents
      /\ types \in [1..Len(tree) -> Types \cup {Unknown}]
  BY <1>1, AtNext
<1> HIDE DEF type
<1>4. /\ \A n \in Nodes \ {next} : types'[n] = types[n]
      /\ types'[next] = IF type # Unknown THEN type ELSE types[next]
      /\ flagged \subseteq flagged' /\ flagged' \subseteq flagged \cup {next}
  BY <1>1, <1>3 DEF Nodes
<1>5. ASSUME Clean(flagged')
      PROVE  /\ Lexical(phase, next + 1, Opening(pushed), scopes)
             /\ types'[next] = TypeAt(next) /\ (next \in flagged' <=> TypeAt(next) = Unknown)
  <2>1. Lexical(phase, next, walk, scopes) /\ Clean(flagged)
    BY <1>3, <1>4, <1>5, LexicalNow
  <2>2. Lexical(phase, next + 1, Opening(pushed), scopes)
    BY <1>1, <1>2, <1>3, <2>1, OpenQuiet
  <2>3. type = TypeAt(next)
    BY <1>1, <1>3, <2>1, IdentFound DEF type
  <2>4. ~Passed(phase, next, next)
    <3>1. next \in Nat
      BY <1>3, NodesTyped DEF SemaInv
    <3> QED BY <3>1 DEF Passed
  <2>5. next \notin flagged /\ types[next] = Unknown
    BY <1>3, <2>1, <2>4 DEF LexInv, IdentsRight, TypesRight
  <2> QED BY <1>1, <1>4, <2>2, <2>3, <2>5
<1>6. phase # "declare"
  BY <1>1
<1> QED BY <1>1, <1>2, <1>4, <1>5, <1>6, LexOpen

LEMMA LexTooDeep == ASSUME SemaInv, LexInv, TooDeep PROVE LexInv'
<1> PICK ph, nx, w, sc, open, l :
      ph = phase' /\ nx = next' /\ w = walk' /\ sc = scopes' /\ open = OpenNodes' /\ l = Last(next) + 1
  OBVIOUS
<1>1. /\ tree' = tree /\ declares' = declares /\ ph = phase /\ phase' = phase /\ nx = l /\ w = walk
      /\ walk' = walk /\ sc = scopes /\ types' = types /\ flagged' = flagged \cup {next}
      /\ AtNode /\ TooDeepHere /\ Path /\ Walking /\ next' = l
  BY Zenon DEF TooDeep, input, LexInv, Flag, AtNode
<1>2. Path' /\ open = OpenNodes
  BY <1>1, PathSkipped
<1>3. (Walking /\ Clean(flagged) => Lexical(phase, next, walk, scopes))'
  <2>1. ph \in {"declare", "resolve"} /\ Clean(flagged') => Lexical(ph, nx, w, sc)
    <3> SUFFICES ASSUME Clean(flagged') PROVE Lexical(ph, nx, w, sc)
      OBVIOUS
    <3>1. Lexical(phase, next, walk, scopes)
      BY <1>1, LexicalNow
    <3>2. Lexical(phase, l, walk, scopes)
      BY <1>1, <3>1, SkipQuiet
    <3> QED BY <1>1, <3>2
  <2> QED BY <1>1, <2>1, LexicalNext
<1>4. TypesRight(phase, next, OpenNodes, types)'
  <2>1. TypesRight(phase, l, OpenNodes, types)
    BY <1>1, TypesSkip DEF LexInv
  <2>2. TypesRight(ph, nx, open, types')
    BY <1>1, <1>2, <2>1
  <2> QED BY <1>1, <2>2, TypesNext
<1>5. IdentsRight(phase, next, types, flagged)'
  <2>1. IdentsRight(phase, l, types, flagged \cup {next})
    BY <1>1, IdentsSkip DEF LexInv
  <2>2. IdentsRight(ph, nx, types', flagged')
    BY <1>1, <2>1
  <2> QED BY <1>1, <2>2, IdentsNext
<1> QED BY <1>2, <1>3, <1>4, <1>5 DEF LexInv

LEMMA AtTop ==
  ASSUME SemaInv, LexInv, Close
  PROVE  /\ AtClose /\ Path /\ Walking /\ walk # <<>> /\ Top.node \in Visited /\ Top.node \in Nodes
         /\ types \in [1..Len(tree) -> Types \cup {Unknown}]
<1>1. AtClose /\ walk # <<>> /\ Path
  BY DEF Close, AtClose, LexInv
<1> QED BY <1>1, TopVisited, TopOK DEF AtClose, Nodes, SemaInv, TypeOK

LEMMA LexCloseQuiet == ASSUME SemaInv, LexInv, CloseDeclare \/ ClosePlain PROVE LexInv'
<1>1. /\ Close /\ scopes' = scopes /\ types' = types /\ flagged' = flagged
      /\ IsBlock(Top.node) => phase # "resolve"
      /\ IsKind(Top.node, "guard") \/ IsKind(Top.node, "group") => phase = "declare"
  BY DEF CloseDeclare, ClosePlain, IsBlock, IsKind
<1>2. AtClose /\ Path /\ Walking
  BY <1>1, AtTop
<1>3. ASSUME Clean(flagged') PROVE Lexical(phase, next, Closing, scopes)
  <2>1. Lexical(phase, next, walk, scopes)
    BY <1>1, <1>2, <1>3, LexicalNow
  <2> QED BY <1>1, <1>2, <2>1, CloseQuiet
<1> QED BY <1>1, <1>3, LexClose

LEMMA LexCloseBlock == ASSUME SemaInv, LexInv, CloseBlock PROVE LexInv'
<1>1. /\ Close /\ phase = "resolve" /\ types' = types /\ flagged' = flagged
      /\ IsBlock(Top.node) /\ ~IsKind(Top.node, "group")
      /\ scopes' = IF Top.pushed THEN PopScope(scopes) ELSE scopes
  BY DEF CloseBlock, AfterBlock, IsBlock, IsKind
<1>2. AtClose /\ Path /\ Walking
  BY <1>1, AtTop
<1>3. ASSUME Clean(flagged') PROVE Lexical(phase, next, Closing, scopes')
  <2>1. Lexical(phase, next, walk, scopes)
    BY <1>1, <1>2, <1>3, LexicalNow
  <2>2. Lexical(phase, next, Closing, PopScope(scopes)) /\ Top.pushed
    BY <1>1, <1>2, <2>1, ClosePops
  <2> QED BY <1>1, <2>2
<1> QED BY <1>1, <1>3, LexClose

LEMMA LexCloseGuard == ASSUME SemaInv, LexInv, CloseGuard PROVE LexInv'
<1> PICK t : t = Top.node
  OBVIOUS
<1>1. /\ Close /\ phase = "resolve" /\ types' = types /\ IsKind(t, "guard")
      /\ ~IsKind(t, "group") /\ t \notin Idents
  BY DEF CloseGuard, IsKind, Idents
<1>2. AtClose /\ Path /\ Walking /\ t \in Visited /\ t \in Nodes
  BY <1>1, AtTop
<1> DEFINE list == <<SymbolAt(t)>>
<1>3. PICK e \in EarlyExit(list) : scopes' = e.scopes /\ Flag(t, ~e.all)
  BY DEF CloseGuard, SymbolAt
<1>4. flagged \subseteq flagged' /\ flagged' \subseteq flagged \cup {t}
  BY <1>3 DEF Flag
<1>5. ASSUME Clean(flagged') PROVE Lexical(phase, next, Closing, scopes')
  <2>1. e.all
    BY <1>1, <1>2, <1>3, <1>5, FlaggedUnclean DEF Flag
  <2>2. e \in ApplyNarrowings(scopes, list)
    BY <1>3, <2>1 DEF EarlyExit
  <2>3. Len(list) = 1 /\ SymbolAt(t) \in Symbol
    BY <1>2, SymbolOK DEF SymbolAt, Nodes
  <2>4. SubSeq(list, 1, 1) = list
    <3>1. list \in Seq(Symbol) /\ 1 \in 0..Len(list)
      BY <2>3
    <3>2. SubSeq(list, 1, 1) \in Seq(Symbol) /\ Len(SubSeq(list, 1, 1)) = 1 /\ \A k \in 1..1 : SubSeq(list, 1, 1)[k] = list[k]
      BY <3>1, FrontOf
    <3> DEFINE s == SubSeq(list, 1, 1)
    <3> HIDE DEF list, s
    <3> QED BY <2>3, <3>1, <3>2, SeqEqual DEF s
  <2>5. e.scopes = BindAll(scopes, list)
    <3> HIDE DEF list
    <3>1. PICK m \in 0..Len(list) : e = [scopes |-> BindAll(scopes, SubSeq(list, 1, m)), all |-> m = Len(list)]
      BY <2>2 DEF ApplyNarrowings
    <3>2. m = 1
      BY <2>1, <2>3, <3>1
    <3> QED BY <2>4, <3>1, <3>2
  <2>6. Lexical(phase, next, walk, scopes)
    BY <1>2, <1>4, <1>5, LexicalNow
  <2>7. Lexical(phase, next, Closing, BindAll(scopes, list))
    BY <1>1, <1>2, <2>6, CloseBinds
  <2> QED BY <1>3, <2>5, <2>7
<1> QED BY <1>1, <1>4, <1>5, LexClose

LEMMA LexCloseGroup == ASSUME SemaInv, LexInv, CloseGroup PROVE LexInv'
<1> PICK t : t = Top.node
  OBVIOUS
<1>1. /\ Close /\ phase = "resolve" /\ scopes' = scopes /\ flagged' = flagged
      /\ IsKind(t, "group") /\ ~IsBlock(t) /\ ~IsKind(t, "guard") /\ t \notin Idents
      /\ types' = IF tree[t].size > 1 /\ types[t + 1] # Unknown
                  THEN [types EXCEPT ![t] = types[t + 1]] ELSE types
  BY DEF CloseGroup, IsKind, IsBlock, Idents
<1>2. /\ AtClose /\ Path /\ Walking /\ t \in Visited /\ t \in Nodes /\ t \in OpenNodes /\ t < next
      /\ types \in [1..Len(tree) -> Types \cup {Unknown}]
  <2>1. walk # <<>> /\ Path
    BY <1>1, AtTop
  <2> QED BY <1>1, <2>1, AtTop, TopVisited
<1>3. tree[t].size > 1 => types[t] = Unknown
  <2>1. Passed(phase, next, t)
    BY <1>1, <1>2 DEF Passed
  <2> QED BY <1>1, <1>2, <2>1 DEF LexInv, TypesRight
<1>4. /\ \A n \in Nodes \ {t} : types'[n] = types[n]
      /\ types'[t] = IF tree[t].size > 1 THEN types[t + 1] ELSE types[t]
  <2> DEFINE v == types[t + 1]
             big == tree[t].size > 1
  <2>1. /\ types' = IF big /\ v # Unknown THEN [types EXCEPT ![t] = v] ELSE types
        /\ big => types[t] = Unknown
    BY <1>1, <1>3
  <2> HIDE DEF v, big
  <2>2. /\ \A n \in Nodes \ {t} : types'[n] = types[n]
        /\ types'[t] = IF big THEN v ELSE types[t]
    BY <1>2, <2>1 DEF Nodes
  <2> QED BY <2>2 DEF v, big
<1>5. ASSUME Clean(flagged') PROVE Lexical(phase, next, Closing, scopes)
  <2>1. Lexical(phase, next, walk, scopes)
    BY <1>1, <1>2, <1>5, LexicalNow
  <2> QED BY <1>1, <1>2, <2>1, CloseQuiet
<1>6. phase # "declare"
  BY <1>1
<1> QED BY <1>1, <1>4, <1>5, <1>6, LexClose

LEMMA LexEndWalk == ASSUME SemaInv, LexInv, EndWalk PROVE LexInv'
<1> PICK ph, nx, w, sc, open :
      ph = phase' /\ nx = next' /\ w = walk' /\ sc = scopes' /\ open = OpenNodes'
  OBVIOUS
<1>1. /\ Walking /\ walk = <<>> /\ next > Len(tree) /\ tree' = tree /\ declares' = declares
      /\ w = walk /\ walk' = walk /\ sc = scopes /\ types' = types /\ flagged' = flagged
      /\ \/ phase = "declare" /\ ph = "resolve" /\ nx = 1
         \/ phase = "resolve" /\ ph \in {"check", "done"} /\ nx = next
  BY DEF EndWalk, input, Walking
<1>2. /\ OpenNodes = {} /\ open = {} /\ NodesOf(w) = {} /\ Len(w) = 0
      /\ WellFormed /\ Len(tree) \in Nat /\ next \in 1..Len(tree) + 1
      /\ \A n \in Nodes : n \in Nat \ {0} /\ n < next
  <2>1. Len(walk) = 0 /\ WellFormed /\ Len(tree) \in Nat /\ next \in 1..Len(tree) + 1
    BY <1>1, LenProperties DEF SemaInv, WellFormed, TypeOK
  <2>2. \A n \in Nodes : n \in Nat \ {0} /\ n < next
    BY <1>1, <2>1 DEF Nodes
  <2> QED BY <1>1, <2>1, <2>2 DEF OpenNodes, NodesOf
<1>3. Path'
  <2>1. \A i \in 1..Len(w) : /\ Around(w[i].node) = {w[j].node : j \in 1..i - 1}
                             /\ w[i].node < nx /\ nx <= Last(w[i].node) + 1
    BY <1>2
  <2>2. \A m \in Nodes : \A a \in Around(m) : m >= nx /\ a < nx => a \in NodesOf(w)
    <3> SUFFICES ASSUME NEW m \in Nodes, NEW a \in Around(m), m >= nx, a < nx PROVE FALSE
      OBVIOUS
    <3>1. a \in Nodes /\ a \in Nat \ {0} /\ m \in Nat \ {0} /\ m < next /\ next \in Nat
      BY <1>2 DEF Around
    <3>2. nx = 1 \/ nx = next
      BY <1>1
    <3> QED BY <3>1, <3>2
  <2>3. phase' # "declare"
    BY <1>1
  <2> QED BY <1>1, <2>1, <2>2, <2>3, PathNext
<1>4. (Walking /\ Clean(flagged) => Lexical(phase, next, walk, scopes))'
  <2>1. ph \in {"declare", "resolve"} /\ Clean(flagged') => Lexical(ph, nx, w, sc)
    <3> SUFFICES ASSUME ph \in {"declare", "resolve"}, Clean(flagged') PROVE Lexical(ph, nx, w, sc)
      OBVIOUS
    <3>1. phase = "declare" /\ ph = "resolve" /\ nx = 1
      BY <1>1
    <3>2. Lexical(phase, next, walk, scopes)
      BY <1>1, LexicalNow
    <3>3. Lexical("resolve", 1, walk, scopes)
      BY <1>1, <3>1, <3>2, DeclaredQuiet
    <3> QED BY <1>1, <3>1, <3>3
  <2> QED BY <1>1, <2>1, LexicalNext
<1>5. \A n \in Nodes : \/ ~Passed(ph, nx, n) /\ ~Passed(phase, next, n)
                       \/ Passed(ph, nx, n) /\ Passed(phase, next, n)
  <2> TAKE n \in Nodes
  <2>1. CASE phase = "declare"
    <3>1. ~(n < nx) /\ ~Passed(phase, next, n)
      BY <1>1, <1>2, <2>1 DEF Passed
    <3> QED BY <3>1 DEF Passed
  <2>2. CASE phase = "resolve"
    <3>1. n < nx /\ n < next /\ ph # "declare" /\ phase # "declare"
      BY <1>1, <1>2, <2>2
    <3> QED BY <3>1 DEF Passed
  <2> QED BY <1>1, <2>1, <2>2
<1>6. TypesRight(phase, next, OpenNodes, types)'
  <2>1. TypesRight(ph, nx, open, types)
    BY <1>2, <1>5 DEF LexInv, TypesRight, Visited
  <2>2. TypesRight(ph, nx, open, types')
    BY <1>1, <2>1
  <2> QED BY <1>1, <2>2, TypesNext
<1>7. IdentsRight(phase, next, types, flagged)'
  <2>1. IdentsRight(ph, nx, types, flagged)
    BY <1>5 DEF LexInv, IdentsRight, Visited
  <2>2. IdentsRight(ph, nx, types', flagged')
    BY <1>1, <2>1
  <2> QED BY <1>1, <2>2, IdentsNext
<1> QED BY <1>3, <1>4, <1>6, <1>7 DEF LexInv

\* After the walks nothing the invariant is about changes, nor in a stutter.
LEMMA LexLater ==
  ASSUME SemaInv, LexInv, BeginBody \/ EndBody \/ NarrowAfter \/ Return \/ Done \/ UNCHANGED vars
  PROVE  LexInv'
<1> PICK ph, nx, w, sc, open :
      ph = phase' /\ nx = next' /\ w = walk' /\ sc = scopes' /\ open = OpenNodes'
  OBVIOUS
<1>1. /\ tree' = tree /\ declares' = declares /\ nx = next /\ w = walk /\ walk' = walk
      /\ next' = next /\ types' = types /\ flagged' = flagged
      /\ \/ phase \notin {"declare", "resolve"} /\ ph \notin {"declare", "resolve"}
         \/ ph = phase /\ sc = scopes
  BY DEF BeginBody, EndBody, NarrowAfter, Return, Done, vars, walkDone, input
<1>2. open = OpenNodes
  BY <1>1 DEF OpenNodes, NodesOf
<1>3. Path'
  <2>1. \A i \in 1..Len(w) : /\ Around(w[i].node) = {w[j].node : j \in 1..i - 1}
                             /\ w[i].node < nx /\ nx <= Last(w[i].node) + 1
    BY <1>1 DEF LexInv, Path
  <2>2. \A m \in Nodes : \A a \in Around(m) : m >= nx /\ a < nx => a \in NodesOf(w)
    BY <1>1 DEF LexInv, Path, OpenNodes
  <2>3. phase' = "declare" => declares
    BY <1>1 DEF LexInv, Path
  <2> QED BY <1>1, <2>1, <2>2, <2>3, PathNext
<1>4. (Walking /\ Clean(flagged) => Lexical(phase, next, walk, scopes))'
  <2>1. ph \in {"declare", "resolve"} /\ Clean(flagged') => Lexical(ph, nx, w, sc)
    BY <1>1 DEF LexInv, Walking
  <2> QED BY <1>1, <2>1, LexicalNext
<1>5. \A n : Passed(ph, nx, n) <=> Passed(phase, next, n)
  BY <1>1 DEF Passed
<1>6. TypesRight(phase, next, OpenNodes, types)'
  <2>1. TypesRight(ph, nx, open, types')
    BY <1>1, <1>2, <1>5 DEF LexInv, TypesRight
  <2> QED BY <1>1, <2>1, TypesNext
<1>7. IdentsRight(phase, next, types, flagged)'
  <2>1. IdentsRight(ph, nx, types', flagged')
    BY <1>1, <1>5 DEF LexInv, IdentsRight
  <2> QED BY <1>1, <2>1, IdentsNext
<1> QED BY <1>3, <1>4, <1>6, <1>7 DEF LexInv

LEMMA LexStarts == Init => LexInv
<1> SUFFICES ASSUME Init PROVE LexInv
  OBVIOUS
<1>1. /\ next = 1 /\ walk = <<>> /\ scopes = << <<>> >> /\ flagged = {}
      /\ types = [n \in 1..Len(tree) |-> Unknown] /\ declares \in BOOLEAN
      /\ phase = IF declares THEN "declare" ELSE "resolve"
  BY DEF Init
<1>2. /\ WellFormed /\ Len(walk) = 0 /\ OpenNodes = {} /\ NodesOf(walk) = {}
      /\ \A n \in Nodes : n \in Nat \ {0} /\ Last(n) \in Nat /\ n <= Last(n) /\ Last(n) <= Len(tree)
  <2>1. WellFormed
    BY SemaStarts DEF SemaInv
  <2>2. Len(walk) = 0
    BY <1>1
  <2> QED BY <2>1, <2>2, NodesTyped DEF OpenNodes, NodesOf
<1>3. \A n \in Nodes : ~(n < next) /\ ~(Last(n) < next)
  BY <1>1, <1>2
<1>4. Path
  <2>1. \A n \in Nodes : \A a \in Around(n) : ~(a < next)
    BY <1>3 DEF Around
  <2> QED BY <1>1, <1>2, <2>1 DEF Path
<1>5. Lexical(phase, next, walk, scopes)
  <2> DEFINE h == [i \in 1..1 |-> 0]
  <2>1. Len(scopes) = 1 /\ scopes[1] = <<>> /\ BlocksIn(phase, NodesOf(walk)) = {}
    BY <1>1, <1>2 DEF BlocksIn
  <2>2. HomesOf(h, Len(scopes), {})
    <3>1. h \in [1..1 -> {0} \cup {}] /\ h[1] = 0 /\ \A i, j \in 1..1 : ~(i < j)
      OBVIOUS
    <3> HIDE DEF h
    <3> QED BY <2>1, <3>1 DEF HomesOf
  <2>3. ASSUME NEW b \in Visited PROVE ~Acts(phase, next, NodesOf(walk), b)
    <3>1. ~(b < next) /\ ~(Last(b) < next)
      BY <1>3 DEF Visited
    <3> QED BY <1>1, <3>1 DEF Acts
  <2>4. \A j, x : InForce(phase, next, NodesOf(walk), j, x) = {}
    BY <2>3 DEF InForce
  <2>5. \A i \in 1..1, x \in Names : Lacks(scopes[i], x)
    <3>1. \A i \in 1..1 : scopes[i] = <<>> /\ Len(scopes[i]) = 0
      BY <2>1
    <3> QED BY <3>1 DEF Lacks
  <2>6. InScopes(h, scopes, phase, next, NodesOf(walk))
    BY <2>1, <2>4, <2>5 DEF InScopes, Finds
  <2>7. Pushed(phase, walk)
    BY <1>2 DEF Pushed
  <2> HIDE DEF h
  <2> QED BY <2>1, <2>2, <2>6, <2>7 DEF Lexical
<1>6. \A n \in Nodes : ~Passed(phase, next, n) /\ types[n] = Unknown
  BY <1>1, <1>3 DEF Passed, Nodes
<1>7. TypesRight(phase, next, OpenNodes, types)
  BY <1>6 DEF TypesRight, Visited
<1>8. IdentsRight(phase, next, types, flagged)
  BY <1>1, <1>6 DEF IdentsRight, Visited
<1> QED BY <1>4, <1>5, <1>7, <1>8 DEF LexInv

LEMMA LexSteps == SemaInv /\ LexInv /\ [Next]_vars => LexInv'
<1> SUFFICES ASSUME SemaInv, LexInv, [Next]_vars PROVE LexInv'
  OBVIOUS
<1>1. CASE TooDeep \/ Declare \/ ResolvePlain \/ ResolveLet
  BY <1>1, LexTooDeep, LexDeclare, LexPlain, LexLet
<1>2. CASE ResolveBlock \/ ResolveBranch \/ ResolveIdent
  BY <1>2, LexBlock, LexIdent
<1>3. CASE CloseDeclare \/ ClosePlain \/ CloseBlock \/ CloseGuard \/ CloseGroup
  BY <1>3, LexCloseQuiet, LexCloseBlock, LexCloseGuard, LexCloseGroup
<1>4. CASE EndWalk
  BY <1>4, LexEndWalk
<1>5. CASE BeginBody \/ EndBody \/ NarrowAfter \/ Return \/ Done \/ UNCHANGED vars
  BY <1>5, LexLater
<1> QED BY <1>1, <1>2, <1>3, <1>4, <1>5 DEF Next

(* Names resolve lexically, for every tree, limit and failure of an        *)
(* allocation no node was flagged for: every identifier visited has the    *)
(* type of the innermost, newest binding in force at its place, or is      *)
(* flagged when there is none, and a group has its first child's type      *)
(* (src/src/sema.c:320, 330, 340).                                         *)
THEOREM AlwaysResolvesLexically == Spec => []ResolvesLexically
<1>1. ASSUME SemaInv, LexInv PROVE ResolvesLexically
  <2> SUFFICES ASSUME Resolved, flagged \cap Visited \subseteq Idents
               PROVE  /\ \A n \in Idents \cap Visited :
                           types[n] = TypeAt(n) /\ (n \in flagged <=> TypeAt(n) = Unknown)
                      /\ \A n \in Visited :
                           IsKind(n, "group") /\ tree[n].size > 1 => types[n] = types[n + 1]
    BY DEF ResolvesLexically
  <2>1. /\ next = Len(tree) + 1 /\ walk = <<>> /\ phase # "declare" /\ Len(tree) \in Nat
    BY <1>1, LenProperties DEF SemaInv, OneThing, Resolved, Walking, WellFormed
  <2>2. OpenNodes = {}
    <3>1. Len(walk) = 0
      BY <2>1
    <3> QED BY <3>1 DEF OpenNodes, NodesOf
  <2>3. \A n \in Nodes : Passed(phase, next, n)
    BY <2>1 DEF Passed, Nodes
  <2>4. Clean(flagged)
    BY DEF Clean
  <2> QED BY <1>1, <2>2, <2>3, <2>4 DEF LexInv, TypesRight, IdentsRight, Visited
<1>2. Spec => []LexInv
  <2>1. Init => LexInv
    BY LexStarts
  <2>2. SemaInv /\ LexInv /\ [Next]_vars => LexInv'
    BY LexSteps
  <2> QED BY <2>1, <2>2, SemaAlways, PTL DEF Spec
<1> QED BY <1>1, <1>2, SemaAlways, PTL
=============================================================================
