---------------------------- MODULE LexScanProofs ----------------------------
(***************************************************************************)
(* Proofs about the token scanners: for every source, every configuration  *)
(* and every limit on nested interpolations, tokens lie in the source in   *)
(* its order and apart, nothing but white space is left out, markers of    *)
(* interpolations pair, the depth is that of the live activations, and     *)
(* numbers are the longest their grammar allows.                           *)
(***************************************************************************)
EXTENDS LexScanRef, Induction, FiniteSetTheorems, FunctionTheorems, SequenceTheorems

CallMade == \E call \in Calls : src = call[1] /\ cfg = call[2]
Offsets  == 0..Len(src) + 1
-----------------------------------------------------------------------------
(* What the substrate finds lies between where it starts and the end.      *)

LEMMA CallTyped ==
  ASSUME CallMade
  PROVE  /\ src \in Seq(STRING) /\ Len(src) \in Nat
         /\ cfg.strings \subseteq StringRule /\ cfg.comments \subseteq CommentRule
         /\ cfg.operators \subseteq Spelling /\ cfg.suffixes \subseteq Spelling
<1>1. PICK call \in Calls : src = call[1] /\ cfg = call[2]
  BY DEF CallMade
<1>2. src \in Seq(STRING)
  BY <1>1, CallsOK
<1> QED BY <1>1, <1>2, CallsOK, LenProperties

LEMMA SpellingLen ==
  ASSUME NEW s \in Spelling PROVE s \in Seq(STRING) /\ Len(s) \in Nat \ {0}
<1>1. s \in Seq(STRING) /\ s # <<>>
  BY DEF Spelling
<1> QED BY <1>1, EmptySeq, LenProperties

\* A spelling that matches at p ends inside the source.
LEMMA MatchEnds ==
  ASSUME CallMade, NEW p \in Nat, NEW lit, Len(lit) \in Nat, Matches(lit, p)
  PROVE  p + Len(lit) \in Nat /\ p <= p + Len(lit) /\ p + Len(lit) <= Len(src) + 1
<1>1. Len(src) \in Nat /\ Len(lit) \in Nat
  BY CallTyped
<1>2. p + Len(lit) - 1 <= Len(src)
  BY DEF Matches
<1> QED BY <1>1, <1>2

LEMMA MatchInside ==
  ASSUME CallMade, NEW p \in Nat, NEW lit \in Seq(STRING), Matches(lit, p)
  PROVE  p + Len(lit) \in Nat /\ p <= p + Len(lit) /\ p + Len(lit) <= Len(src) + 1
BY LenProperties, MatchEnds

LEMMA AtInside ==
  ASSUME CallMade, NEW p \in Nat, At(p) # "eof"
  PROVE  p <= Len(src) /\ At(p) = src[p]
<1>1. Len(src) \in Nat
  BY CallTyped
<1> QED BY <1>1 DEF At

\* The least offset from p on where `stops` holds, if the end is one.
LEMMA FirstStop ==
  ASSUME CallMade, NEW p \in Offsets, NEW stops \in SUBSET Nat, Len(src) + 1 \in stops
  PROVE  \E e \in p..Len(src) + 1 : e \in stops /\ \A i \in p..e - 1 : i \notin stops
<1>0. Len(src) \in Nat
  BY CallTyped
<1> DEFINE S == {e \in p..Len(src) + 1 : e \in stops}
<1>1. S \in SUBSET Nat /\ Len(src) + 1 \in S
  BY <1>0 DEF Offsets
<1>2. PICK e \in S : \A i \in S : e <= i
  <2> HIDE DEF S
  <2> QED BY <1>1, LeastNumber
<1>3. \A i \in p..e - 1 : i \notin stops
  <2> SUFFICES ASSUME NEW i \in p..e - 1, i \in stops PROVE FALSE
    OBVIOUS
  <2>1. i \in S
    BY <1>0, <1>2 DEF Offsets
  <2>2. e <= i /\ i \in Nat /\ e \in Nat
    BY <1>0, <1>2, <2>1 DEF Offsets
  <2> QED BY <2>2
<1> QED BY <1>2, <1>3

LEMMA RunEndIs ==
  ASSUME CallMade, NEW p \in Offsets, NEW S, "eof" \notin S
  PROVE  /\ RunEnd(S, p) \in p..Len(src) + 1
         /\ At(RunEnd(S, p)) \notin S /\ \A i \in p..RunEnd(S, p) - 1 : src[i] \in S
<1>0. Len(src) \in Nat /\ p \in Nat
  BY CallTyped DEF Offsets
<1> DEFINE stops == {e \in Nat : At(e) \notin S}
<1>1. stops \in SUBSET Nat /\ Len(src) + 1 \in stops
  BY <1>0 DEF At
<1>2. \E e \in p..Len(src) + 1 : e \in stops /\ \A i \in p..e - 1 : i \notin stops
  <2> HIDE DEF stops
  <2> QED BY <1>1, FirstStop
<1>3. PICK e \in p..Len(src) + 1 : At(e) \notin S /\ \A i \in p..e - 1 : At(i) \in S
  <2>1. PICK e \in p..Len(src) + 1 : e \in stops /\ \A i \in p..e - 1 : i \notin stops
    BY <1>2
  <2>2. \A i \in p..e - 1 : i \in Nat
    BY <1>0
  <2> QED BY <2>1, <2>2
<1>4. \A i \in p..e - 1 : src[i] \in S
  <2> SUFFICES ASSUME NEW i \in p..e - 1 PROVE src[i] \in S
    OBVIOUS
  <2>1. i <= Len(src)
    BY <1>0
  <2> QED BY <1>3, <2>1 DEF At
<1> DEFINE Ends(x) == At(x) \notin S /\ \A i \in p..x - 1 : src[i] \in S
<1>5. RunEnd(S, p) = CHOOSE x \in p..Len(src) + 1 : Ends(x)
  BY DEF RunEnd
<1>6. \E x \in p..Len(src) + 1 : Ends(x)
  BY <1>3, <1>4
<1> DEFINE run == RunEnd(S, p)
<1>7. run \in p..Len(src) + 1 /\ Ends(run)
  <2> HIDE DEF Ends
  <2> QED BY <1>5, <1>6
<1> QED BY <1>7

LEMMA RunEndInside ==
  ASSUME CallMade, NEW p \in Offsets, NEW S, "eof" \notin S
  PROVE  /\ RunEnd(S, p) \in p..Len(src) + 1
         /\ At(p) \in S => RunEnd(S, p) > p
<1> PICK run : run = RunEnd(S, p)
  OBVIOUS
<1>1. run \in p..Len(src) + 1 /\ At(run) \notin S
  BY RunEndIs
<1>2. Len(src) \in Nat /\ p \in Nat
  BY CallTyped DEF Offsets
<1>3. At(p) \in S => run # p
  BY <1>1
<1> QED BY <1>1, <1>2, <1>3

LEMMA LineEndInside ==
  ASSUME CallMade, NEW p \in Offsets
  PROVE  LineEnd(p) \in p..Len(src) + 1
<1>0. Len(src) \in Nat /\ p \in Nat
  BY CallTyped DEF Offsets
<1> DEFINE stops == {e \in Nat : At(e) \in {"nl", "eof"}}
<1>1. stops \in SUBSET Nat /\ Len(src) + 1 \in stops
  BY <1>0 DEF At
<1>2. \E e \in p..Len(src) + 1 : e \in stops /\ \A i \in p..e - 1 : i \notin stops
  <2> HIDE DEF stops
  <2> QED BY <1>1, FirstStop
<1>3. \E e \in p..Len(src) + 1 : At(e) \in {"nl", "eof"} /\ \A i \in p..e - 1 : src[i] # "nl"
  <2>1. PICK e \in p..Len(src) + 1 : e \in stops /\ \A i \in p..e - 1 : i \notin stops
    BY <1>2
  <2>2. \A i \in p..e - 1 : i \in Nat /\ i <= Len(src)
    BY <1>0
  <2>3. \A i \in p..e - 1 : src[i] # "nl"
    BY <2>1, <2>2 DEF At
  <2> QED BY <2>1, <2>3
<1> QED BY <1>3 DEF LineEnd

\* The longest rules at p are rules that match there.
LEMMA LongestMatches ==
  ASSUME NEW rules, NEW p, NEW r \in Longest(rules, p)
  PROVE  r \in rules /\ Matches(r.open, p)
BY DEF Longest
-----------------------------------------------------------------------------
(* Digits.                                                                 *)

\* How scan_digits goes from one offset to the next, and where it stops.
Skips(from, base, p) ==
  At(p) = "under" /\ Flag("under") /\ p > from /\ IsDigit(RunEnd({"under"}, p), base)
DigitGo(from, base) == {p \in Nat : IsDigit(p, base) \/ Skips(from, base, p)}
DigitTo(from, base, p) == IF IsDigit(p, base) THEN p + 1
                          ELSE IF Skips(from, base, p) THEN RunEnd({"under"}, p) ELSE p
DigitNext(from, base) == [p \in Nat |-> DigitTo(from, base, p)]
Left == [p \in Nat |-> IF p <= Len(src) THEN Len(src) + 1 - p ELSE 0]

LEMMA DigitStep ==
  ASSUME CallMade, NEW from \in Offsets, NEW base, NEW p \in DigitGo(from, base)
  PROVE  /\ p \in 0..Len(src)
         /\ DigitTo(from, base, p) \in p + 1..Len(src) + 1
         /\ IF IsDigit(p, base) THEN DigitTo(from, base, p) = p + 1
            ELSE /\ Skips(from, base, p) /\ p > from
                 /\ DigitTo(from, base, p) = RunEnd({"under"}, p)
<1>1. Len(src) \in Nat /\ from \in Nat /\ from <= Len(src) + 1
  BY CallTyped DEF Offsets
<1>2. p \in Nat
  BY DEF DigitGo
<1>3. CASE IsDigit(p, base)
  <2>1. p <= Len(src) /\ DigitTo(from, base, p) = p + 1
    BY <1>3 DEF IsDigit, DigitTo
  <2> QED BY <1>1, <1>2, <1>3, <2>1
<1>4. CASE ~IsDigit(p, base)
  <2>1. Skips(from, base, p) /\ At(p) = "under" /\ p > from
    BY <1>4 DEF DigitGo, Skips
  <2>2. p <= Len(src)
    BY <1>2, <2>1, AtInside
  <2>3. p \in Offsets
    BY <1>1, <1>2, <2>2 DEF Offsets
  <2>4. RunEnd({"under"}, p) \in p..Len(src) + 1 /\ RunEnd({"under"}, p) > p
    BY <2>1, <2>3, RunEndInside
  <2>5. DigitTo(from, base, p) = RunEnd({"under"}, p)
    BY <1>4, <2>1 DEF DigitTo
  <2> QED BY <1>1, <1>2, <1>4, <2>1, <2>2, <2>4, <2>5
<1> QED BY <1>3, <1>4

LEMMA DigitJumps ==
  ASSUME CallMade, NEW from \in Offsets, NEW base
  PROVE  Jumps(Nat, DigitGo(from, base), DigitNext(from, base), Left, Len(src) + 1)
<1> DEFINE go == DigitGo(from, base)
           next == DigitNext(from, base)
<1>1. Len(src) \in Nat
  BY CallTyped
<1>2. \A p \in Nat \ go : DigitTo(from, base, p) = p
  BY DEF DigitTo, DigitGo
<1>3. \A p \in go : p \in 0..Len(src) /\ DigitTo(from, base, p) \in p + 1..Len(src) + 1
  BY DigitStep
<1>4. \A p \in Nat : DigitTo(from, base, p) \in Nat
  BY <1>1, <1>2, <1>3
<1>5. next \in [Nat -> Nat] /\ \A p \in Nat : next[p] = DigitTo(from, base, p)
  BY <1>4 DEF DigitNext
<1>6. Left \in [Nat -> 0..Len(src) + 1]
  BY <1>1 DEF Left
<1>7. go \in SUBSET Nat
  BY DEF DigitGo
<1> HIDE DEF go, next
<1>8. ASSUME NEW p \in go PROVE Left[next[p]] < Left[p]
  <2>1. p \in Nat /\ next[p] \in Nat /\ p <= Len(src) /\ p < next[p] /\ next[p] <= Len(src) + 1
    BY <1>1, <1>3, <1>5, <1>7
  <2> QED BY <1>1, <2>1 DEF Left
<1> QED BY <1>5, <1>6, <1>7, <1>8 DEF Jumps, go, next

LEMMA DigitsFollow ==
  ASSUME CallMade, NEW from \in Offsets, NEW base
  PROVE  \E f : /\ ScanDigits(from, base) = f[from]
                /\ \A p \in Nat : f[p] = IF p \in DigitGo(from, base)
                                         THEN f[DigitTo(from, base, p)] ELSE p
<1> DEFINE go   == DigitGo(from, base)
           next == DigitNext(from, base)
           out  == [p \in Nat |-> p]
           Made1(f) == f = [p \in Nat |->
              IF IsDigit(p, base) THEN f[p + 1]
              ELSE IF At(p) = "under" /\ Flag("under") /\ p > from /\ IsDigit(RunEnd({"under"}, p), base)
                   THEN f[RunEnd({"under"}, p)]
              ELSE p]
           end  == CHOOSE f : Made1(f)
           Value(f, p) == IF IsDigit(p, base) THEN f[p + 1]
                          ELSE IF Skips(from, base, p) THEN f[RunEnd({"under"}, p)] ELSE p
<1>1. ASSUME NEW f, NEW p \in Nat
      PROVE  Value(f, p) = IF p \in go THEN f[DigitTo(from, base, p)] ELSE p
  <2>1. p \in go <=> IsDigit(p, base) \/ Skips(from, base, p)
    BY DEF DigitGo
  <2> HIDE DEF go
  <2> QED BY <2>1 DEF DigitTo
<1>2. \E f : Made1(f)
  <2>1. out \in [Nat -> Nat] /\ Len(src) + 1 \in Nat
    BY CallTyped
  <2>2. PICK f : Lands(f, Nat, Nat, go, next, out)
    <3> HIDE DEF go, next, out
    <3> QED BY <2>1, DigitJumps, JumpExists DEF go, next
  <2>3. f \in [Nat -> Nat] /\ \A p \in Nat : f[p] = IF p \in go THEN f[next[p]] ELSE out[p]
    <3> HIDE DEF go, next, out
    <3> QED BY <2>2 DEF Lands
  <2>4. \A p \in Nat : f[p] = Value(f, p)
    <3> HIDE DEF go, Value
    <3> QED BY <1>1, <2>3 DEF DigitNext
  <2>5. Made1(f)
    BY <2>3, <2>4 DEF Skips
  <2> QED BY <2>5
<1>3. Made1(end)
  <2> HIDE DEF Made1
  <2> QED BY <1>2
<1>4. ScanDigits(from, base) = end[from]
  BY DEF ScanDigits
<1>5. end = [p \in Nat |-> Value(end, p)]
  <2> HIDE DEF end
  <2> QED BY <1>3 DEF Skips
<1> HIDE DEF end
<1>6. \A p \in Nat : end[p] = Value(end, p)
  <2> HIDE DEF Value
  <2> QED BY <1>5
<1>7. \A p \in Nat : end[p] = IF p \in go THEN end[DigitTo(from, base, p)] ELSE p
  <2> HIDE DEF Value, go
  <2> QED BY <1>1, <1>6
<1> QED BY <1>4, <1>7

LEMMA DigitsInside ==
  ASSUME CallMade, NEW from \in Offsets, NEW base
  PROVE  ScanDigits(from, base) \in from..Len(src) + 1
<1> DEFINE go   == DigitGo(from, base)
           next == DigitNext(from, base)
<1>1. Len(src) \in Nat /\ from \in Nat /\ from <= Len(src) + 1 /\ Len(src) + 1 \in Nat
  BY CallTyped DEF Offsets
<1>2. PICK f : /\ ScanDigits(from, base) = f[from]
               /\ \A p \in Nat : f[p] = IF p \in go THEN f[DigitTo(from, base, p)] ELSE p
  BY DigitsFollow
<1> DEFINE Good == {p \in Nat : p <= Len(src) + 1 => f[p] \in p..Len(src) + 1}
<1>3. go \subseteq Nat
  BY DEF DigitGo
<1>4. Jumps(Nat, go, next, Left, Len(src) + 1)
  BY DigitJumps
<1>5. \A p \in go : /\ next[p] = DigitTo(from, base, p)
                    /\ p \in 0..Len(src) /\ next[p] \in p + 1..Len(src) + 1
  BY <1>3, DigitStep DEF DigitNext
<1> HIDE DEF go, next
<1>6. \A p \in Nat \ go : p \in Good
  BY <1>1, <1>2
<1>7. \A p \in go : next[p] \in Good => p \in Good
  BY <1>1, <1>2, <1>3, <1>5
<1>8. Nat \subseteq Good
  <2> HIDE DEF Good
  <2> QED BY <1>1, <1>4, <1>6, <1>7, JumpInduction
<1> QED BY <1>1, <1>2, <1>8

-----------------------------------------------------------------------------
(* Block comments.                                                         *)

LEMMA BlockEndInside ==
  ASSUME CallMade, NEW rule \in CommentRule, NEW from \in Offsets
  PROVE  BlockEnd(rule, from).to \in from..Len(src) + 1
<1> DEFINE n == Len(src)
           D == Nat \X (Nat \ {0})
           V == [to : Nat, closed : BOOLEAN]
           Opens(p)  == rule.nest /\ Matches(rule.open, p)
           Closes(p) == ~Opens(p) /\ Matches(rule.close, p)
           go  == {x \in D : x[1] <= n /\ ~(Closes(x[1]) /\ x[2] = 1)}
           To(x) == IF Opens(x[1]) THEN <<x[1] + Len(rule.open), x[2] + 1>>
                    ELSE IF Closes(x[1]) THEN <<x[1] + Len(rule.close), x[2] - 1>>
                    ELSE <<x[1] + 1, x[2]>>
           next == [x \in D |-> IF x \in go THEN To(x) ELSE x]
           Out(x) == IF x[1] > n THEN [to |-> x[1], closed |-> FALSE]
                     ELSE [to |-> x[1] + Len(rule.close), closed |-> TRUE]
           out == [x \in D |-> Out(x)]
           mu  == [x \in D |-> IF x[1] <= n THEN n + 1 - x[1] ELSE 0]
           Value(f, at) ==
             LET p == at[1]
                 d == at[2]
             IN  IF p > Len(src) THEN [to |-> p, closed |-> FALSE]
                 ELSE IF rule.nest /\ Matches(rule.open, p) THEN f[<<p + Len(rule.open), d + 1>>]
                 ELSE IF Matches(rule.close, p)
                      THEN IF d = 1 THEN [to |-> p + Len(rule.close), closed |-> TRUE]
                                    ELSE f[<<p + Len(rule.close), d - 1>>]
                 ELSE f[<<p + 1, d>>]
           Made1(f) == f = [at \in D |-> Value(f, at)]
           end == CHOOSE f : Made1(f)
<1>1. n \in Nat /\ from \in Nat /\ from <= n + 1
  BY CallTyped DEF Offsets
<1>2. /\ rule.open \in Seq(STRING) /\ Len(rule.open) \in Nat \ {0}
      /\ rule.close \in Seq(STRING) /\ Len(rule.close) \in Nat \ {0}
  <2>1. rule.open \in Spelling /\ rule.close \in Spelling
    BY DEF CommentRule
  <2> QED BY <2>1, SpellingLen
<1>3. ASSUME NEW x \in D PROVE x[1] \in Nat /\ x[2] \in Nat \ {0} /\ x = <<x[1], x[2]>>
  OBVIOUS
<1>4. \A p \in Nat : /\ Opens(p) => p + Len(rule.open) <= n + 1
                     /\ Closes(p) => p + Len(rule.close) <= n + 1
  <2> TAKE p \in Nat
  <2> QED BY <1>2, MatchInside
<1> HIDE DEF Opens, Closes
<1>5. ASSUME NEW x \in go
      PROVE  /\ x \in D /\ x[1] \in Nat /\ x[2] \in Nat \ {0} /\ x[1] <= n
             /\ To(x) \in D /\ x[1] < To(x)[1] /\ To(x)[1] <= n + 1
  <2>1. x \in D /\ x[1] \in Nat /\ x[2] \in Nat \ {0} /\ x[1] <= n
        /\ ~(Closes(x[1]) /\ x[2] = 1)
    BY <1>3
  <2> HIDE DEF n, go
  <2>2. CASE Opens(x[1])
    <3>1. To(x) = <<x[1] + Len(rule.open), x[2] + 1>>
      BY <2>2
    <3>2. x[1] + Len(rule.open) <= n + 1
      <4> HIDE DEF D, To
      <4> QED BY <1>4, <2>1, <2>2
    <3>3. x[1] + Len(rule.open) \in Nat /\ x[2] + 1 \in Nat \ {0}
      <4> HIDE DEF D, To
      <4> QED BY <1>2, <2>1
    <3> HIDE DEF To
    <3> QED BY <1>2, <2>1, <3>1, <3>2, <3>3
  <2>3. CASE ~Opens(x[1]) /\ Closes(x[1])
    <3>1. To(x) = <<x[1] + Len(rule.close), x[2] - 1>>
      BY <2>3
    <3>2. x[1] + Len(rule.close) <= n + 1 /\ x[1] + Len(rule.close) \in Nat
      <4> HIDE DEF D, To
      <4>1. x[1] + Len(rule.close) <= n + 1
        BY <1>4, <2>1, <2>3
      <4>2. x[1] + Len(rule.close) \in Nat
        BY <1>2, <2>1
      <4> QED BY <4>1, <4>2
    <3>3. x[2] - 1 \in Nat \ {0}
      <4>1. x[2] # 1 /\ x[2] \in Nat \ {0}
        BY <2>1, <2>3, Zenon
      <4>2. \A d \in Nat \ {0} : d # 1 => d - 1 \in Nat \ {0}
        OBVIOUS
      <4> QED BY <4>1, <4>2, Zenon
    <3> HIDE DEF To
    <3> QED BY <1>2, <2>1, <3>1, <3>2, <3>3
  <2>4. CASE ~Opens(x[1]) /\ ~Closes(x[1])
    <3>1. To(x) = <<x[1] + 1, x[2]>>
      BY <2>4
    <3>2. x[1] + 1 <= n + 1 /\ x[1] + 1 \in Nat
      BY <1>1, <2>1
    <3> HIDE DEF To
    <3> QED BY <2>1, <3>1, <3>2
  <2> QED BY <2>2, <2>3, <2>4
<1> HIDE DEF To
<1>6. Jumps(D, go, next, mu, n + 1)
  <2>1. next \in [D -> D]
    <3>1. \A x \in D : (IF x \in go THEN To(x) ELSE x) \in D
      <4> HIDE DEF go, D
      <4> QED BY <1>5
    <3> HIDE DEF go, D
    <3> QED BY <3>1
  <2>2. mu \in [D -> 0..n + 1]
    <3> HIDE DEF n
    <3>1. \A x \in D : (IF x[1] <= n THEN n + 1 - x[1] ELSE 0) \in 0..n + 1
      BY <1>1, <1>3
    <3> HIDE DEF D
    <3> QED BY <3>1
  <2>3. ASSUME NEW x \in go PROVE mu[next[x]] < mu[x]
    <3>1. next[x] = To(x) /\ x \in D /\ To(x) \in D
      <4> HIDE DEF go, D
      <4> QED BY <1>5
    <3>2. mu[x] = n + 1 - x[1]
      <4> HIDE DEF go, D
      <4> QED BY <1>5, <3>1
    <3>3. mu[To(x)] = IF To(x)[1] <= n THEN n + 1 - To(x)[1] ELSE 0
      <4> HIDE DEF go, D
      <4> QED BY <3>1
    <3>4. To(x)[1] \in Nat
      BY <1>3, <3>1
    <3> HIDE DEF mu, next, go, D, n
    <3> QED BY <1>1, <1>5, <3>1, <3>2, <3>3, <3>4
  <2>4. go \in SUBSET D
    <3> HIDE DEF D
    <3> QED OBVIOUS
  <2> HIDE DEF next, mu, go, D, n
  <2> QED BY <2>1, <2>2, <2>3, <2>4 DEF Jumps
<1>7. out \in [D -> V]
  <2>1. \A x \in D : Out(x) \in V
    <3> SUFFICES ASSUME NEW x \in D PROVE Out(x) \in V
      OBVIOUS
    <3>1. x[1] \in Nat /\ x[1] + Len(rule.close) \in Nat
      BY <1>2, <1>3
    <3> QED BY <3>1
  <2> HIDE DEF Out, D, V
  <2> QED BY <2>1
<1>8. ASSUME NEW f, NEW x \in D
      PROVE  Value(f, x) = IF x \in go THEN f[next[x]] ELSE out[x]
  <2>1. out[x] = Out(x) /\ next[x] = IF x \in go THEN To(x) ELSE x
    <3> HIDE DEF D, go, Out
    <3> QED OBVIOUS
  <2>2. x[1] \in Nat /\ (x \in go <=> x[1] <= n /\ ~(Closes(x[1]) /\ x[2] = 1))
    BY <1>3
  <2> HIDE DEF out, next, go, D
  <2> QED BY <1>1, <2>1, <2>2 DEF To, Opens, Closes
<1>9. \E f : Made1(f)
  <2>1. PICK f : Lands(f, D, V, go, next, out)
    <3>1. n + 1 \in Nat
      BY <1>1
    <3> HIDE DEF D, V, go, next, out, mu, n
    <3> QED BY <1>6, <1>7, <3>1, JumpExists
  <2>2. f \in [D -> V] /\ \A x \in D : f[x] = Value(f, x)
    <3> HIDE DEF D, V, go, next, out, mu, n, Value
    <3> QED BY <1>8, <2>1 DEF Lands
  <2>3. Made1(f)
    <3> HIDE DEF D, V, Value
    <3> QED BY <2>2
  <2> QED BY <2>3
<1>10. Made1(end)
  <2> HIDE DEF Made1
  <2> QED BY <1>9
<1>11. BlockEnd(rule, from) = end[<<from, 1>>]
  BY DEF BlockEnd
<1> HIDE DEF end
<1>12. \A x \in D : end[x] = IF x \in go THEN end[next[x]] ELSE out[x]
  <2>1. \A x \in D : end[x] = Value(end, x)
    <3> HIDE DEF Value, D
    <3> QED BY <1>10
  <2> HIDE DEF Value, D, go, next, out
  <2> QED BY <1>8, <2>1
<1> DEFINE Good == {x \in D : x[1] <= n + 1 => end[x].to \in x[1]..n + 1}
<1>13. ASSUME NEW x \in D \ go PROVE x \in Good
  <2>1. end[x] = Out(x) /\ x \in D
    <3> HIDE DEF D, go, next, Out
    <3> QED BY <1>12
  <2>2. x[1] \in Nat /\ (x[1] <= n => x[1] + Len(rule.close) <= n + 1)
    BY <1>3, <1>4
  <2>3. x[1] <= n + 1 => Out(x).to \in x[1]..n + 1
    <3> HIDE DEF D, go, n
    <3> QED BY <1>1, <1>2, <2>2
  <2> HIDE DEF D, go, n, Out
  <2> QED BY <2>1, <2>3
<1>14. ASSUME NEW x \in go, next[x] \in Good PROVE x \in Good
  <2>1. end[x] = end[To(x)] /\ x \in D /\ To(x) \in Good
    <3>1. x \in D
      BY <1>5
    <3> HIDE DEF D, go, out, Good
    <3> QED BY <1>12, <1>14, <3>1
  <2>2. To(x)[1] <= n + 1 => end[To(x)].to \in To(x)[1]..n + 1
    BY <2>1
  <2>3. x[1] <= n + 1 => end[x].to \in x[1]..n + 1
    <3>1. To(x)[1] \in Nat
      BY <1>3, <1>5
    <3> HIDE DEF D, go, n, Good
    <3> QED BY <1>1, <1>5, <2>1, <2>2, <3>1
  <2> HIDE DEF D, go, n
  <2> QED BY <2>1, <2>3
<1>15. D \subseteq Good
  <2>1. n + 1 \in Nat
    BY <1>1
  <2> HIDE DEF D, go, next, mu, Good, n
  <2> QED BY <1>6, <1>13, <1>14, <2>1, JumpInduction
<1>16. <<from, 1>> \in D
  BY <1>1
<1>17. end[<<from, 1>>].to \in from..n + 1
  <2>1. <<from, 1>> \in Good
    <3> HIDE DEF Good, D
    <3> QED BY <1>15, <1>16
  <2>2. from <= n + 1
    BY <1>1
  <2> QED BY <2>1, <2>2
<1> QED BY <1>11, <1>17
-----------------------------------------------------------------------------
(* Numbers.                                                                *)

LEMMA NoEofClass == "eof" \notin IdentCont /\ "eof" \notin IdentStart /\ "eof" \notin {"under"}
BY DEF IdentCont, IdentStart, Letters, Digits

LEMMA SuffixInside ==
  ASSUME CallMade, NEW p \in Offsets
  PROVE  Suffixed(p) \in p..Len(src) + 1
<1>0. Len(src) \in Nat /\ p \in Nat /\ p <= Len(src) + 1
  BY CallTyped DEF Offsets
<1> DEFINE best  == Longest({[open |-> s] : s \in cfg.suffixes}, p)
           after == p + Len((CHOOSE s \in best : TRUE).open)
<1>1. CASE best = {}
  BY <1>0, <1>1 DEF Suffixed
<1>2. CASE best # {}
  <2>1. PICK r \in best : r = CHOOSE s \in best : TRUE
    BY <1>2
  <2>2. r \in {[open |-> s] : s \in cfg.suffixes} /\ Matches(r.open, p)
    BY LongestMatches
  <2>3. r.open \in Seq(STRING)
    BY <2>2, CallTyped, SpellingLen
  <2>4. p + Len(r.open) \in p..Len(src) + 1
    BY <1>0, <2>2, <2>3, MatchInside
  <2>5. Suffixed(p) \in {p, after}
    BY <1>2 DEF Suffixed
  <2>6. after = p + Len(r.open)
    BY <2>1
  <2> HIDE DEF after, best
  <2> QED BY <1>0, <2>4, <2>5, <2>6
<1> QED BY <1>1, <1>2

LEMMA FractionInside ==
  ASSUME CallMade, NEW p \in Offsets
  PROVE  Fraction(p) \in p..Len(src) + 1
<1>0. Len(src) \in Nat /\ p \in Nat /\ p <= Len(src) + 1
  BY CallTyped DEF Offsets
<1>1. CASE At(p) = "."
  <2>1. p <= Len(src)
    BY <1>0, <1>1, AtInside
  <2>2. p + 1 \in Offsets
    BY <1>0, <2>1 DEF Offsets
  <2>3. ScanDigits(p + 1, 10) \in p + 1..Len(src) + 1
    BY <2>2, DigitsInside
  <2>4. Fraction(p) \in {p, ScanDigits(p + 1, 10)}
    BY DEF Fraction
  <2> QED BY <1>0, <2>3, <2>4
<1>2. CASE At(p) # "."
  BY <1>0, <1>2 DEF Fraction
<1> QED BY <1>1, <1>2

LEMMA ExponentInside ==
  ASSUME CallMade, NEW p \in Offsets
  PROVE  Exponent(p) \in p..Len(src) + 1
<1>0. Len(src) \in Nat /\ p \in Nat /\ p <= Len(src) + 1
  BY CallTyped DEF Offsets
<1> DEFINE sign == IF At(p + 1) \in {"+", "-"} THEN p + 2 ELSE p + 1
<1>1. sign \in Nat /\ p < sign
  BY <1>0
<1>2. Exponent(p) = IF Flag("exponent") /\ At(p) = "e" /\ IsDigit(sign, 10)
                    THEN ScanDigits(sign, 10) ELSE p
  BY DEF Exponent
<1> HIDE DEF sign
<1>3. CASE IsDigit(sign, 10)
  <2>1. sign <= Len(src)
    BY <1>3 DEF IsDigit
  <2>2. sign \in Offsets
    BY <1>0, <1>1, <2>1 DEF Offsets
  <2>3. ScanDigits(sign, 10) \in sign..Len(src) + 1
    BY <2>2, DigitsInside
  <2> QED BY <1>0, <1>1, <1>2, <2>3
<1>4. CASE ~IsDigit(sign, 10)
  BY <1>0, <1>2, <1>4
<1> QED BY <1>3, <1>4
-----------------------------------------------------------------------------
(* Counting in sequences.                                                  *)

Hits(s, T) == Cardinality({i \in 1..Len(s) : s[i] \in T})

LEMMA HitsType ==
  ASSUME NEW S, NEW s \in Seq(S), NEW T
  PROVE  IsFiniteSet({i \in 1..Len(s) : s[i] \in T}) /\ Hits(s, T) \in Nat
<1>1. Len(s) \in Nat
  BY LenProperties
<1>2. IsFiniteSet(1..Len(s))
  BY <1>1, FS_Interval
<1>3. {i \in 1..Len(s) : s[i] \in T} \subseteq 1..Len(s)
  OBVIOUS
<1>4. IsFiniteSet({i \in 1..Len(s) : s[i] \in T})
  BY <1>2, <1>3, FS_Subset
<1> QED BY <1>4, FS_CardinalityType DEF Hits

LEMMA Joined ==
  ASSUME NEW S, NEW s \in Seq(S), NEW r \in Seq(S)
  PROVE  /\ s \o r \in Seq(S)
         /\ Len(s) \in Nat /\ Len(r) \in Nat /\ Len(s \o r) = Len(s) + Len(r)
         /\ \A i \in 1..Len(s) : (s \o r)[i] = s[i]
         /\ \A i \in 1..Len(r) : (s \o r)[i + Len(s)] = r[i]
<1>1. Len(s) \in Nat /\ Len(r) \in Nat
  BY LenProperties
<1>2. s \o r \in Seq(S) /\ Len(s \o r) = Len(s) + Len(r)
  OBVIOUS
<1>3. \A i \in 1..Len(s) : (s \o r)[i] = s[i]
  OBVIOUS
<1>4. \A i \in 1..Len(r) : (s \o r)[i + Len(s)] = r[i]
  <2> SUFFICES ASSUME NEW i \in 1..Len(r) PROVE (s \o r)[i + Len(s)] = r[i]
    OBVIOUS
  <2>1. i + Len(s) \in 1..Len(s) + Len(r) /\ i + Len(s) > Len(s) /\ i + Len(s) - Len(s) = i
    BY <1>1
  <2> QED BY <1>1, <2>1
<1> QED BY <1>1, <1>2, <1>3, <1>4

LEMMA HitsConcat ==
  ASSUME NEW S, NEW s \in Seq(S), NEW r \in Seq(S), NEW T
  PROVE  Hits(s \o r, T) = Hits(s, T) + Hits(r, T)
<1> DEFINE m == Len(s)
           n == Len(r)
           A == {i \in 1..m : s[i] \in T}
           B == {i \in 1..n : r[i] \in T}
           C == {i \in m + 1..m + n : r[i - m] \in T}
           f == [i \in B |-> i + m]
<1>0. m \in Nat /\ n \in Nat
  BY LenProperties
<1>1. IsFiniteSet(A) /\ IsFiniteSet(B) /\ Hits(s, T) = Cardinality(A) /\ Hits(r, T) = Cardinality(B)
  BY HitsType DEF Hits
<1>2. {i \in 1..Len(s \o r) : (s \o r)[i] \in T} = A \cup C
  <2>1. Len(s \o r) = m + n /\ \A i \in 1..m : (s \o r)[i] = s[i]
    BY Joined
  <2>2. ASSUME NEW i \in m + 1..m + n PROVE (s \o r)[i] = r[i - m]
    <3>1. i - m \in 1..n /\ (i - m) + m = i
      BY <1>0
    <3>2. (s \o r)[(i - m) + m] = r[i - m]
      BY <3>1, Joined
    <3> QED BY <3>1, <3>2
  <2> HIDE DEF m, n
  <2>3. \A i \in 1..m + n : i \in 1..m \/ i \in m + 1..m + n
    BY <1>0
  <2>4. 1..m \subseteq 1..m + n /\ m + 1..m + n \subseteq 1..m + n
    BY <1>0
  <2> QED BY <2>1, <2>2, <2>3, <2>4
<1> HIDE DEF m, n
<1>3. f \in Bijection(B, C)
  <2>1. f \in [B -> C]
    <3> SUFFICES ASSUME NEW i \in B PROVE i + m \in C
      OBVIOUS
    <3>1. i \in 1..n /\ i + m \in m + 1..m + n /\ (i + m) - m = i
      BY <1>0
    <3> QED BY <3>1
  <2>2. \A i, j \in B : f[i] = f[j] => i = j
    BY <1>0
  <2>3. ASSUME NEW c \in C PROVE c - m \in B /\ f[c - m] = c
    <3>1. c - m \in 1..n /\ (c - m) + m = c
      BY <1>0
    <3> QED BY <3>1
  <2> QED BY <2>1, <2>2, <2>3, Fun_IsBij
<1>4. IsFiniteSet(C) /\ Cardinality(C) = Cardinality(B)
  BY <1>1, <1>3, FS_Bijection, Fun_ExistsBij
<1>5. A \cap C = {}
  BY <1>0
<1>6. Hits(s \o r, T) = Cardinality(A \cup C)
  BY <1>2 DEF Hits
<1> HIDE DEF A, B, C
<1>7. Cardinality(A) \in Nat /\ Cardinality(C) \in Nat
  BY <1>1, <1>4, FS_CardinalityType
<1>8. Cardinality(A \cap C) = 0
  BY <1>5, FS_EmptySet
<1>9. Cardinality(A \cup C) = Cardinality(A) + Cardinality(C) - Cardinality(A \cap C)
  BY <1>1, <1>4, FS_Union
<1> QED BY <1>1, <1>4, <1>6, <1>7, <1>8, <1>9

LEMMA HitsFew ==
  /\ \A T : Hits(<<>>, T) = 0
  /\ \A x, T : Hits(<<x>>, T) = IF x \in T THEN 1 ELSE 0
<1>1. ASSUME NEW T PROVE Hits(<<>>, T) = 0
  <2>1. {i \in 1..Len(<<>>) : <<>>[i] \in T} = {}
    OBVIOUS
  <2> QED BY <2>1, FS_EmptySet DEF Hits
<1>2. ASSUME NEW x, NEW T PROVE Hits(<<x>>, T) = IF x \in T THEN 1 ELSE 0
  <2>1. CASE x \in T
    <3>1. {i \in 1..Len(<<x>>) : <<x>>[i] \in T} = {1}
      BY <2>1
    <3>2. Cardinality({1}) = 1
      BY FS_Singleton
    <3> QED BY <2>1, <3>1, <3>2 DEF Hits
  <2>2. CASE x \notin T
    <3>1. {i \in 1..Len(<<x>>) : <<x>>[i] \in T} = {}
      BY <2>2
    <3> QED BY <2>2, <3>1, FS_EmptySet DEF Hits
  <2> QED BY <2>1, <2>2
<1> QED BY <1>1, <1>2
-----------------------------------------------------------------------------
(* What a run of tokens is, from offset a to offset b: in order and apart, *)
(* over everything but white space, and with `open` markers left open.     *)

Again   == {"unterminated interpolation", "too deep"}   \* kinds that cover text once more
Closers == {"CLOSE"} \cup Again
OfKind(K) == {t \in Token : t.kind \in K}
LeftOpen(s) == Hits(s, OfKind({"OPEN"})) - Hits(s, OfKind(Closers))

Tiles(s, a, b) ==
  /\ s \in Seq(Token)
  /\ \A i \in 1..Len(s) : /\ s[i].from <= s[i].to /\ s[i].to <= b
                          /\ s[i].kind \notin Again => a <= s[i].from
  /\ \A i, j \in 1..Len(s) :
       i < j /\ s[i].kind \notin Again /\ s[j].kind \notin Again => s[i].to <= s[j].from

Blank(p) == src[p] \in {"sp", "nl"}
Covers(s, a, b) ==
  \A p \in a..b - 1 : Blank(p) \/ \E i \in 1..Len(s) : s[i].from <= p /\ p < s[i].to

Piece(s, a, b, open) ==
  /\ a \in Nat /\ b \in Nat /\ a <= b
  /\ Tiles(s, a, b)
  /\ KeepsAll => Covers(s, a, b) /\ LeftOpen(s) = open

LEMMA TokenTyped ==
  ASSUME NEW t \in Token PROVE t.from \in Nat /\ t.to \in Nat /\ t.kind \in Kinds
BY DEF Token

LEMMA TilesConcat ==
  ASSUME NEW a \in Nat, NEW b \in Nat, NEW c \in Nat, a <= b, b <= c,
         NEW s, NEW r, Tiles(s, a, b), Tiles(r, b, c)
  PROVE  Tiles(s \o r, a, c)
<1> DEFINE m == Len(s)
           n == Len(r)
           t == s \o r
<1>1. s \in Seq(Token) /\ r \in Seq(Token)
  BY DEF Tiles
<1>2. /\ t \in Seq(Token) /\ m \in Nat /\ n \in Nat /\ Len(t) = m + n
      /\ \A i \in 1..m : t[i] = s[i]
      /\ \A i \in 1..n : t[i + m] = r[i]
  BY <1>1, Joined
<1>3. /\ \A i \in 1..m : s[i].from \in Nat /\ s[i].to \in Nat
      /\ \A i \in 1..n : r[i].from \in Nat /\ r[i].to \in Nat
  BY <1>1, ElementOfSeq, TokenTyped
<1> HIDE DEF t, m, n
<1>4. ASSUME NEW i \in 1..m + n
      PROVE  \/ i \in 1..m /\ t[i] = s[i]
             \/ i - m \in 1..n /\ t[i] = r[i - m] /\ i > m
  <2>1. CASE i <= m
    BY <1>2, <2>1
  <2>2. CASE i > m
    <3>1. i - m \in 1..n /\ (i - m) + m = i
      BY <1>2, <2>2
    <3> QED BY <1>2, <2>2, <3>1
  <2> QED BY <1>2, <2>1, <2>2
<1>5. /\ \A i \in 1..m : /\ s[i].from <= s[i].to /\ s[i].to <= b
                         /\ s[i].kind \notin Again => a <= s[i].from
      /\ \A i \in 1..n : /\ r[i].from <= r[i].to /\ r[i].to <= c
                         /\ r[i].kind \notin Again => b <= r[i].from
      /\ \A i, j \in 1..m :
           i < j /\ s[i].kind \notin Again /\ s[j].kind \notin Again => s[i].to <= s[j].from
      /\ \A i, j \in 1..n :
           i < j /\ r[i].kind \notin Again /\ r[j].kind \notin Again => r[i].to <= r[j].from
  BY DEF Tiles, m, n
<1>6. ASSUME NEW i \in 1..m + n
      PROVE  /\ t[i].from <= t[i].to /\ t[i].to <= c
             /\ t[i].kind \notin Again => a <= t[i].from
  <2>1. CASE i \in 1..m /\ t[i] = s[i]
    BY <1>3, <1>5, <2>1
  <2>2. CASE i - m \in 1..n /\ t[i] = r[i - m]
    BY <1>3, <1>5, <2>2
  <2> QED BY <1>4, <2>1, <2>2
<1>7. ASSUME NEW i \in 1..m + n, NEW j \in 1..m + n, i < j,
             t[i].kind \notin Again, t[j].kind \notin Again
      PROVE  t[i].to <= t[j].from
  <2>1. CASE j \in 1..m /\ t[j] = s[j]
    <3>1. i \in 1..m
      BY <1>2, <1>7, <2>1
    <3>2. t[i] = s[i]
      BY <1>2, <3>1
    <3> QED BY <1>5, <1>7, <2>1, <3>1, <3>2
  <2>2. CASE j - m \in 1..n /\ t[j] = r[j - m] /\ j > m
    <3>1. CASE i \in 1..m /\ t[i] = s[i]
      BY <1>3, <1>5, <1>7, <2>2, <3>1
    <3>2. CASE i - m \in 1..n /\ t[i] = r[i - m]
      <4>1. i - m < j - m
        BY <1>2, <1>7
      <4> QED BY <1>5, <1>7, <2>2, <3>2, <4>1
    <3> QED BY <1>4, <3>1, <3>2
  <2> QED BY <1>4, <2>1, <2>2
<1> QED BY <1>2, <1>6, <1>7 DEF Tiles, t

LEMMA PieceConcat ==
  ASSUME NEW a, NEW b, NEW c, NEW s, NEW r, NEW m \in Int, NEW n \in Int,
         Piece(s, a, b, m), Piece(r, b, c, n)
  PROVE  Piece(s \o r, a, c, m + n)
<1>1. a \in Nat /\ b \in Nat /\ c \in Nat /\ a <= b /\ b <= c /\ Tiles(s, a, b) /\ Tiles(r, b, c)
  BY DEF Piece
<1>2. Tiles(s \o r, a, c) /\ a <= c
  BY <1>1, TilesConcat
<1>3. s \in Seq(Token) /\ r \in Seq(Token)
  BY <1>1 DEF Tiles
<1>4. ASSUME KeepsAll PROVE LeftOpen(s \o r) = m + n
  <2>1. LeftOpen(s) = m /\ LeftOpen(r) = n
    BY <1>4 DEF Piece
  <2>2. \A T : /\ Hits(s, T) \in Nat /\ Hits(r, T) \in Nat
               /\ Hits(s \o r, T) = Hits(s, T) + Hits(r, T)
    BY <1>3, HitsType, HitsConcat
  <2> HIDE DEF Hits
  <2> QED BY <2>1, <2>2 DEF LeftOpen
<1>5. ASSUME KeepsAll PROVE Covers(s \o r, a, c)
  <2>1. Covers(s, a, b) /\ Covers(r, b, c)
    BY <1>5 DEF Piece
  <2>2. /\ Len(s) \in Nat /\ Len(r) \in Nat /\ Len(s \o r) = Len(s) + Len(r)
        /\ \A i \in 1..Len(s) : (s \o r)[i] = s[i]
        /\ \A i \in 1..Len(r) : (s \o r)[i + Len(s)] = r[i]
    BY <1>3, Joined
  <2> SUFFICES ASSUME NEW p \in a..c - 1, ~Blank(p)
               PROVE  \E i \in 1..Len(s \o r) : (s \o r)[i].from <= p /\ p < (s \o r)[i].to
    BY DEF Covers
  <2>3. CASE p < b
    <3>1. PICK i \in 1..Len(s) : s[i].from <= p /\ p < s[i].to
      BY <1>1, <2>1, <2>3 DEF Covers
    <3>2. i \in 1..Len(s \o r) /\ (s \o r)[i] = s[i]
      BY <2>2
    <3> QED BY <3>1, <3>2
  <2>4. CASE p >= b
    <3>1. PICK i \in 1..Len(r) : r[i].from <= p /\ p < r[i].to
      BY <1>1, <2>1, <2>4 DEF Covers
    <3>2. i + Len(s) \in 1..Len(s \o r) /\ (s \o r)[i + Len(s)] = r[i]
      BY <2>2
    <3> QED BY <3>1, <3>2
  <2>5. p < b \/ p >= b
    BY <1>1
  <2> QED BY <2>3, <2>4, <2>5
<1> QED BY <1>1, <1>2, <1>4, <1>5 DEF Piece

LEMMA PieceNone ==
  ASSUME NEW a \in Nat PROVE Piece(<<>>, a, a, 0)
<1>1. Tiles(<<>>, a, a)
  BY DEF Tiles
<1>2. Covers(<<>>, a, a)
  BY DEF Covers
<1>3. LeftOpen(<<>>) = 0
  BY HitsFew DEF LeftOpen
<1> QED BY <1>1, <1>2, <1>3 DEF Piece

\* White space owes no token, and no text does where something is not kept.
LEMMA PieceBlank ==
  ASSUME NEW a \in Nat, NEW b \in Nat, a <= b, KeepsAll => \A p \in a..b - 1 : Blank(p)
  PROVE  Piece(<<>>, a, b, 0)
<1>1. Tiles(<<>>, a, b)
  BY DEF Tiles
<1>2. KeepsAll => Covers(<<>>, a, b)
  BY DEF Covers
<1>3. LeftOpen(<<>>) = 0
  BY HitsFew DEF LeftOpen
<1> QED BY <1>1, <1>2, <1>3 DEF Piece

LEMMA OneTyped ==
  ASSUME NEW kind \in Kinds, NEW from \in Nat, NEW to \in Nat, NEW v \in 0..3
  PROVE  /\ [kind |-> kind, from |-> from, to |-> to, v |-> v] \in Token
         /\ MadeFrom(kind, from, to, v) = <<[kind |-> kind, from |-> from, to |-> to, v |-> v]>>
BY DEF Token, MadeFrom

\* One token over the text from a to b.
LEMMA PieceOne ==
  ASSUME NEW kind \in Kinds, kind \notin Again, NEW a \in Nat, NEW b \in Nat, a <= b, NEW v \in 0..3
  PROVE  Piece(MadeFrom(kind, a, b, v), a, b,
               IF kind = "OPEN" THEN 1 ELSE IF kind = "CLOSE" THEN -1 ELSE 0)
<1> DEFINE t == [kind |-> kind, from |-> a, to |-> b, v |-> v]
<1>1. t \in Token /\ MadeFrom(kind, a, b, v) = <<t>> /\ t.kind = kind /\ t.from = a /\ t.to = b
  BY OneTyped
<1> HIDE DEF t
<1>2. Len(<<t>>) = 1 /\ <<t>>[1] = t /\ <<t>> \in Seq(Token)
  BY <1>1
<1>3. Tiles(<<t>>, a, b)
  BY <1>1, <1>2 DEF Tiles
<1>4. Covers(<<t>>, a, b)
  <2> SUFFICES ASSUME NEW p \in a..b - 1
               PROVE  \E i \in 1..Len(<<t>>) : <<t>>[i].from <= p /\ p < <<t>>[i].to
    BY DEF Covers
  <2>1. a <= p /\ p < b
    OBVIOUS
  <2> QED BY <1>1, <1>2, <2>1
<1>5. LeftOpen(<<t>>) = IF kind = "OPEN" THEN 1 ELSE IF kind = "CLOSE" THEN -1 ELSE 0
  <2>1. Hits(<<t>>, OfKind({"OPEN"})) = IF kind = "OPEN" THEN 1 ELSE 0
    BY <1>1, HitsFew DEF OfKind
  <2>2. Hits(<<t>>, OfKind(Closers)) = IF kind = "CLOSE" THEN 1 ELSE 0
    BY <1>1, HitsFew DEF OfKind, Closers
  <2> HIDE DEF Hits
  <2> QED BY <2>1, <2>2 DEF LeftOpen
<1> QED BY <1>1, <1>3, <1>4, <1>5 DEF Piece

\* A token that covers text once more, up to b.
LEMMA PieceAgain ==
  ASSUME NEW kind \in Again, NEW a \in Nat, NEW b \in Nat, a <= b, NEW v \in 0..3
  PROVE  Piece(MadeFrom(kind, a, b, v), b, b, -1)
<1> DEFINE t == [kind |-> kind, from |-> a, to |-> b, v |-> v]
<1>0. kind \in Kinds /\ kind \in Closers /\ kind # "OPEN"
  BY DEF Again, Kinds, Invalids, Closers
<1>1. t \in Token /\ MadeFrom(kind, a, b, v) = <<t>> /\ t.kind = kind /\ t.from = a /\ t.to = b
  BY <1>0, OneTyped
<1> HIDE DEF t
<1>2. Len(<<t>>) = 1 /\ <<t>>[1] = t /\ <<t>> \in Seq(Token)
  BY <1>1
<1>3. Tiles(<<t>>, b, b)
  BY <1>1, <1>2 DEF Tiles
<1>4. Covers(<<t>>, b, b)
  BY DEF Covers
<1>5. LeftOpen(<<t>>) = -1
  <2>1. Hits(<<t>>, OfKind({"OPEN"})) = 0
    BY <1>0, <1>1, HitsFew DEF OfKind
  <2>2. Hits(<<t>>, OfKind(Closers)) = 1
    BY <1>0, <1>1, HitsFew DEF OfKind
  <2> HIDE DEF Hits
  <2> QED BY <2>1, <2>2 DEF LeftOpen
<1> QED BY <1>1, <1>3, <1>4, <1>5 DEF Piece
-----------------------------------------------------------------------------
(* The activations: strings and interpolations in turn, a string outermost,*)
(* each begun before `p`.                                                  *)

\* The spelling of "${" is set apart: no prover knows that a literal is a STRING.
Closing == Seq(STRING) \cup {<<"}">>}
Frame == [is : {"string", "interp"}, rule : StringRule, start : Nat, fragment : Nat \ {0},
          had : BOOLEAN, close : Closing, pairs : Nat]
InterpFrames == {f \in Frame : f.is = "interp"}
Depth(s) == Hits(s, InterpFrames)

InTurn(s, f) == f.is = "string" <=> (s = <<>> \/ s[Len(s)].is = "interp")
Begun(rules, f, p) == f.rule \in rules /\ f.start <= p /\ f.fragment <= p

Framed(rules, s, p) ==
  /\ s \in Seq(Frame)
  /\ \A i \in 1..Len(s) : /\ s[i].is = "string" <=> (i = 1 \/ s[i - 1].is = "interp")
                          /\ Begun(rules, s[i], p)

LEMMA FramedNone == ASSUME NEW rules, NEW p PROVE Framed(rules, <<>>, p) /\ Depth(<<>>) = 0
BY HitsFew DEF Framed, Depth

LEMMA FrameTyped ==
  ASSUME NEW f \in Frame
  PROVE  /\ f.is \in {"string", "interp"} /\ f.rule \in StringRule /\ f.start \in Nat
         /\ f.fragment \in Nat \ {0} /\ f.pairs \in Nat /\ f.close \in Closing
         /\ Len(f.close) \in Nat
<1>1. \A s \in Closing : Len(s) \in Nat
  <2>1. Len(<<"}">>) = 1
    OBVIOUS
  <2>2. \A s \in Seq(STRING) : Len(s) \in Nat
    BY LenProperties
  <2>3. Len(<<"}">>) \in Nat
    BY <2>1
  <2> QED BY <2>2, <2>3, Zenon DEF Closing
<1> QED BY <1>1 DEF Frame

LEMMA FramedLater ==
  ASSUME NEW rules, NEW s, NEW p \in Nat, NEW q \in Nat, p <= q, Framed(rules, s, p)
  PROVE  Framed(rules, s, q)
<1>1. s \in Seq(Frame)
  BY DEF Framed
<1>2. ASSUME NEW i \in 1..Len(s) PROVE Begun(rules, s[i], q)
  <2>1. s[i] \in Frame
    BY <1>1, ElementOfSeq
  <2>2. s[i].start \in Nat /\ s[i].fragment \in Nat
    BY <2>1, FrameTyped
  <2>3. Begun(rules, s[i], p)
    BY DEF Framed
  <2> QED BY <2>2, <2>3 DEF Begun
<1> QED BY <1>1, <1>2 DEF Framed

LEMMA FramedPush ==
  ASSUME NEW rules, NEW s, NEW p, Framed(rules, s, p), NEW f \in Frame,
         InTurn(s, f), Begun(rules, f, p)
  PROVE  /\ Framed(rules, Append(s, f), p)
         /\ Append(s, f) # <<>> /\ Append(s, f)[Len(Append(s, f))] = f
         /\ Depth(Append(s, f)) = Depth(s) + (IF f.is = "interp" THEN 1 ELSE 0)
<1> DEFINE t == Append(s, f)
           n == Len(s)
<1>1. s \in Seq(Frame)
  BY DEF Framed
<1>2. /\ t \in Seq(Frame) /\ n \in Nat /\ Len(t) = n + 1 /\ t[n + 1] = f
      /\ \A i \in 1..n : t[i] = s[i]
  BY <1>1, AppendProperties, LenProperties
<1>3. t # <<>>
  BY <1>2, EmptySeq
<1>4. ASSUME NEW i \in 1..n + 1
      PROVE  (t[i].is = "string" <=> (i = 1 \/ t[i - 1].is = "interp")) /\ Begun(rules, t[i], p)
  <2>1. CASE i \in 1..n
    <3>1. t[i] = s[i]
      BY <1>2, <2>1
    <3>2. i # 1 => i - 1 \in 1..n
      BY <1>2, <2>1
    <3>3. i # 1 => t[i - 1] = s[i - 1]
      BY <1>2, <3>2
    <3> HIDE DEF t, n
    <3> QED BY <2>1, <3>1, <3>3 DEF Framed, n
  <2>2. CASE i = n + 1
    <3>1. t[i] = f
      BY <1>2, <2>2
    <3>2. n = 0 <=> s = <<>>
      BY <1>1, EmptySeq
    <3>3. n # 0 => t[i - 1] = s[n]
      <4>1. n # 0 => i - 1 = n /\ n \in 1..n
        BY <1>2, <2>2
      <4> QED BY <1>2, <4>1
    <3>4. i = 1 <=> n = 0
      BY <1>2, <2>2
    <3> HIDE DEF t
    <3> QED BY <3>1, <3>2, <3>3, <3>4 DEF InTurn
  <2> QED BY <1>2, <2>1, <2>2
<1>5. t = s \o <<f>> /\ <<f>> \in Seq(Frame)
  BY <1>1, AppendIsConcat
<1>6. Depth(t) = Depth(s) + Hits(<<f>>, InterpFrames)
  <2>1. Hits(s \o <<f>>, InterpFrames) = Hits(s, InterpFrames) + Hits(<<f>>, InterpFrames)
    BY <1>1, <1>5, HitsConcat
  <2> HIDE DEF t
  <2> QED BY <1>5, <2>1 DEF Depth
<1>7. Hits(<<f>>, InterpFrames) = IF f.is = "interp" THEN 1 ELSE 0
  BY HitsFew DEF InterpFrames
<1> HIDE DEF t
<1>8. Framed(rules, t, p)
  BY <1>2, <1>4 DEF Framed
<1> QED BY <1>2, <1>3, <1>6, <1>7, <1>8 DEF t

LEMMA FramedPop ==
  ASSUME NEW rules, NEW s, NEW p, Framed(rules, s, p), s # <<>>
  PROVE  LET r == SubSeq(s, 1, Len(s) - 1)
             f == s[Len(s)]
         IN  /\ Framed(rules, r, p) /\ f \in Frame /\ Begun(rules, f, p) /\ InTurn(r, f)
             /\ Len(r) = Len(s) - 1 /\ Len(s) \in Nat \ {0}
             /\ Depth(s) = Depth(r) + (IF f.is = "interp" THEN 1 ELSE 0)
             /\ r # <<>> => r[Len(r)] = s[Len(s) - 1]
<1> DEFINE n == Len(s)
           r == SubSeq(s, 1, n - 1)
           f == s[n]
<1>1. s \in Seq(Frame)
  BY DEF Framed
<1>2. n \in Nat \ {0}
  BY <1>1, EmptySeq, LenProperties
<1>3. n - 1 \in Nat /\ 1..n - 1 \subseteq 1..n /\ n \in 1..n
  BY <1>2
<1>4. r \in Seq(Frame) /\ Len(r) = n - 1 /\ \A i \in 1..n - 1 : r[i] = s[i]
  <2> HIDE DEF n
  <2>1. n - 1 <= Len(s)
    BY <1>2 DEF n
  <2> QED BY <1>1, <1>2, <1>3, <2>1
<1>5. f \in Frame
  BY <1>1, <1>3, ElementOfSeq
<1> HIDE DEF r, n
<1>6. ASSUME NEW i \in 1..n - 1
      PROVE  (r[i].is = "string" <=> (i = 1 \/ r[i - 1].is = "interp")) /\ Begun(rules, r[i], p)
  <2>1. i \in 1..n /\ r[i] = s[i]
    BY <1>3, <1>4
  <2>2. i # 1 => i - 1 \in 1..n - 1
    BY <1>2
  <2>3. i # 1 => r[i - 1] = s[i - 1]
    BY <1>4, <2>2
  <2> QED BY <2>1, <2>3 DEF Framed, n
<1>7. Framed(rules, r, p)
  BY <1>4, <1>6 DEF Framed
<1>8. n # 1 => n - 1 \in 1..n - 1
  BY <1>2
<1>9. r = <<>> <=> n = 1
  <2>1. r = <<>> <=> Len(r) = 0
    BY <1>4, EmptySeq
  <2> QED BY <1>2, <1>4, <2>1
<1>10. r # <<>> => r[Len(r)] = s[n - 1]
  BY <1>4, <1>8, <1>9
<1>11. Begun(rules, f, p) /\ (f.is = "string" <=> (n = 1 \/ s[n - 1].is = "interp"))
  BY <1>3 DEF Framed, n
<1>12. InTurn(r, f)
  BY <1>9, <1>10, <1>11 DEF InTurn
<1>13. Depth(s) = Depth(r) + (IF f.is = "interp" THEN 1 ELSE 0)
  <2>1. Append(r, f) = s
    <3> PICK a : a = Append(r, f)
      OBVIOUS
    <3>1. a \in Seq(Frame) /\ Len(a) = n /\ a[n] = f /\ \A i \in 1..n - 1 : a[i] = r[i]
      BY <1>2, <1>4, <1>5, AppendProperties
    <3>2. \A i \in 1..n : a[i] = s[i]
      <4> TAKE i \in 1..n
      <4>1. i = n \/ i \in 1..n - 1
        BY <1>2
      <4> QED BY <1>4, <3>1, <4>1
    <3>3. s \in Seq(Frame) /\ Len(s) = n
      BY <1>1 DEF n
    <3> HIDE DEF r, f, n
    <3>4. a = s
      BY <3>1, <3>2, <3>3, SeqEqual, SMTT(30)
    <3> QED BY <3>4
  <2>2. r \in Seq(Frame) /\ f \in Frame /\ Framed(rules, r, p) /\ Begun(rules, f, p)
    BY <1>4, <1>5, <1>7, <1>11
  <2> HIDE DEF r, f, n
  <2>3. Depth(Append(r, f)) = Depth(r) + (IF f.is = "interp" THEN 1 ELSE 0)
    BY <1>12, <2>2, FramedPush, Zenon
  <2> QED BY <2>1, <2>3
<1> QED BY <1>2, <1>4, <1>5, <1>7, <1>10, <1>11, <1>12, <1>13 DEF r, n
-----------------------------------------------------------------------------
(* The inductive invariant: besides the types, the activations are in turn *)
(* and begun, and the tokens cover the source in order up to what the top  *)
(* activation has finished.                                                *)
ProgressOf(s, p) == IF s # <<>> /\ s[Len(s)].is = "string" THEN s[Len(s)].fragment ELSE p

ScanInv ==
  /\ CallMade
  /\ phase \in {"run", "done", "failed"}
  /\ phase # "run" => stack = <<>>
  /\ pos \in 1..Len(src) + 1
  /\ Framed(cfg.strings, stack, pos)
  /\ interpDepth = Depth(stack) /\ interpDepth <= MaxInterpDepth
  /\ Tiles(tokens, 1, Progress)
  /\ phase # "failed" => Piece(tokens, 1, Progress, interpDepth)

LEMMA ProgressIs == Progress = ProgressOf(stack, pos)
BY DEF Progress, ProgressOf, Top

LEMMA ProgressRange ==
  ASSUME NEW rules, NEW s, NEW p \in Nat \ {0}, Framed(rules, s, p)
  PROVE  ProgressOf(s, p) \in 1..p
<1>1. CASE s # <<>>
  <2>1. s[Len(s)] \in Frame /\ Begun(rules, s[Len(s)], p)
    BY <1>1, FramedPop
  <2>2. s[Len(s)].fragment \in 1..p
    BY <2>1, FrameTyped DEF Begun
  <2> QED BY <2>2 DEF ProgressOf
<1>2. CASE s = <<>>
  BY <1>2 DEF ProgressOf
<1> QED BY <1>1, <1>2

LEMMA InterpsCounted ==
  ASSUME NEW rules, NEW p, Framed(rules, stack, p)
  PROVE  Cardinality(Interps) = Depth(stack) /\ Depth(stack) \in Nat
<1>1. stack \in Seq(Frame)
  BY DEF Framed
<1>2. \A i \in 1..Len(stack) : stack[i] \in Frame
  BY <1>1, ElementOfSeq
<1>3. DOMAIN stack = 1..Len(stack)
  BY <1>1, LenProperties
<1>4. Interps = {i \in 1..Len(stack) : stack[i] \in InterpFrames}
  BY <1>2, <1>3 DEF Interps, InterpFrames
<1> QED BY <1>1, <1>4, HitsType DEF Depth, Hits

LEMMA PieceFixed ==
  ASSUME src' = src, cfg' = cfg
  PROVE  Piece(tokens, 1, Progress, interpDepth)'
           <=> Piece(tokens', 1, ProgressOf(stack', pos'), interpDepth')
<1>1. Progress' = ProgressOf(stack', pos')
  BY DEF Progress, ProgressOf, Top
<1>2. KeepsAll' <=> KeepsAll
  BY DEF KeepsAll
<1>3. \A p : Blank(p)' <=> Blank(p)
  BY DEF Blank
<1> QED BY <1>1, <1>2, <1>3 DEF Piece, Covers, Tiles

LEMMA PrefixTiles ==
  ASSUME NEW made, NEW a, NEW b, Tiles(made, a, b), NEW n \in 0..Len(made) - 1
  PROVE  Tiles(SubSeq(made, 1, n), a, b)
<1>1. made \in Seq(Token) /\ Len(made) \in Nat
  BY LenProperties DEF Tiles
<1>2. n \in Nat /\ n <= Len(made) /\ 1..n \subseteq 1..Len(made)
  BY <1>1
<1>3. SubSeq(made, 1, n) \in Seq(Token) /\ Len(SubSeq(made, 1, n)) = n
      /\ \A i \in 1..n : SubSeq(made, 1, n)[i] = made[i]
  BY <1>1, <1>2
<1> HIDE DEF Token
<1> QED BY <1>2, <1>3 DEF Tiles

\* What a push and the activations after it must be for the invariant to hold.
LEMMA StepKeeps ==
  ASSUME ScanInv, phase = "run", src' = src, cfg' = cfg,
         NEW made, NEW after, NEW d, Step(made, after, d),
         pos' \in pos..Len(src) + 1,
         Framed(cfg.strings, after, pos'), d = Depth(after), d <= MaxInterpDepth,
         NEW n \in Int, Piece(made, Progress, ProgressOf(after, pos'), n),
         KeepsAll => n = d - interpDepth
  PROVE  ScanInv'
<1>1. PICK p \in Nat : p = pos'
  BY CallTyped DEF ScanInv
<1>2. /\ CallMade /\ CallMade' /\ Len(src) \in Nat /\ pos \in Nat \ {0} /\ p \in 1..Len(src) + 1
      /\ pos <= p /\ pos' \in 1..Len(src') + 1
  BY <1>1, CallTyped DEF ScanInv, CallMade
<1>3. interpDepth \in Nat /\ interpDepth = Depth(stack) /\ Cardinality(Interps) = Depth(stack)
  BY InterpsCounted DEF ScanInv
<1> DEFINE a == Progress
           b == ProgressOf(after, pos')
<1>4. Tiles(tokens, 1, a) /\ Tiles(made, a, b) /\ a \in 1..pos /\ b \in 1..p
  <2>1. a \in 1..pos
    BY <1>2, ProgressIs, ProgressRange DEF ScanInv
  <2>2. b \in 1..p
    BY <1>1, <1>2, ProgressRange
  <2> QED BY <2>1, <2>2 DEF ScanInv, Piece
<1>5. a \in Nat /\ b \in Nat /\ a <= b /\ 1 <= a
  BY <1>2, <1>4 DEF Piece
<1>6. CASE /\ tokens' = tokens \o made
           /\ stack' = after /\ interpDepth' = d /\ phase' = phase
  <2>1. Piece(tokens, 1, a, interpDepth)
    BY DEF ScanInv
  <2> HIDE DEF a, b
  <2>2. Piece(tokens', 1, b, interpDepth + n)
    BY <1>3, <1>6, <2>1, PieceConcat DEF a, b
  <2>3. Depth(after) \in Nat
    <3>1. after \in Seq(Frame)
      BY DEF Framed
    <3> QED BY <3>1, HitsType DEF Depth
  <2>4. KeepsAll => interpDepth + n = d
    BY <1>3, <2>3
  <2>5. Piece(tokens', 1, b, d)
    BY <2>2, <2>4 DEF Piece
  <2>6. Piece(tokens, 1, Progress, interpDepth)'
    BY <1>6, <2>5, PieceFixed DEF b
  <2>7. Tiles(tokens, 1, Progress)'
    BY <2>6 DEF Piece
  <2>8. Framed(cfg.strings, stack, pos)'
    BY <1>6 DEF Framed, Begun
  <2>9. (interpDepth = Depth(stack) /\ interpDepth <= MaxInterpDepth)'
    BY <1>6
  <2> QED BY <1>2, <1>6, <2>6, <2>7, <2>8, <2>9 DEF ScanInv
<1>7. ASSUME cfg.mayFail, NEW k \in 0..Len(made) - 1,
             tokens' = tokens \o SubSeq(made, 1, k),
             stack' = <<>>, interpDepth' = interpDepth - Cardinality(Interps), phase' = "failed"
      PROVE  ScanInv'
  <2>1. Tiles(tokens', 1, b)
    <3>1. Tiles(SubSeq(made, 1, k), a, b)
      BY <1>4, <1>7, PrefixTiles
    <3> HIDE DEF a, b
    <3> QED BY <1>4, <1>5, <1>7, <3>1, TilesConcat
  <2>2. Tiles(tokens', 1, p)
    <3>1. b <= p /\ b \in Nat
      BY <1>4, <1>5
    <3>2. \A i \in 1..Len(tokens') : tokens'[i].to <= b /\ tokens'[i].to \in Nat
      <4>1. tokens' \in Seq(Token)
        BY <2>1 DEF Tiles
      <4>2. \A i \in 1..Len(tokens') : tokens'[i].to \in Nat
        BY <4>1, ElementOfSeq, TokenTyped
      <4> HIDE DEF b
      <4> QED BY <2>1, <4>2 DEF Tiles
    <3> HIDE DEF b
    <3>3. \A i \in 1..Len(tokens') : tokens'[i].to <= p
      BY <3>1, <3>2
    <3> QED BY <2>1, <3>3 DEF Tiles
  <2>3. Progress' = p
    BY <1>1, <1>7 DEF Progress
  <2>4. Tiles(tokens, 1, Progress)'
    BY <2>2, <2>3 DEF Tiles
  <2>5. interpDepth' = 0 /\ (interpDepth = Depth(stack) /\ interpDepth <= MaxInterpDepth)'
    <3>1. interpDepth' = 0
      BY <1>3, <1>7
    <3>2. Depth(<<>>) = 0
      BY FramedNone
    <3>3. Depth(stack') = 0
      BY <1>7, <3>2
    <3> QED BY <3>1, <3>3, DepthOK
  <2>6. Framed(cfg.strings, stack, pos)'
    BY <1>7, FramedNone
  <2> QED BY <1>2, <1>7, <2>4, <2>5, <2>6 DEF ScanInv
<1>8. \/ tokens' = tokens \o made /\ stack' = after /\ interpDepth' = d /\ phase' = phase
      \/ /\ cfg.mayFail
         /\ \E k \in 0..Len(made) - 1 : tokens' = tokens \o SubSeq(made, 1, k)
         /\ stack' = <<>> /\ interpDepth' = interpDepth - Cardinality(Interps)
         /\ phase' = "failed"
  BY DEF Step
<1> QED BY <1>6, <1>7, <1>8

LEMMA ScanStart == ASSUME Init PROVE ScanInv
<1>1. CallMade /\ src \in Seq(STRING) /\ Len(src) \in Nat
  <2>1. CallMade
    BY DEF Init, CallMade
  <2> QED BY <2>1, CallTyped
<1>2. /\ phase = "run" /\ pos = 1 /\ stack = <<>> /\ interpDepth = 0 /\ tokens = <<>>
  BY DEF Init
<1>3. Progress = 1
  BY <1>2 DEF Progress
<1>4. Framed(cfg.strings, stack, pos) /\ Depth(stack) = 0
  BY <1>2, FramedNone
<1>5. Piece(tokens, 1, 1, 0)
  BY <1>2, PieceNone
<1>6. Tiles(tokens, 1, 1)
  BY <1>5 DEF Piece
<1> QED BY <1>1, <1>2, <1>3, <1>4, <1>5, <1>6, DepthOK DEF ScanInv
-----------------------------------------------------------------------------
(* Scanning code.                                                          *)

LEMMA CodeHere ==
  ASSUME ScanInv, InCode
  PROVE  /\ CallMade /\ phase = "run" /\ Len(src) \in Nat /\ pos \in 1..Len(src) + 1
         /\ Progress = pos /\ \A q : ProgressOf(stack, q) = q
         /\ Framed(cfg.strings, stack, pos)
         /\ interpDepth = Depth(stack) /\ interpDepth <= MaxInterpDepth /\ interpDepth \in Nat
<1>1. stack # <<>> => stack[Len(stack)].is = "interp"
  BY DEF InCode, Top
<1>2. interpDepth \in Nat
  BY InterpsCounted DEF ScanInv
<1> QED BY <1>1, <1>2, ProgressIs, CallTyped DEF ScanInv, ProgressOf, InCode

\* Counting brackets changes no more than a number of the top activation.
LEMMA CountedOK ==
  ASSUME ScanInv, InCode
  PROVE  /\ Framed(cfg.strings, Counted, pos) /\ Depth(Counted) = interpDepth
         /\ \A q : ProgressOf(Counted, q) = q
         /\ Counted # <<>> => Counted[Len(Counted)].is = "interp"
<1>0. Framed(cfg.strings, stack, pos) /\ interpDepth = Depth(stack)
  BY CodeHere
<1>1. CASE stack = <<>>
  <2>1. Counted = <<>>
    BY <1>1 DEF Counted
  <2> QED BY <1>0, <1>1, <2>1 DEF ProgressOf
<1>2. CASE stack # <<>>
  <2> DEFINE pairs == IF PairedOpen(Top.close) # <<>> /\ Matches(PairedOpen(Top.close), pos)
                      THEN Top.pairs + 1
                      ELSE IF Top.pairs > 0 /\ Matches(Top.close, pos) THEN Top.pairs - 1
                      ELSE Top.pairs
             f == [Top EXCEPT !.pairs = pairs]
  <2>1. Counted = Append(Rest, f)
    BY <1>2 DEF Counted
  <2>2. /\ Framed(cfg.strings, Rest, pos) /\ Top \in Frame /\ Begun(cfg.strings, Top, pos)
        /\ InTurn(Rest, Top) /\ Depth(stack) = Depth(Rest) + (IF Top.is = "interp" THEN 1 ELSE 0)
    BY <1>0, <1>2, FramedPop DEF Rest, Top
  <2>3. pairs \in Nat
    <3>1. Top.pairs \in Nat
      BY <2>2, FrameTyped
    <3> QED BY <3>1
  <2> HIDE DEF pairs
  <2>4. f \in Frame /\ f.is = Top.is /\ f.rule = Top.rule /\ f.start = Top.start
        /\ f.fragment = Top.fragment
    BY <2>2, <2>3 DEF Frame
  <2> HIDE DEF f
  <2>5. InTurn(Rest, f) /\ Begun(cfg.strings, f, pos)
    BY <2>2, <2>4 DEF InTurn, Begun
  <2>6. /\ Framed(cfg.strings, Counted, pos)
        /\ Counted # <<>> /\ Counted[Len(Counted)] = f
        /\ Depth(Counted) = Depth(Rest) + (IF f.is = "interp" THEN 1 ELSE 0)
    BY <2>1, <2>2, <2>4, <2>5, FramedPush
  <2>7. Top.is = "interp"
    BY <1>2 DEF InCode
  <2> QED BY <1>0, <2>2, <2>4, <2>6, <2>7 DEF ProgressOf
<1> QED BY <1>1, <1>2

LEMMA ClaimKeeps ==
  ASSUME ScanInv, InCode, NEW made, NEW to \in pos..Len(src) + 1, Claim(made, to),
         Piece(made, pos, to, 0)
  PROVE  ScanInv'
<1>1. /\ phase = "run" /\ Progress = pos /\ pos \in Nat /\ to \in Nat /\ pos <= to
      /\ interpDepth <= MaxInterpDepth /\ interpDepth \in Nat
  BY CodeHere
<1>2. Step(made, Counted, interpDepth) /\ pos' = to /\ src' = src /\ cfg' = cfg
  BY DEF Claim, fixed
<1>3. /\ Framed(cfg.strings, Counted, pos) /\ Depth(Counted) = interpDepth
      /\ ProgressOf(Counted, to) = to
  BY CountedOK
<1>4. Framed(cfg.strings, Counted, pos')
  BY <1>1, <1>2, <1>3, FramedLater
<1>5. Piece(made, Progress, ProgressOf(Counted, pos'), 0)
  BY <1>1, <1>2, <1>3
<1>6. 0 \in Int /\ 0 = interpDepth - interpDepth /\ pos' \in pos..Len(src) + 1
  BY <1>1, <1>2
<1> QED BY <1>1, <1>2, <1>3, <1>4, <1>5, <1>6, StepKeeps

\* Kinds of tokens that are no markers.
Plain == Kinds \ ({"OPEN", "CLOSE"} \cup Again)

LEMMA PiecePlain ==
  ASSUME NEW kind \in Plain, NEW a \in Nat, NEW b \in Nat, a <= b, NEW v \in 0..3
  PROVE  Piece(MadeFrom(kind, a, b, v), a, b, 0)
<1>1. kind \in Kinds /\ kind \notin Again /\ kind # "OPEN" /\ kind # "CLOSE"
  BY DEF Plain
<1> QED BY <1>1, PieceOne

LEMMA PlainKinds ==
  {"NEWLINE", "COMMENT", "unterminated comment", "INT", "FLOAT", "malformed number", "IDENT",
   "KEYWORD", "OP", "PUNCT", "unknown character", "STRING", "CHAR", "FRAG", "BARE", "EOF",
   "unterminated string", "expected identifier"} \subseteq Plain
BY DEF Plain, Kinds, Invalids, Again

LEMMA MadeIs == \A kind, to : Made(kind, to) = MadeFrom(kind, pos, to, 0)
BY DEF Made, MadeFrom

\* A scanner that makes one plain token claims what the token covers.
LEMMA ClaimOne ==
  ASSUME ScanInv, InCode, NEW kind \in Plain, NEW to \in pos..Len(src) + 1,
         Claim(Made(kind, to), to)
  PROVE  ScanInv'
<1>1. pos \in Nat /\ to \in Nat /\ pos <= to /\ 0 \in 0..3
  BY CodeHere
<1>2. Piece(Made(kind, to), pos, to, 0)
  BY <1>1, MadeIs, PiecePlain
<1> QED BY <1>2, ClaimKeeps

LEMMA SkipBlankKeeps == ASSUME ScanInv, SkipBlank PROVE ScanInv'
<1> DEFINE made == IF At(pos) = "nl" /\ cfg.emitNewlines THEN Made("NEWLINE", pos + 1) ELSE <<>>
<1>1. /\ InCode /\ AtBlank /\ Step(made, stack, interpDepth) /\ pos' = pos + 1
      /\ src' = src /\ cfg' = cfg
  BY DEF SkipBlank, fixed
<1>2. /\ CallMade /\ phase = "run" /\ Len(src) \in Nat /\ pos \in 1..Len(src) + 1
      /\ Progress = pos /\ ProgressOf(stack, pos + 1) = pos + 1
      /\ Framed(cfg.strings, stack, pos)
      /\ interpDepth = Depth(stack) /\ interpDepth <= MaxInterpDepth /\ interpDepth \in Nat
  BY <1>1, CodeHere
<1>3. pos <= Len(src) /\ Blank(pos)
  BY <1>1, <1>2, AtInside DEF AtBlank, Blank
<1>4. pos \in Nat /\ pos + 1 \in Nat /\ pos <= pos + 1 /\ 0 \in 0..3
  BY <1>2
<1>5. Piece(made, pos, pos + 1, 0)
  <2>1. Piece(Made("NEWLINE", pos + 1), pos, pos + 1, 0)
    BY <1>4, MadeIs, PlainKinds, PiecePlain
  <2>2. \A p \in pos..(pos + 1) - 1 : Blank(p)
    <3>1. \A p \in pos..(pos + 1) - 1 : p = pos
      BY <1>4
    <3> QED BY <1>3, <3>1
  <2>3. Piece(<<>>, pos, pos + 1, 0)
    BY <1>4, <2>2, PieceBlank
  <2> QED BY <2>1, <2>3
<1> HIDE DEF made
<1>6. Framed(cfg.strings, stack, pos')
  BY <1>1, <1>2, <1>4, FramedLater
<1>7. Piece(made, Progress, ProgressOf(stack, pos'), 0)
  BY <1>1, <1>2, <1>5
<1>8. 0 \in Int /\ 0 = interpDepth - interpDepth /\ pos' \in pos..Len(src) + 1
  BY <1>1, <1>2, <1>3
<1> QED BY <1>1, <1>2, <1>6, <1>7, <1>8, StepKeeps

LEMMA ScanCommentKeeps == ASSUME ScanInv, ScanComment PROVE ScanInv'
<1> DEFINE End(rule) == IF rule.close = <<"nl">>
                        THEN [to |-> LineEnd(pos + Len(rule.open)), closed |-> TRUE]
                        ELSE BlockEnd(rule, pos + Len(rule.open))
           Out(rule) == IF ~End(rule).closed THEN Made("unterminated comment", End(rule).to)
                        ELSE IF rule.kept THEN Made("COMMENT", End(rule).to) ELSE <<>>
<1>1. PICK rule \in CommentsHere : AtToken /\ Claim(Out(rule), End(rule).to)
  BY DEF ScanComment
<1>2. InCode /\ CallMade /\ Len(src) \in Nat /\ pos \in 1..Len(src) + 1
  BY <1>1, CodeHere DEF AtToken
<1>3. rule \in cfg.comments /\ rule \in CommentRule /\ Matches(rule.open, pos)
  BY <1>2, CallTyped, LongestMatches DEF CommentsHere
<1> DEFINE body == pos + Len(rule.open)
           to   == End(rule).to
<1>4. body \in Nat /\ pos <= body /\ body <= Len(src) + 1
  <2>1. rule.open \in Seq(STRING)
    BY <1>3, SpellingLen DEF CommentRule
  <2> QED BY <1>2, <1>3, <2>1, MatchInside
<1>5. to \in body..Len(src) + 1
  <2>1. body \in Offsets
    BY <1>2, <1>4 DEF Offsets
  <2> HIDE DEF body
  <2>2. LineEnd(body) \in body..Len(src) + 1 /\ BlockEnd(rule, body).to \in body..Len(src) + 1
    BY <1>2, <1>3, <2>1, LineEndInside, BlockEndInside
  <2>3. End(rule).to = IF rule.close = <<"nl">> THEN LineEnd(body) ELSE BlockEnd(rule, body).to
    BY DEF body
  <2> HIDE DEF End
  <2> QED BY <2>2, <2>3
<1> HIDE DEF to, body
<1>6. to \in pos..Len(src) + 1 /\ pos \in Nat /\ to \in Nat /\ pos <= to /\ 0 \in 0..3
  BY <1>2, <1>4, <1>5
<1>7. Out(rule) \in {Made("unterminated comment", to), Made("COMMENT", to)}
      \/ (Out(rule) = <<>> /\ ~rule.kept)
  <2> HIDE DEF End
  <2> QED BY DEF to
<1>8. Piece(Out(rule), pos, to, 0)
  <2> HIDE DEF Out
  <2>1. Piece(Made("unterminated comment", to), pos, to, 0) /\ Piece(Made("COMMENT", to), pos, to, 0)
    BY <1>6, MadeIs, PlainKinds, PiecePlain
  <2>2. ASSUME ~rule.kept PROVE Piece(<<>>, pos, to, 0)
    <3>1. ~KeepsAll
      BY <1>3, <2>2 DEF KeepsAll
    <3> QED BY <1>6, <3>1, PieceBlank
  <2> QED BY <1>7, <2>1, <2>2
<1> HIDE DEF Out, End
<1>9. Claim(Out(rule), to)
  BY <1>1 DEF to
<1> QED BY <1>2, <1>6, <1>8, <1>9, ClaimKeeps

LEMMA NumberClaimKeeps ==
  ASSUME ScanInv, InCode, NEW kind \in {"INT", "FLOAT"}, NEW core \in pos..Len(src) + 1,
         ClaimNumber(kind, core)
  PROVE  ScanInv'
<1>1. CallMade /\ Len(src) \in Nat /\ pos \in 1..Len(src) + 1
  BY CodeHere
<1> DEFINE to  == Suffixed(core)
           run == RunEnd(IdentCont, to)
<1>2. to \in core..Len(src) + 1
  <2>1. core \in Offsets
    BY <1>1 DEF Offsets
  <2> QED BY <1>1, <2>1, SuffixInside
<1>3. run \in to..Len(src) + 1
  <2>1. to \in Offsets
    <3> HIDE DEF to
    <3> QED BY <1>1, <1>2 DEF Offsets
  <2> QED BY <1>1, <2>1, RunEndInside, NoEofClass
<1>4. Claim(Made("malformed number", run), run) \/ Claim(Made(kind, to), to)
  BY DEF ClaimNumber
<1> HIDE DEF to, run
<1>5. to \in pos..Len(src) + 1 /\ run \in pos..Len(src) + 1
  BY <1>1, <1>2, <1>3
<1>6. kind \in Plain /\ "malformed number" \in Plain
  BY PlainKinds
<1> QED BY <1>4, <1>5, <1>6, ClaimOne

LEMMA ScanNumberKeeps == ASSUME ScanInv, ScanNumber PROVE ScanInv'
<1>1. InCode /\ CallMade /\ Len(src) \in Nat /\ pos \in 1..Len(src) + 1 /\ pos <= Len(src)
  BY CodeHere DEF ScanNumber, AtToken
<1>2. CASE BaseHere # 10
  <2> DEFINE end == ScanDigits(pos + 2, BaseHere)
  <2>1. IF end = pos + 2 THEN Claim(Made("malformed number", end), end) ELSE ClaimNumber("INT", end)
    BY <1>2 DEF ScanNumber
  <2>2. At(pos + 1) # "eof"
    BY <1>2 DEF BaseHere
  <2>3. pos + 1 \in Nat /\ pos + 1 <= Len(src)
    BY <1>1, <2>2, AtInside
  <2>4. pos + 2 \in Offsets
    BY <1>1, <2>3 DEF Offsets
  <2>5. end \in pos + 2..Len(src) + 1
    BY <1>1, <2>4, DigitsInside
  <2> HIDE DEF end
  <2>6. end \in pos..Len(src) + 1
    BY <1>1, <2>5
  <2>7. "malformed number" \in Plain
    BY PlainKinds
  <2> QED BY <1>1, <2>1, <2>6, <2>7, ClaimOne, NumberClaimKeeps
<1>3. CASE BaseHere = 10
  <2> DEFINE whole == IF LeadingDot THEN pos ELSE ScanDigits(pos, 10)
             end   == Exponent(Fraction(whole))
  <2>1. ClaimNumber(IF end > whole THEN "FLOAT" ELSE "INT", end)
    BY <1>3 DEF ScanNumber
  <2>2. whole \in pos..Len(src) + 1
    <3>1. pos \in Offsets
      BY <1>1 DEF Offsets
    <3>2. ScanDigits(pos, 10) \in pos..Len(src) + 1
      BY <1>1, <3>1, DigitsInside
    <3> QED BY <1>1, <3>2
  <2> HIDE DEF whole
  <2>3. Fraction(whole) \in whole..Len(src) + 1
    <3>1. whole \in Offsets
      BY <1>1, <2>2 DEF Offsets
    <3> QED BY <1>1, <3>1, FractionInside
  <2> DEFINE fraction == Fraction(whole)
  <2>4. Exponent(fraction) \in fraction..Len(src) + 1
    <3> HIDE DEF fraction
    <3>1. fraction \in Offsets
      BY <1>1, <2>2, <2>3 DEF Offsets, fraction
    <3> QED BY <1>1, <3>1, ExponentInside
  <2> HIDE DEF end
  <2>5. end \in pos..Len(src) + 1
    <3> HIDE DEF fraction
    <3>1. end \in fraction..Len(src) + 1 /\ fraction \in whole..Len(src) + 1
      BY <2>3, <2>4 DEF end, fraction
    <3> QED BY <1>1, <2>2, <3>1
  <2> DEFINE kind == IF end > whole THEN "FLOAT" ELSE "INT"
  <2>6. kind \in {"INT", "FLOAT"} /\ ClaimNumber(kind, end)
    BY <2>1
  <2> HIDE DEF kind
  <2> QED BY <1>1, <2>5, <2>6, NumberClaimKeeps
<1> QED BY <1>2, <1>3

LEMMA IdentPlain == \A from, to : IdentKind(from, to) \in Plain
BY PlainKinds DEF IdentKind

LEMMA ScanIdentifierKeeps == ASSUME ScanInv, ScanIdentifier PROVE ScanInv'
<1> DEFINE to == RunEnd(IdentCont, pos)
<1>1. InCode /\ CallMade /\ Len(src) \in Nat /\ pos \in 1..Len(src) + 1
  BY CodeHere DEF ScanIdentifier, AtToken
<1>2. to \in pos..Len(src) + 1
  <2>1. pos \in Offsets
    BY <1>1 DEF Offsets
  <2> QED BY <1>1, <2>1, RunEndInside, NoEofClass
<1>3. Claim(Made(IdentKind(pos, to), to), to)
  BY DEF ScanIdentifier
<1> HIDE DEF to
<1> QED BY <1>1, <1>2, <1>3, IdentPlain, ClaimOne

LEMMA ScanOperatorKeeps == ASSUME ScanInv, ScanOperator PROVE ScanInv'
<1>1. InCode /\ CallMade /\ Len(src) \in Nat /\ pos \in 1..Len(src) + 1 /\ pos <= Len(src)
  BY CodeHere DEF ScanOperator, AtToken
<1>2. "OP" \in Plain /\ "PUNCT" \in Plain
  BY PlainKinds
<1>3. ASSUME NEW op \in OperatorsHere, Claim(Made("OP", pos + Len(op.open)), pos + Len(op.open))
      PROVE  ScanInv'
  <2>1. op \in {[open |-> x] : x \in cfg.operators} /\ Matches(op.open, pos)
    BY LongestMatches DEF OperatorsHere
  <2>2. op.open \in Seq(STRING)
    BY <1>1, <2>1, CallTyped, SpellingLen
  <2>3. pos + Len(op.open) \in pos..Len(src) + 1
    BY <1>1, <2>1, <2>2, MatchInside
  <2> QED BY <1>1, <1>2, <1>3, <2>3, ClaimOne
<1>4. ASSUME Claim(Made("PUNCT", pos + 1), pos + 1) PROVE ScanInv'
  <2>1. pos + 1 \in pos..Len(src) + 1
    BY <1>1
  <2> QED BY <1>1, <1>2, <1>4, <2>1, ClaimOne
<1> QED BY <1>3, <1>4 DEF ScanOperator

LEMMA ScanUnknownKeeps == ASSUME ScanInv, ScanUnknown PROVE ScanInv'
<1> DEFINE made == Made("unknown character", pos + 1)
<1>1. /\ InCode /\ pos <= Len(src) /\ Step(made, stack, interpDepth) /\ pos' = pos + 1
      /\ src' = src /\ cfg' = cfg
  BY DEF ScanUnknown, AtToken, fixed
<1>2. /\ CallMade /\ phase = "run" /\ Len(src) \in Nat /\ pos \in 1..Len(src) + 1
      /\ Progress = pos /\ ProgressOf(stack, pos + 1) = pos + 1
      /\ Framed(cfg.strings, stack, pos)
      /\ interpDepth = Depth(stack) /\ interpDepth <= MaxInterpDepth /\ interpDepth \in Nat
  BY <1>1, CodeHere
<1>3. pos \in Nat /\ pos + 1 \in Nat /\ pos <= pos + 1 /\ 0 \in 0..3
  BY <1>2
<1>4. Piece(made, pos, pos + 1, 0)
  BY <1>3, MadeIs, PlainKinds, PiecePlain
<1> HIDE DEF made
<1>5. Framed(cfg.strings, stack, pos')
  BY <1>1, <1>2, <1>3, FramedLater
<1>6. Piece(made, Progress, ProgressOf(stack, pos'), 0)
  BY <1>1, <1>2, <1>4
<1>7. 0 \in Int /\ 0 = interpDepth - interpDepth /\ pos' \in pos..Len(src) + 1
  BY <1>1, <1>2
<1> QED BY <1>1, <1>2, <1>5, <1>6, <1>7, StepKeeps

LEMMA OpenStringKeeps == ASSUME ScanInv, OpenString PROVE ScanInv'
<1>1. PICK rule \in Longest(cfg.strings, pos) :
        /\ Step(<<>>, Append(Counted, StringFrame(rule)), interpDepth)
        /\ pos' = pos + Len(rule.open)
  BY DEF OpenString
<1>2. InCode /\ src' = src /\ cfg' = cfg
  BY DEF OpenString, AtToken, fixed
<1>3. /\ CallMade /\ phase = "run" /\ Len(src) \in Nat /\ pos \in 1..Len(src) + 1
      /\ Progress = pos /\ interpDepth <= MaxInterpDepth /\ interpDepth \in Nat
  BY <1>2, CodeHere
<1>4. rule \in cfg.strings /\ rule \in StringRule /\ Matches(rule.open, pos)
  BY <1>3, CallTyped, LongestMatches
<1>5. pos' \in pos..Len(src) + 1
  <2>1. rule.open \in Seq(STRING)
    BY <1>4, SpellingLen DEF StringRule
  <2> QED BY <1>1, <1>3, <1>4, <2>1, MatchInside
<1> DEFINE f == StringFrame(rule)
<1>6. f \in Frame /\ f.is = "string" /\ f.rule = rule /\ f.start = pos /\ f.fragment = pos
  <2>1. <<>> \in Closing /\ pos \in Nat \ {0}
    BY <1>3 DEF Closing
  <2> QED BY <1>4, <2>1 DEF StringFrame, Frame
<1> HIDE DEF f
<1>7. /\ Framed(cfg.strings, Counted, pos) /\ Depth(Counted) = interpDepth
      /\ Counted # <<>> => Counted[Len(Counted)].is = "interp"
  BY <1>2, CountedOK
<1>8. InTurn(Counted, f) /\ Begun(cfg.strings, f, pos)
  BY <1>3, <1>4, <1>6, <1>7 DEF InTurn, Begun
<1> DEFINE after == Append(Counted, f)
<1>9. /\ Framed(cfg.strings, after, pos) /\ after # <<>> /\ after[Len(after)] = f
      /\ Depth(after) = interpDepth
  BY <1>3, <1>6, <1>7, <1>8, FramedPush
<1>10. Step(<<>>, after, interpDepth)
  BY <1>1 DEF f
<1> HIDE DEF after
<1>11. ProgressOf(after, pos') = pos
  BY <1>6, <1>9 DEF ProgressOf
<1>12. Piece(<<>>, Progress, ProgressOf(after, pos'), 0)
  BY <1>3, <1>11, PieceNone
<1>13. Framed(cfg.strings, after, pos')
  <2>1. PICK q \in Nat : q = pos'
    BY <1>3, <1>5
  <2>2. pos \in Nat /\ pos <= q
    BY <1>3, <1>5, <2>1
  <2> QED BY <1>9, <2>1, <2>2, FramedLater
<1>14. 0 \in Int /\ 0 = interpDepth - interpDepth
  BY <1>3
<1> QED BY <1>2, <1>3, <1>5, <1>9, <1>10, <1>12, <1>13, <1>14, StepKeeps
-----------------------------------------------------------------------------
(* Strings.                                                                *)

LEMMA StringHere ==
  ASSUME ScanInv, InString
  PROVE  /\ CallMade /\ phase = "run" /\ Len(src) \in Nat /\ pos \in 1..Len(src) + 1
         /\ stack # <<>> /\ Top \in Frame /\ Top.is = "string" /\ Begun(cfg.strings, Top, pos)
         /\ Rule \in StringRule /\ Rule \in cfg.strings
         /\ Top.fragment \in 1..pos /\ Progress = Top.fragment
         /\ Framed(cfg.strings, Rest, pos) /\ Depth(Rest) = interpDepth
         /\ InTurn(Rest, Top) /\ \A q : ProgressOf(Rest, q) = q
         /\ interpDepth = Depth(stack) /\ interpDepth <= MaxInterpDepth /\ interpDepth \in Nat
<1>1. /\ CallMade /\ phase = "run" /\ Len(src) \in Nat /\ pos \in 1..Len(src) + 1
      /\ stack # <<>> /\ Top.is = "string" /\ Framed(cfg.strings, stack, pos)
      /\ interpDepth = Depth(stack) /\ interpDepth <= MaxInterpDepth
  BY CallTyped DEF ScanInv, InString
<1>2. /\ Framed(cfg.strings, Rest, pos) /\ Top \in Frame /\ Begun(cfg.strings, Top, pos)
      /\ InTurn(Rest, Top) /\ Depth(stack) = Depth(Rest) + (IF Top.is = "interp" THEN 1 ELSE 0)
  BY <1>1, FramedPop DEF Rest, Top
<1>3. Depth(stack) \in Nat /\ Depth(Rest) \in Nat
  <2>1. stack \in Seq(Frame) /\ Rest \in Seq(Frame)
    BY <1>1, <1>2 DEF Framed
  <2> QED BY <2>1, HitsType DEF Depth
<1>4. Depth(Rest) = interpDepth /\ interpDepth \in Nat
  BY <1>1, <1>2, <1>3
<1>5. Top.fragment \in 1..pos /\ Rule \in StringRule /\ Rule \in cfg.strings
  BY <1>1, <1>2, FrameTyped DEF Begun, Rule
<1>6. Progress = Top.fragment
  BY <1>1 DEF Progress
<1>7. \A q : ProgressOf(Rest, q) = q
  BY <1>1, <1>2 DEF InTurn, ProgressOf
<1> QED BY <1>1, <1>2, <1>4, <1>5, <1>6, <1>7

\* The literal's activation is over at `to`, and its tokens reach there.
LEMMA LeaveString ==
  ASSUME ScanInv, InString, src' = src, cfg' = cfg, NEW made,
         Step(made, Rest, interpDepth), pos' \in pos..Len(src) + 1,
         NEW n \in Int, Piece(made, Top.fragment, pos', n), KeepsAll => n = 0
  PROVE  ScanInv'
<1>1. /\ phase = "run" /\ Len(src) \in Nat /\ pos \in 1..Len(src) + 1 /\ Progress = Top.fragment
      /\ Framed(cfg.strings, Rest, pos) /\ Depth(Rest) = interpDepth
      /\ ProgressOf(Rest, pos') = pos'
      /\ interpDepth <= MaxInterpDepth /\ interpDepth \in Nat
  BY StringHere
<1>2. PICK q \in Nat : q = pos'
  BY <1>1
<1>3. pos \in Nat /\ pos <= q
  BY <1>1, <1>2
<1>4. Framed(cfg.strings, Rest, pos')
  BY <1>1, <1>2, <1>3, FramedLater
<1>5. KeepsAll => n = interpDepth - interpDepth
  BY <1>1
<1> QED BY <1>1, <1>4, <1>5, StepKeeps

LEMMA EndStringKeeps ==
  ASSUME ScanInv, InString, NEW kind \in Plain, NEW v \in 0..3, NEW to \in pos..Len(src) + 1,
         EndString(kind, v, to)
  PROVE  ScanInv'
<1>1. /\ Len(src) \in Nat /\ pos \in 1..Len(src) + 1 /\ Top.fragment \in 1..pos
  BY StringHere
<1>2. /\ Step(MadeFrom(kind, Top.fragment, to, v), Rest, interpDepth) /\ pos' = to
      /\ src' = src /\ cfg' = cfg
  BY DEF EndString, fixed
<1>3. Top.fragment \in Nat /\ to \in Nat /\ Top.fragment <= to
  BY <1>1
<1>4. Piece(MadeFrom(kind, Top.fragment, to, v), Top.fragment, to, 0)
  BY <1>3, PiecePlain
<1>5. 0 \in Int
  OBVIOUS
<1> QED BY <1>2, <1>4, <1>5, LeaveString

LEMMA CutStringKeeps == ASSUME ScanInv, CutString PROVE ScanInv'
<1>1. InString /\ Len(src) \in Nat /\ pos \in 1..Len(src) + 1 /\ CallMade
  BY StringHere DEF CutString
<1>2. 0 \in 0..3 /\ pos \in pos..Len(src) + 1
  BY <1>1
<1> DEFINE kind == "unterminated string"
<1>3. kind \in Plain
  BY PlainKinds
<1>4. CASE EndString(kind, 0, pos)
  <2> HIDE DEF kind
  <2> QED BY <1>1, <1>2, <1>3, <1>4, EndStringKeeps
<1>5. CASE AtText /\ EndString(kind, 0, pos + 1)
  <2>1. At(pos) # "eof"
    BY <1>5 DEF AtText, Cut
  <2>2. pos + 1 \in pos..Len(src) + 1
    BY <1>1, <2>1, AtInside
  <2> HIDE DEF kind
  <2> QED BY <1>1, <1>2, <1>3, <1>5, <2>2, EndStringKeeps
<1> QED BY <1>4, <1>5 DEF CutString

LEMMA CloseStringKeeps == ASSUME ScanInv, CloseString PROVE ScanInv'
<1>1. /\ InString /\ Len(src) \in Nat /\ pos \in 1..Len(src) + 1 /\ CallMade
      /\ Rule \in StringRule
  BY StringHere DEF CloseString
<1> DEFINE kind == IF Tagged THEN "FRAG" ELSE Rule.kind
           v    == IF Tagged THEN 3 ELSE 0
<1>2. kind \in Plain /\ v \in 0..3
  <2>1. Rule.kind \in {"STRING", "CHAR", "IDENT"}
    BY <1>1 DEF StringRule
  <2>2. "FRAG" \in Plain /\ "STRING" \in Plain /\ "CHAR" \in Plain /\ "IDENT" \in Plain
    BY PlainKinds
  <2>3. kind \in Plain
    BY <2>1, <2>2
  <2>4. v \in 0..3
    OBVIOUS
  <2> QED BY <2>3, <2>4
<1>3. Matches(Rule.close, pos) /\ EndString(kind, v, pos + Len(Rule.close))
  BY DEF CloseString, AtStringClose
<1>4. pos + Len(Rule.close) \in pos..Len(src) + 1
  <2>1. Rule.close \in Seq(STRING)
    BY <1>1, SpellingLen DEF StringRule
  <2> QED BY <1>1, <1>3, <2>1, MatchInside
<1> HIDE DEF kind, v
<1> QED BY <1>1, <1>2, <1>3, <1>4, EndStringKeeps

LEMMA TextKeeps == ASSUME ScanInv, Text PROVE ScanInv'
<1>1. InString /\ src' = src /\ cfg' = cfg /\ phase' = phase /\ stack' = stack
      /\ interpDepth' = interpDepth /\ tokens' = tokens /\ ~Cut(pos)
  BY DEF Text, AtText, fixed
<1>2. /\ Len(src) \in Nat /\ pos \in 1..Len(src) + 1 /\ CallMade /\ phase = "run" /\ stack # <<>>
      /\ Top.is = "string" /\ Progress = Top.fragment
  BY <1>1, StringHere
<1>3. pos <= Len(src)
  BY <1>1, <1>2, AtInside DEF Cut
<1>4. pos' \in pos..Len(src) + 1
  <2>1. CASE AtEscape
    <3>1. At(pos + 1) # "eof"
      BY <2>1 DEF Text, Cut
    <3>2. pos + 1 \in Nat /\ pos + 1 <= Len(src)
      BY <1>2, <3>1, AtInside
    <3>3. RecoveryLen(pos + 1) \in 1..2 /\ (RecoveryLen(pos + 1) = 2 => pos + 1 < Len(src))
      BY DEF RecoveryLen
    <3>4. pos' = pos + 1 + RecoveryLen(pos + 1)
      BY <2>1 DEF Text
    <3> QED BY <1>2, <3>2, <3>3, <3>4
  <2>2. CASE ~AtEscape
    <3>1. pos' = pos + 1
      BY <2>2 DEF Text
    <3> QED BY <1>2, <1>3, <3>1
  <2> QED BY <2>1, <2>2
<1>5. PICK q \in Nat : q = pos' /\ pos <= q
  BY <1>2, <1>4
<1>6. Framed(cfg.strings, stack, pos)'
  <2>1. Framed(cfg.strings, stack, q)
    BY <1>2, <1>5, FramedLater DEF ScanInv
  <2> QED BY <1>1, <1>5, <2>1 DEF Framed, Begun
<1>7. Progress' = Progress /\ ProgressOf(stack', pos') = Progress
  BY <1>1, <1>2, ProgressIs DEF Progress, ProgressOf, Top
<1>8. Piece(tokens, 1, Progress, interpDepth)'
  <2>1. Piece(tokens, 1, Progress, interpDepth)
    BY <1>2 DEF ScanInv
  <2> QED BY <1>1, <1>7, <2>1, PieceFixed
<1>9. Tiles(tokens, 1, Progress)'
  BY <1>8 DEF Piece
<1>10. CallMade' /\ pos' \in 1..Len(src') + 1
  BY <1>1, <1>2, <1>4 DEF CallMade
<1>11. (interpDepth = Depth(stack) /\ interpDepth <= MaxInterpDepth)'
  BY <1>1 DEF ScanInv
<1> QED BY <1>1, <1>2, <1>6, <1>8, <1>9, <1>10, <1>11 DEF ScanInv
-----------------------------------------------------------------------------
(* Interpolations.                                                         *)

\* The text before the marker, if there is any, is a fragment.
LEMMA FragmentPiece ==
  ASSUME ScanInv, InString
  PROVE  Piece(FragmentBefore, Top.fragment, pos, 0)
<1>1. Top.fragment \in 1..pos /\ pos \in 1..Len(src) + 1 /\ Len(src) \in Nat
  BY StringHere
<1>2. Top.fragment \in Nat /\ pos \in Nat /\ Top.fragment <= pos
  BY <1>1
<1>3. 0 \in 0..3 /\ 1 \in 0..3 /\ 2 \in 0..3
  OBVIOUS
<1>4. "FRAG" \in Plain /\ "STRING" \in Plain
  BY PlainKinds
<1>5. CASE Top.fragment = pos
  <2>1. FragmentBefore = <<>>
    BY <1>5 DEF FragmentBefore
  <2> QED BY <1>2, <1>5, <2>1, PieceNone
<1>6. CASE Top.fragment # pos /\ Rule.marked
  <2> DEFINE v == IF Top.fragment = Top.start THEN 1 ELSE 2
  <2>1. FragmentBefore = MadeFrom("FRAG", Top.fragment, pos, v)
    BY <1>6 DEF FragmentBefore
  <2>2. v \in 0..3
    OBVIOUS
  <2> HIDE DEF v
  <2> QED BY <1>2, <1>4, <2>1, <2>2, PiecePlain
<1>7. CASE Top.fragment # pos /\ ~Rule.marked
  <2>1. FragmentBefore = MadeFrom("STRING", Top.fragment, pos, 0)
    BY <1>7 DEF FragmentBefore
  <2> QED BY <1>2, <1>3, <1>4, <2>1, PiecePlain
<1> QED BY <1>5, <1>6, <1>7

LEMMA MarkerInside ==
  ASSUME ScanInv, InString, AtInterp
  PROVE  /\ AfterOpen \in pos..Len(src) + 1
         /\ BodyStart \in pos..Len(src) + 1
<1>1. /\ CallMade /\ Len(src) \in Nat /\ pos \in 1..Len(src) + 1 /\ Rule \in StringRule
  BY StringHere
<1>2. Rule.interpOpen \in Seq(STRING) /\ Matches(Rule.interpOpen, pos)
  BY <1>1 DEF StringRule, AtInterp
<1>3. AfterOpen \in Nat /\ AfterOpen \in pos..Len(src) + 1
  BY <1>1, <1>2, MatchInside DEF AfterOpen
<1>4. CASE DualBrace
  <2>1. At(AfterOpen) # "eof"
    BY <1>4 DEF DualBrace
  <2>2. AfterOpen <= Len(src)
    BY <1>1, <1>3, <2>1, AtInside
  <2>3. BodyStart = AfterOpen + 1
    BY <1>4 DEF BodyStart
  <2> QED BY <1>1, <1>3, <2>2, <2>3
<1>5. CASE ~DualBrace
  BY <1>3, <1>5 DEF BodyStart
<1> QED BY <1>4, <1>5

\* Where markers are not kept, this one leaves a gap.
LEMMA MarkerPiece ==
  ASSUME ScanInv, InString, AtInterp
  PROVE  /\ Piece(OpenMarker, pos, BodyStart, IF Rule.marked THEN 1 ELSE 0)
         /\ KeepsAll => Rule.marked
<1>1. /\ CallMade /\ Len(src) \in Nat /\ pos \in 1..Len(src) + 1 /\ Rule \in cfg.strings
  BY StringHere
<1>2. BodyStart \in pos..Len(src) + 1
  BY MarkerInside
<1>3. pos \in Nat /\ BodyStart \in Nat /\ pos <= BodyStart /\ 0 \in 0..3
  BY <1>1, <1>2
<1>4. KeepsAll => Rule.marked
  BY <1>1 DEF KeepsAll
<1>5. CASE Rule.marked
  <2>1. "OPEN" \in Kinds /\ "OPEN" \notin Again
    BY DEF Kinds, Invalids, Again
  <2>2. Piece(MadeFrom("OPEN", pos, BodyStart, 0), pos, BodyStart, 1)
    BY <1>3, <2>1, PieceOne
  <2>3. OpenMarker = MadeFrom("OPEN", pos, BodyStart, 0)
    BY <1>5, MadeIs DEF OpenMarker
  <2> QED BY <1>4, <1>5, <2>2, <2>3
<1>6. CASE ~Rule.marked
  <2>1. OpenMarker = <<>>
    BY <1>6 DEF OpenMarker
  <2> QED BY <1>3, <1>4, <1>6, <2>1, PieceBlank
<1> QED BY <1>5, <1>6

LEMMA EnterInterpolationKeeps == ASSUME ScanInv, EnterInterpolation PROVE ScanInv'
<1> DEFINE f1   == [Top EXCEPT !.had = TRUE]
           f2   == [Top EXCEPT !.is = "interp", !.start = pos, !.close = InterpClose]
           made == FragmentBefore \o OpenMarker
           n    == 0 + (IF Rule.marked THEN 1 ELSE 0)
<1>1. /\ InString /\ AtInterp /\ interpDepth < MaxInterpDepth
      /\ Step(made, Rest \o <<f1, f2>>, interpDepth + 1)
      /\ pos' = BodyStart /\ src' = src /\ cfg' = cfg
  BY DEF EnterInterpolation, AtText, fixed
<1>2. /\ CallMade /\ phase = "run" /\ Len(src) \in Nat /\ pos \in 1..Len(src) + 1
      /\ Top \in Frame /\ Top.is = "string" /\ Begun(cfg.strings, Top, pos)
      /\ Progress = Top.fragment
      /\ Framed(cfg.strings, Rest, pos) /\ Depth(Rest) = interpDepth /\ InTurn(Rest, Top)
      /\ interpDepth \in Nat /\ Rule \in StringRule
  BY <1>1, StringHere
<1>3. pos' \in pos..Len(src) + 1
  BY <1>1, MarkerInside
<1>4. f1 \in Frame /\ f1.is = "string" /\ f1.rule = Top.rule /\ f1.start = Top.start
      /\ f1.fragment = Top.fragment
  BY <1>2 DEF Frame
<1>5. f2 \in Frame /\ f2.is = "interp" /\ f2.rule = Top.rule /\ f2.start = pos
      /\ f2.fragment = Top.fragment
  <2>1. Rule.interpClose \in Seq(STRING)
    BY <1>2 DEF StringRule
  <2>2. InterpClose = <<"}">> \/ InterpClose = Rule.interpClose
    BY DEF InterpClose
  <2>3. InterpClose \in Closing
    BY <2>1, <2>2 DEF Closing
  <2>4. pos \in Nat
    BY <1>2
  <2> QED BY <1>2, <2>3, <2>4 DEF Frame
<1> HIDE DEF f1, f2, made, n
<1>6. InTurn(Rest, f1) /\ Begun(cfg.strings, f1, pos)
  BY <1>2, <1>4 DEF InTurn, Begun
<1> DEFINE mid   == Append(Rest, f1)
           after == Append(mid, f2)
<1>7. /\ Framed(cfg.strings, mid, pos) /\ mid # <<>> /\ mid[Len(mid)] = f1
      /\ Depth(mid) = interpDepth + 0
  BY <1>2, <1>4, <1>6, FramedPush
<1>8. InTurn(mid, f2) /\ Begun(cfg.strings, f2, pos)
  <2> HIDE DEF mid
  <2>1. InTurn(mid, f2)
    BY <1>4, <1>5, <1>7 DEF InTurn
  <2>2. pos <= pos
    BY <1>2
  <2> QED BY <1>2, <1>5, <2>1, <2>2 DEF Begun
<1>9. /\ Framed(cfg.strings, after, pos) /\ after # <<>> /\ after[Len(after)] = f2
      /\ Depth(after) = Depth(mid) + 1
  <2> HIDE DEF mid
  <2> QED BY <1>5, <1>7, <1>8, FramedPush
<1>10. Rest \o <<f1, f2>> = after
  <2>1. Rest \in Seq(Frame)
    BY <1>2 DEF Framed
  <2> QED BY <1>4, <1>5, <2>1
<1> HIDE DEF mid, after
<1>11. Depth(after) = interpDepth + 1 /\ interpDepth + 1 <= MaxInterpDepth
  BY <1>1, <1>2, <1>7, <1>9, DepthOK
<1>12. ProgressOf(after, pos') = pos'
  BY <1>5, <1>9 DEF ProgressOf
<1>13. Piece(made, Top.fragment, BodyStart, n) /\ n \in Int /\ (KeepsAll => n = 1)
  <2>1. Piece(FragmentBefore, Top.fragment, pos, 0)
        /\ Piece(OpenMarker, pos, BodyStart, IF Rule.marked THEN 1 ELSE 0)
        /\ (KeepsAll => Rule.marked)
    BY <1>1, FragmentPiece, MarkerPiece
  <2>2. n \in Int /\ (KeepsAll => n = 1) /\ 0 \in Int /\ (IF Rule.marked THEN 1 ELSE 0) \in Int
    BY <2>1 DEF n
  <2> QED BY <2>1, <2>2, PieceConcat DEF made, n
<1>14. Piece(made, Progress, ProgressOf(after, pos'), n)
  BY <1>1, <1>2, <1>12, <1>13
<1>15. Framed(cfg.strings, after, pos')
  <2>1. PICK q \in Nat : q = pos'
    BY <1>2, <1>3
  <2>2. pos \in Nat /\ pos <= q
    BY <1>2, <1>3, <2>1
  <2> QED BY <1>9, <2>1, <2>2, FramedLater
<1>16. KeepsAll => n = (interpDepth + 1) - interpDepth
  BY <1>2, <1>13
<1> QED BY <1>1, <1>2, <1>3, <1>10, <1>11, <1>13, <1>14, <1>15, <1>16, StepKeeps

LEMMA InterpolationTooDeepKeeps == ASSUME ScanInv, InterpolationTooDeep PROVE ScanInv'
<1> DEFINE m    == 0 + (IF Rule.marked THEN 1 ELSE 0)
           n    == m + (-1)
           deep == Made("too deep", BodyStart)
           made == (FragmentBefore \o OpenMarker) \o deep
<1>1. /\ InString /\ AtInterp /\ Step(made, Rest, interpDepth)
      /\ pos' = BodyStart /\ src' = src /\ cfg' = cfg
  BY DEF InterpolationTooDeep, AtText, fixed
<1>2. Len(src) \in Nat /\ pos \in 1..Len(src) + 1
  BY <1>1, StringHere
<1>3. BodyStart \in pos..Len(src) + 1
  BY <1>1, MarkerInside
<1>4. Piece(FragmentBefore, Top.fragment, pos, 0)
      /\ Piece(OpenMarker, pos, BodyStart, IF Rule.marked THEN 1 ELSE 0)
      /\ (KeepsAll => Rule.marked)
  BY <1>1, FragmentPiece, MarkerPiece
<1>5. Piece(deep, BodyStart, BodyStart, -1)
  <2>1. pos \in Nat /\ BodyStart \in Nat /\ pos <= BodyStart /\ 0 \in 0..3
    BY <1>2, <1>3
  <2>2. "too deep" \in Again
    BY DEF Again
  <2> QED BY <2>1, <2>2, MadeIs, PieceAgain
<1> HIDE DEF deep
<1>6. m \in Int /\ n \in Int /\ -1 \in Int /\ (KeepsAll => n = 0) /\ 0 \in Int
      /\ (IF Rule.marked THEN 1 ELSE 0) \in Int
  BY <1>4
<1>7. Piece(FragmentBefore \o OpenMarker, Top.fragment, BodyStart, m)
  BY <1>4, <1>6, PieceConcat
<1>8. Piece(made, Top.fragment, BodyStart, n)
  <2> HIDE DEF m
  <2> QED BY <1>5, <1>6, <1>7, PieceConcat
<1> HIDE DEF n, m, made
<1>9. pos' \in pos..Len(src) + 1 /\ Piece(made, Top.fragment, pos', n)
  BY <1>1, <1>3, <1>8
<1> QED BY <1>1, <1>6, <1>9, LeaveString

LEMMA BareInterpolationKeeps == ASSUME ScanInv, BareInterpolation PROVE ScanInv'
<1> DEFINE to == RunEnd(IdentCont, AfterOpen)
<1>1. InString /\ AtInterp /\ src' = src /\ cfg' = cfg
  BY DEF BareInterpolation, AtText, fixed
<1>2. /\ CallMade /\ phase = "run" /\ Len(src) \in Nat /\ pos \in 1..Len(src) + 1
      /\ Top \in Frame /\ Top.is = "string" /\ Begun(cfg.strings, Top, pos)
      /\ Rule \in cfg.strings /\ Progress = Top.fragment
      /\ Framed(cfg.strings, Rest, pos) /\ Depth(Rest) = interpDepth /\ InTurn(Rest, Top)
      /\ interpDepth \in Nat /\ interpDepth <= MaxInterpDepth
  BY <1>1, StringHere
<1>3. AfterOpen \in pos..Len(src) + 1
  BY <1>1, MarkerInside
<1>4. Piece(FragmentBefore, Top.fragment, pos, 0)
  BY <1>1, FragmentPiece
<1>5. 0 \in 0..3 /\ 0 \in Int /\ 0 + 0 = 0
  OBVIOUS
<1>6. ASSUME Step(FragmentBefore \o Made("expected identifier", AfterOpen), Rest, interpDepth),
             pos' = AfterOpen
      PROVE  ScanInv'
  <2> DEFINE kind == "expected identifier"
  <2>1. kind \in Plain
    BY PlainKinds
  <2> HIDE DEF kind
  <2>2. pos \in Nat /\ AfterOpen \in Nat /\ pos <= AfterOpen
    BY <1>2, <1>3
  <2>3. Piece(Made(kind, AfterOpen), pos, AfterOpen, 0)
    BY <1>5, <2>1, <2>2, MadeIs, PiecePlain
  <2>4. Piece(FragmentBefore \o Made(kind, AfterOpen), Top.fragment, pos', 0)
    BY <1>4, <1>5, <1>6, <2>3, PieceConcat
  <2>5. Step(FragmentBefore \o Made(kind, AfterOpen), Rest, interpDepth)
    BY <1>6 DEF kind
  <2> QED BY <1>1, <1>3, <1>5, <1>6, <2>4, <2>5, LeaveString
<1>7. ASSUME NEW name,
             name = IF Rule.marked THEN Made("BARE", to)
                    ELSE MadeFrom(IdentKind(AfterOpen, to), AfterOpen, to, 0),
             Step(FragmentBefore \o name, Append(Rest, Resumed(to)), interpDepth), pos' = to
      PROVE  ScanInv'
  <2>1. to \in AfterOpen..Len(src) + 1
    <3>1. AfterOpen \in Offsets
      BY <1>2, <1>3 DEF Offsets
    <3> QED BY <1>2, <3>1, RunEndInside, NoEofClass
  <2> HIDE DEF to
  <2>2. /\ pos \in Nat /\ AfterOpen \in Nat /\ pos <= AfterOpen /\ to \in Nat /\ AfterOpen <= to
        /\ to \in 1..Len(src) + 1 /\ pos <= to /\ to \in pos..Len(src) + 1
    BY <1>2, <1>3, <2>1
  <2>3. Piece(name, pos, to, 0)
    <3>1. CASE Rule.marked
      <4>1. "BARE" \in Plain
        BY PlainKinds
      <4> QED BY <1>5, <1>7, <2>2, <3>1, <4>1, MadeIs, PiecePlain
    <3>2. CASE ~Rule.marked
      <4>1. ~KeepsAll
        BY <1>2, <3>2 DEF KeepsAll
      <4>2. Piece(<<>>, pos, AfterOpen, 0)
        BY <2>2, <4>1, PieceBlank
      <4>3. Piece(name, AfterOpen, to, 0)
        BY <1>5, <1>7, <2>2, <3>2, IdentPlain, PiecePlain
      <4>4. Piece(<<>> \o name, pos, to, 0)
        BY <1>5, <4>2, <4>3, PieceConcat
      <4>5. <<>> \o name = name
        <5>1. name \in Seq(Token)
          BY <4>3 DEF Piece, Tiles
        <5> QED BY <5>1
      <4> QED BY <4>4, <4>5
    <3> QED BY <3>1, <3>2
  <2> DEFINE made  == FragmentBefore \o name
             f     == Resumed(to)
             after == Append(Rest, f)
  <2>4. Piece(made, Top.fragment, to, 0)
    BY <1>4, <1>5, <2>3, PieceConcat
  <2>5. f \in Frame /\ f.is = "string" /\ f.rule = Top.rule /\ f.start = Top.start
        /\ f.fragment = to
    <3>1. to \in Nat \ {0}
      BY <1>2, <2>2
    <3> QED BY <1>2, <3>1 DEF Frame, Resumed
  <2> HIDE DEF f, made
  <2>6. InTurn(Rest, f) /\ Begun(cfg.strings, f, to)
    <3>1. Top.start \in Nat
      BY <1>2, FrameTyped
    <3> QED BY <1>2, <2>2, <2>5, <3>1 DEF InTurn, Begun
  <2>7. Framed(cfg.strings, Rest, to)
    BY <1>2, <2>2, FramedLater
  <2>8. /\ Framed(cfg.strings, after, to) /\ after # <<>> /\ after[Len(after)] = f
        /\ Depth(after) = interpDepth + 0
    BY <1>2, <2>5, <2>6, <2>7, FramedPush
  <2> HIDE DEF after
  <2>9. ProgressOf(after, pos') = to
    BY <2>5, <2>8 DEF ProgressOf
  <2>10. Piece(made, Progress, ProgressOf(after, pos'), 0)
    BY <1>2, <2>4, <2>9
  <2>11. Depth(after) = interpDepth /\ 0 = interpDepth - interpDepth
    BY <1>2, <2>8
  <2>12. Step(made, after, interpDepth)
    BY <1>7 DEF made, after, f
  <2> QED BY <1>1, <1>2, <1>5, <1>7, <2>2, <2>8, <2>10, <2>11, <2>12, StepKeeps
<1> HIDE DEF to
<1>8. \/ /\ Step(FragmentBefore \o (IF Rule.marked THEN Made("BARE", to)
                                   ELSE MadeFrom(IdentKind(AfterOpen, to), AfterOpen, to, 0)),
                Append(Rest, Resumed(to)), interpDepth)
         /\ pos' = to
      \/ /\ Step(FragmentBefore \o Made("expected identifier", AfterOpen), Rest, interpDepth)
         /\ pos' = AfterOpen
  BY DEF BareInterpolation, to
<1> QED BY <1>6, <1>7, <1>8

LEMMA InterpHere ==
  ASSUME ScanInv, InInterp
  PROVE  LET Around == stack[Len(stack) - 1]
             Outer  == SubSeq(stack, 1, Len(stack) - 2)
         IN  /\ InCode /\ CallMade /\ phase = "run" /\ Len(src) \in Nat /\ pos \in 1..Len(src) + 1
             /\ Progress = pos /\ stack # <<>>
             /\ Top \in Frame /\ Begun(cfg.strings, Top, pos) /\ Rule \in cfg.strings
             /\ Around \in Frame /\ Around.is = "string" /\ Begun(cfg.strings, Around, pos)
             /\ Framed(cfg.strings, Outer, pos) /\ InTurn(Outer, Around)
             /\ interpDepth \in Nat \ {0} /\ interpDepth <= MaxInterpDepth
             /\ Depth(Outer) = interpDepth - 1
<1> DEFINE Around == stack[Len(stack) - 1]
           Outer  == SubSeq(stack, 1, Len(stack) - 2)
<1>1. InCode /\ stack # <<>> /\ Top.is = "interp"
  BY DEF InInterp, InCode
<1>2. /\ CallMade /\ phase = "run" /\ Len(src) \in Nat /\ pos \in 1..Len(src) + 1
      /\ Progress = pos /\ Framed(cfg.strings, stack, pos)
      /\ interpDepth = Depth(stack) /\ interpDepth <= MaxInterpDepth /\ interpDepth \in Nat
  BY <1>1, CodeHere
<1>3. /\ Framed(cfg.strings, Rest, pos) /\ Top \in Frame /\ Begun(cfg.strings, Top, pos)
      /\ InTurn(Rest, Top) /\ Depth(stack) = Depth(Rest) + 1
      /\ Len(Rest) = Len(stack) - 1 /\ Len(stack) \in Nat \ {0}
      /\ Rest # <<>> => Rest[Len(Rest)] = Around
  BY <1>1, <1>2, FramedPop DEF Rest, Top
<1>4. Rest # <<>> /\ Around = Rest[Len(Rest)] /\ Around.is # "interp"
  BY <1>1, <1>3 DEF InTurn
<1>5. Outer = SubSeq(Rest, 1, Len(Rest) - 1)
  <2>1. stack \in Seq(Frame)
    BY <1>2 DEF Framed
  <2>2. Len(Rest) - 1 = Len(stack) - 2 /\ Len(Rest) \in Nat
    BY <1>3
  <2>3. Len(stack) - 1 \in Nat /\ Len(stack) - 2 <= Len(stack) - 1
    BY <1>3
  <2>4. SubSeq(SubSeq(stack, 1, Len(stack) - 1), 1, Len(stack) - 2) = SubSeq(stack, 1, Len(stack) - 2)
    BY <1>3, <2>1, <2>3
  <2> QED BY <2>2, <2>4 DEF Rest
<1> HIDE DEF Around, Outer
<1>6. /\ Framed(cfg.strings, Outer, pos) /\ Around \in Frame /\ Begun(cfg.strings, Around, pos)
      /\ InTurn(Outer, Around)
      /\ Depth(Rest) = Depth(Outer) + (IF Around.is = "interp" THEN 1 ELSE 0)
  BY <1>3, <1>4, <1>5, FramedPop
<1>7. Depth(Outer) \in Nat
  <2>1. Outer \in Seq(Frame)
    BY <1>6 DEF Framed
  <2> QED BY <2>1, HitsType DEF Depth
<1>8. interpDepth \in Nat \ {0} /\ Depth(Outer) = interpDepth - 1
  BY <1>2, <1>3, <1>4, <1>6, <1>7
<1>9. Around.is = "string" /\ Rule \in cfg.strings
  BY <1>3, <1>4, <1>6, FrameTyped DEF Rule, Begun
<1> QED BY <1>1, <1>2, <1>3, <1>6, <1>8, <1>9 DEF Around, Outer

LEMMA CloseInterpolationKeeps == ASSUME ScanInv, CloseInterpolation PROVE ScanInv'
<1> DEFINE Around == stack[Len(stack) - 1]
           Outer  == SubSeq(stack, 1, Len(stack) - 2)
           to     == pos + Len(Top.close)
           f      == [Around EXCEPT !.fragment = ResumeAt]
           made   == IF Rule.marked THEN Made("CLOSE", to) ELSE <<>>
           n      == IF Rule.marked THEN -1 ELSE 0
           after  == Append(Outer, f)
<1>1. /\ InInterp /\ AtClose /\ Step(made, after, interpDepth - 1)
      /\ pos' = to /\ src' = src /\ cfg' = cfg
  BY DEF CloseInterpolation, fixed
<1>2. /\ CallMade /\ phase = "run" /\ Len(src) \in Nat /\ pos \in 1..Len(src) + 1
      /\ Progress = pos /\ Top \in Frame /\ Rule \in cfg.strings
      /\ Around \in Frame /\ Around.is = "string" /\ Begun(cfg.strings, Around, pos)
      /\ Framed(cfg.strings, Outer, pos) /\ InTurn(Outer, Around)
      /\ interpDepth \in Nat \ {0} /\ interpDepth <= MaxInterpDepth
      /\ Depth(Outer) = interpDepth - 1
  BY <1>1, InterpHere
<1> HIDE DEF Around, Outer
<1>3. to \in Nat /\ pos <= to /\ to <= Len(src) + 1
  <2>1. Len(Top.close) \in Nat
    BY <1>2, FrameTyped
  <2>2. Matches(Top.close, pos) /\ pos \in Nat
    BY <1>1, <1>2 DEF AtClose
  <2> QED BY <1>2, <2>1, <2>2, MatchEnds
<1>4. ResumeAt = to
  BY DEF ResumeAt
<1> HIDE DEF to
<1>5. /\ to \in Nat \ {0} /\ to \in pos..Len(src) + 1 /\ pos \in Nat /\ 0 \in 0..3 /\ 0 \in Int
      /\ -1 \in Int
  BY <1>2, <1>3
<1>6. KeepsAll => Rule.marked
  BY <1>2 DEF KeepsAll
<1>7. Piece(made, pos, to, n) /\ n \in Int /\ (KeepsAll => n = -1)
  <2>1. CASE Rule.marked
    <3>1. "CLOSE" \in Kinds /\ "CLOSE" \notin Again
      BY DEF Kinds, Invalids, Again
    <3>2. Piece(MadeFrom("CLOSE", pos, to, 0), pos, to, -1)
      BY <1>3, <1>5, <3>1, PieceOne
    <3>3. made = MadeFrom("CLOSE", pos, to, 0) /\ n = -1
      BY <2>1, MadeIs
    <3> HIDE DEF made, n
    <3> QED BY <1>5, <3>2, <3>3
  <2>2. CASE ~Rule.marked
    <3>1. made = <<>> /\ n = 0
      BY <2>2
    <3>2. Piece(<<>>, pos, to, 0)
      BY <1>3, <1>5, <1>6, <2>2, PieceBlank
    <3> HIDE DEF made, n
    <3> QED BY <1>5, <1>6, <2>2, <3>1, <3>2
  <2> QED BY <2>1, <2>2
<1>8. f \in Frame /\ f.is = "string" /\ f.rule = Around.rule /\ f.start = Around.start
      /\ f.fragment = to
  BY <1>2, <1>4, <1>5 DEF Frame
<1> HIDE DEF made, n, f
<1>9. InTurn(Outer, f) /\ Begun(cfg.strings, f, to)
  <2>1. Around.start \in Nat
    BY <1>2, FrameTyped
  <2> QED BY <1>2, <1>3, <1>5, <1>8, <2>1 DEF InTurn, Begun
<1>10. Framed(cfg.strings, Outer, to)
  BY <1>2, <1>3, <1>5, FramedLater
<1>11. /\ Framed(cfg.strings, after, to) /\ after # <<>> /\ after[Len(after)] = f
       /\ Depth(after) = Depth(Outer) + 0
  BY <1>8, <1>9, <1>10, FramedPush
<1> HIDE DEF after
<1>12. ProgressOf(after, pos') = to
  BY <1>8, <1>11 DEF ProgressOf
<1>13. Piece(made, Progress, ProgressOf(after, pos'), n)
  BY <1>2, <1>7, <1>12
<1>14. /\ interpDepth - 1 = Depth(after) /\ interpDepth - 1 <= MaxInterpDepth
       /\ KeepsAll => n = (interpDepth - 1) - interpDepth
  BY <1>2, <1>7, <1>11, DepthOK
<1> QED BY <1>1, <1>2, <1>5, <1>7, <1>11, <1>13, <1>14, StepKeeps

LEMMA CutInterpolationKeeps == ASSUME ScanInv, CutInterpolation PROVE ScanInv'
<1> DEFINE Around == stack[Len(stack) - 1]
           Outer  == SubSeq(stack, 1, Len(stack) - 2)
           kind   == "unterminated interpolation"
           made   == MadeFrom(kind, Top.start, pos, 0)
<1>1. /\ InInterp /\ Step(made, Outer, interpDepth - 1) /\ pos' = pos /\ src' = src /\ cfg' = cfg
  BY DEF CutInterpolation, DepthAfterCut, fixed
<1>2. /\ CallMade /\ phase = "run" /\ Len(src) \in Nat /\ pos \in 1..Len(src) + 1
      /\ Progress = pos /\ Top \in Frame /\ Begun(cfg.strings, Top, pos)
      /\ Around.is = "string"
      /\ Framed(cfg.strings, Outer, pos) /\ InTurn(Outer, Around)
      /\ interpDepth \in Nat \ {0} /\ interpDepth <= MaxInterpDepth
      /\ Depth(Outer) = interpDepth - 1
  BY <1>1, InterpHere
<1> HIDE DEF Outer, Around
<1>3. Top.start \in Nat /\ Top.start <= pos /\ pos \in Nat /\ 0 \in 0..3 /\ -1 \in Int
  BY <1>2, FrameTyped DEF Begun
<1>4. kind \in Again
  BY DEF Again
<1> HIDE DEF kind
<1>5. Piece(made, pos, pos, -1)
  BY <1>3, <1>4, PieceAgain
<1> HIDE DEF made
<1>6. ProgressOf(Outer, pos) = pos
  BY <1>2 DEF InTurn, ProgressOf
<1>7. Piece(made, Progress, ProgressOf(Outer, pos'), -1) /\ Framed(cfg.strings, Outer, pos')
  BY <1>1, <1>2, <1>5, <1>6
<1>8. /\ interpDepth - 1 <= MaxInterpDepth /\ -1 = (interpDepth - 1) - interpDepth
      /\ pos' \in pos..Len(src) + 1
  BY <1>1, <1>2, DepthOK
<1> QED BY <1>1, <1>2, <1>3, <1>7, <1>8, StepKeeps
-----------------------------------------------------------------------------
(* Every step.                                                             *)

LEMMA FinishKeeps == ASSUME ScanInv, Finish PROVE ScanInv'
<1>1. /\ phase = "run" /\ stack = <<>> /\ src' = src /\ cfg' = cfg /\ pos' = pos
      /\ stack' = stack /\ interpDepth' = interpDepth /\ phase' \in {"done", "failed"}
      /\ tokens' = tokens \o Made("EOF", pos) \/ (phase' = "failed" /\ tokens' = tokens)
  BY DEF Finish, fixed
<1>2. /\ CallMade /\ Len(src) \in Nat /\ pos \in 1..Len(src) + 1
      /\ Framed(cfg.strings, stack, pos) /\ interpDepth = Depth(stack)
      /\ interpDepth <= MaxInterpDepth /\ Piece(tokens, 1, Progress, interpDepth)
  BY <1>1, CallTyped DEF ScanInv
<1>3. Progress = pos /\ ProgressOf(stack', pos') = pos
  BY <1>1 DEF Progress, ProgressOf
<1>4. interpDepth \in Nat /\ interpDepth \in Int /\ 0 \in Int /\ interpDepth + 0 = interpDepth
  BY <1>2, InterpsCounted
<1>5. Piece(Made("EOF", pos), pos, pos, 0)
  <2>1. pos \in Nat /\ pos <= pos /\ 0 \in 0..3
    BY <1>2
  <2>2. "EOF" \in Plain
    BY PlainKinds
  <2> QED BY <2>1, <2>2, MadeIs, PiecePlain
<1>6. Piece(tokens \o Made("EOF", pos), 1, pos, interpDepth)
  BY <1>2, <1>3, <1>4, <1>5, PieceConcat
<1>7. Piece(tokens', 1, ProgressOf(stack', pos'), interpDepth')
  BY <1>1, <1>2, <1>3, <1>6
<1>8. Piece(tokens, 1, Progress, interpDepth)' /\ Tiles(tokens, 1, Progress)'
  <2>1. Piece(tokens, 1, Progress, interpDepth)'
    BY <1>1, <1>7, PieceFixed
  <2> QED BY <2>1 DEF Piece
<1>9. CallMade' /\ Framed(cfg.strings, stack, pos)'
      /\ (interpDepth = Depth(stack) /\ interpDepth <= MaxInterpDepth)'
  BY <1>1, <1>2 DEF CallMade
<1> QED BY <1>1, <1>2, <1>8, <1>9 DEF ScanInv

LEMMA ScanKept == ASSUME ScanInv, [Next]_vars PROVE ScanInv'
<1>1. CASE SkipBlank
  BY <1>1, SkipBlankKeeps
<1>2. CASE ScanComment
  BY <1>2, ScanCommentKeeps
<1>3. CASE OpenString
  BY <1>3, OpenStringKeeps
<1>4. CASE ScanNumber
  BY <1>4, ScanNumberKeeps
<1>5. CASE ScanIdentifier
  BY <1>5, ScanIdentifierKeeps
<1>6. CASE ScanOperator
  BY <1>6, ScanOperatorKeeps
<1>7. CASE ScanUnknown
  BY <1>7, ScanUnknownKeeps
<1>8. CASE CutString
  BY <1>8, CutStringKeeps
<1>9. CASE CloseString
  BY <1>9, CloseStringKeeps
<1>10. CASE Text
  BY <1>10, TextKeeps
<1>11. CASE EnterInterpolation
  BY <1>11, EnterInterpolationKeeps
<1>12. CASE InterpolationTooDeep
  BY <1>12, InterpolationTooDeepKeeps
<1>13. CASE BareInterpolation
  BY <1>13, BareInterpolationKeeps
<1>14. CASE CloseInterpolation
  BY <1>14, CloseInterpolationKeeps
<1>15. CASE CutInterpolation
  BY <1>15, CutInterpolationKeeps
<1>16. CASE Finish
  BY <1>16, FinishKeeps
<1>17. CASE UNCHANGED vars
  <2>1. /\ src' = src /\ cfg' = cfg /\ phase' = phase /\ pos' = pos /\ stack' = stack
        /\ interpDepth' = interpDepth /\ tokens' = tokens
    BY <1>17 DEF vars
  <2>2. ProgressOf(stack', pos') = Progress
    BY <2>1, ProgressIs
  <2>3. phase # "failed" => Piece(tokens, 1, Progress, interpDepth)'
    BY <2>1, <2>2, PieceFixed DEF ScanInv
  <2>4. Tiles(tokens, 1, Progress)'
    <3>1. Progress' = Progress
      BY <2>1, <2>2 DEF Progress, ProgressOf, Top
    <3> QED BY <2>1, <3>1 DEF ScanInv, Tiles
  <2>5. CallMade' /\ Framed(cfg.strings, stack, pos)'
    BY <2>1 DEF ScanInv, CallMade, Framed, Begun
  <2>6. (interpDepth = Depth(stack) /\ interpDepth <= MaxInterpDepth)'
    BY <2>1 DEF ScanInv
  <2> QED BY <2>1, <2>3, <2>4, <2>5, <2>6 DEF ScanInv
<1> QED BY <1>1, <1>2, <1>3, <1>4, <1>5, <1>6, <1>7, <1>8, <1>9, <1>10, <1>11, <1>12, <1>13,
           <1>14, <1>15, <1>16, <1>17 DEF Next, Returned

LEMMA ScanAlways == Spec => []ScanInv
<1>1. Init => ScanInv
  BY ScanStart
<1>2. ScanInv /\ [Next]_vars => ScanInv'
  BY ScanKept
<1> QED BY <1>1, <1>2, PTL DEF Spec
-----------------------------------------------------------------------------
(* For every source and configuration the cursor of kavak_lex stays in the *)
(* source, every token it pushes is well formed and ends at or before the  *)
(* cursor, and lex.interp_depth counts the live activations of             *)
(* scan_interpolation_expression and never exceeds the limit, on the paths *)
(* that give up after a failed push too.                                   *)
THEOREM ScannersTyped == Spec => []TypeOK
<1>1. ScanInv => TypeOK
  <2> SUFFICES ASSUME ScanInv PROVE TypeOK
    OBVIOUS
  <2>1. /\ CallMade /\ Len(src) \in Nat /\ pos \in 1..Len(src) + 1
        /\ Framed(cfg.strings, stack, pos) /\ phase \in {"run", "done", "failed"}
        /\ interpDepth = Depth(stack) /\ interpDepth <= MaxInterpDepth
        /\ Tiles(tokens, 1, Progress)
    BY CallTyped DEF ScanInv
  <2>2. Cardinality(Interps) = interpDepth /\ interpDepth \in 0..MaxInterpDepth
    <3>1. Cardinality(Interps) = Depth(stack) /\ Depth(stack) \in Nat
      BY <2>1, InterpsCounted
    <3> QED BY <2>1, <3>1, DepthOK
  <2>3. tokens \in Seq(Token) /\ DOMAIN tokens = 1..Len(tokens)
    <3>1. tokens \in Seq(Token)
      BY <2>1 DEF Tiles
    <3> QED BY <3>1, LenProperties
  <2>4. Progress \in 1..pos
    BY <2>1, ProgressIs, ProgressRange
  <2>5. ASSUME NEW i \in DOMAIN tokens
        PROVE  tokens[i].from <= tokens[i].to /\ tokens[i].to <= pos
    <3>1. tokens[i].from <= tokens[i].to /\ tokens[i].to <= Progress
      BY <2>1, <2>3 DEF Tiles
    <3>2. tokens[i].to \in Nat
      BY <2>3, ElementOfSeq, TokenTyped
    <3> QED BY <2>1, <2>4, <3>1, <3>2
  <2> QED BY <2>1, <2>2, <2>3, <2>5 DEF TypeOK
<1> QED BY <1>1, ScanAlways, PTL

(* Whatever the source, damaged literals and nests past the limit          *)
(* included, the tokens lie in source order and apart; where markers and   *)
(* comments are kept they leave out nothing but white space, and every     *)
(* OPEN has its CLOSE, is still open, or was reported.                     *)
THEOREM ScannersTile == Spec => []TokensTile
<1>1. ScanInv => TokensTile
  <2> SUFFICES ASSUME ScanInv PROVE TokensTile
    OBVIOUS
  <2>1. /\ Framed(cfg.strings, stack, pos) /\ interpDepth = Depth(stack)
        /\ Tiles(tokens, 1, Progress)
        /\ phase # "failed" => Piece(tokens, 1, Progress, interpDepth)
    BY DEF ScanInv
  <2>2. tokens \in Seq(Token) /\ DOMAIN tokens = 1..Len(tokens)
    <3>1. tokens \in Seq(Token)
      BY <2>1 DEF Tiles
    <3> QED BY <3>1, LenProperties
  <2>3. \A i, j \in Proper : i < j => tokens[i].to <= tokens[j].from
    BY <2>1, <2>2 DEF Proper, Tiles, Again
  <2>4. ASSUME KeepsAll, phase # "failed"
        PROVE  Covers(tokens, 1, Progress) /\ LeftOpen(tokens) = Cardinality(Interps)
    <3>1. Cardinality(Interps) = interpDepth
      BY <2>1, InterpsCounted
    <3> QED BY <2>1, <2>4, <3>1 DEF Piece
  <2>5. ASSUME KeepsAll, phase # "failed", NEW p \in 1..Progress - 1
        PROVE  src[p] \in {"sp", "nl"}
                 \/ \E i \in DOMAIN tokens : p \in tokens[i].from..tokens[i].to - 1
    <3>1. CASE Blank(p)
      BY <3>1 DEF Blank
    <3>2. CASE ~Blank(p)
      <4>1. PICK i \in 1..Len(tokens) : tokens[i].from <= p /\ p < tokens[i].to
        BY <2>4, <2>5, <3>2 DEF Covers
      <4>2. tokens[i].from \in Nat /\ tokens[i].to \in Nat /\ p \in Int
        BY <2>2, ElementOfSeq, TokenTyped
      <4>3. p \in tokens[i].from..tokens[i].to - 1
        BY <4>1, <4>2
      <4> QED BY <2>2, <4>3
    <3> QED BY <3>1, <3>2
  <2>6. ASSUME NEW K PROVE NumberOf(K) = Hits(tokens, OfKind(K)) /\ NumberOf(K) \in Nat
    <3>1. \A i \in 1..Len(tokens) : tokens[i] \in Token
      BY <2>2, ElementOfSeq
    <3>2. {i \in DOMAIN tokens : tokens[i].kind \in K}
            = {i \in 1..Len(tokens) : tokens[i] \in OfKind(K)}
      BY <2>2, <3>1 DEF OfKind
    <3>3. Hits(tokens, OfKind(K)) \in Nat
      BY <2>2, HitsType
    <3> QED BY <3>2, <3>3 DEF NumberOf, Hits
  <2>7. ASSUME KeepsAll, phase # "failed"
        PROVE  NumberOf({"OPEN"}) = NumberOf(Closers) + Cardinality(Interps)
    <3>1. NumberOf({"OPEN"}) - NumberOf(Closers) = Cardinality(Interps)
      BY <2>4, <2>6, <2>7 DEF LeftOpen
    <3>2. NumberOf({"OPEN"}) \in Nat /\ NumberOf(Closers) \in Nat
      BY <2>6
    <3> QED BY <3>1, <3>2
  <2>8. Closers = {"CLOSE", "unterminated interpolation", "too deep"}
    BY DEF Closers, Again
  <2> QED BY <2>3, <2>5, <2>7, <2>8 DEF TokensTile
<1> QED BY <1>1, ScanAlways, PTL
-----------------------------------------------------------------------------
(* Numbers: what scan_digits, Fraction, Exponent and the suffix make of a  *)
(* text is what the grammar of numbers in LexScanRef says of it.           *)

\* A digit, or an underscore where the style has them.
Digital(p, base) == IsDigit(p, base) \/ (src[p] = "under" /\ Flag("under"))

LEMMA IsDigitsIs ==
  ASSUME NEW i, NEW j, NEW base
  PROVE  IsDigits(i, j, base)
           <=> /\ i < j /\ IsDigit(i, base) /\ IsDigit(j - 1, base)
               /\ \A p \in i..j - 1 : Digital(p, base)
BY DEF IsDigits, Digital

LEMMA NoDigit ==
  ASSUME NEW p, NEW base \in 2..16, p <= Len(src) => src[p] \in {"under", ".", "x", "o"}
  PROVE  ~IsDigit(p, base)
BY DEF IsDigit, DigitValue

\* scan_digits reads all the digits there are at `from`, and nothing else.
LEMMA DigitsAll ==
  ASSUME CallMade, NEW from \in Offsets, from # 0, NEW base \in 2..16,
         NEW e, e = ScanDigits(from, base)
  PROVE  /\ e \in from..Len(src) + 1
         /\ IsDigit(from, base) => IsDigits(from, e, base)
         /\ ~IsDigit(from, base) => e = from
         /\ \A j \in Int : IsDigits(from, j, base) => j <= e
<1> DEFINE n    == Len(src)
           go   == DigitGo(from, base)
           next == DigitNext(from, base)
<1>1. n \in Nat /\ from \in Nat /\ from <= n + 1 /\ n + 1 \in Nat
  BY CallTyped DEF Offsets
<1>2. PICK f : /\ e = f[from]
               /\ \A p \in Nat : f[p] = IF p \in go THEN f[DigitTo(from, base, p)] ELSE p
  BY DigitsFollow
<1> DEFINE Reads(p) == \A q \in p..f[p] - 1 : Digital(q, base)
           Stops(p) == p \in go => f[p] > p /\ IsDigit(f[p] - 1, base)
           Most(p)  == \A j \in Int :
                         /\ p < j /\ from <= p /\ (p = from => IsDigit(p, base))
                         /\ IsDigit(j - 1, base) /\ \A q \in p..j - 1 : Digital(q, base)
                         => j <= f[p]
           Good == {p \in Nat : p <= n + 1 =>
                       f[p] \in p..n + 1 /\ Reads(p) /\ Stops(p) /\ Most(p)}
<1>3. go \subseteq Nat
  BY DEF DigitGo
<1>4. Jumps(Nat, go, next, Left, n + 1)
  BY DigitJumps
<1>5. \A p \in go : /\ next[p] = DigitTo(from, base, p)
                    /\ p \in 0..n /\ next[p] \in p + 1..n + 1
  BY <1>3, DigitStep DEF DigitNext
<1>6. ASSUME NEW p \in go, ~IsDigit(p, base)
      PROVE  /\ p > from /\ IsDigit(next[p], base)
             /\ \A q \in p..next[p] - 1 : src[q] = "under" /\ Flag("under") /\ ~IsDigit(q, base)
  <2>1. Skips(from, base, p) /\ p > from /\ next[p] = RunEnd({"under"}, p) /\ p \in Offsets
    <3>1. Skips(from, base, p) /\ p > from /\ DigitTo(from, base, p) = RunEnd({"under"}, p)
      BY <1>6, DigitStep
    <3> HIDE DEF go, next
    <3>2. p \in 0..n + 1
      BY <1>1, <1>5
    <3> QED BY <1>5, <3>1, <3>2 DEF Offsets
  <2>2. \A q \in p..next[p] - 1 : src[q] \in {"under"}
    BY <2>1, RunEndIs
  <2>3. IsDigit(next[p], base) /\ Flag("under")
    BY <2>1 DEF Skips
  <2> HIDE DEF next, go
  <2> QED BY <2>1, <2>2, <2>3, NoDigit
<1>7. ASSUME NEW p \in Nat, p > from, p <= n, src[p] = "under", Flag("under"), p \notin go
      PROVE  \A j \in Int : p < j /\ IsDigit(j - 1, base)
                            => ~ \A q \in p..j - 1 : Digital(q, base)
  <2>1. p \in Offsets /\ At(p) = "under"
    BY <1>1, <1>7 DEF Offsets, At
  <2> PICK r : r = RunEnd({"under"}, p)
    OBVIOUS
  <2>2. r \in p..n + 1 /\ At(r) # "under" /\ \A q \in p..r - 1 : src[q] = "under"
    BY <2>1, RunEndIs
  <2>3. ~IsDigit(r, base)
    BY <1>7, <2>1 DEF DigitGo, Skips
  <2> SUFFICES ASSUME NEW j \in Int, p < j, IsDigit(j - 1, base),
                      \A q \in p..j - 1 : Digital(q, base)
               PROVE  FALSE
    OBVIOUS
  <2> HIDE DEF go, n
  <2>4. j - 1 >= r
    <3> SUFFICES ASSUME j - 1 < r PROVE FALSE
      BY <1>1, <2>2
    <3>1. j - 1 \in p..r - 1
      BY <1>1, <1>7, <2>2
    <3>2. src[j - 1] = "under"
      BY <2>2, <3>1
    <3> QED BY <3>2, NoDigit
  <2>5. r \in p..j - 1 /\ r <= n
    <3>1. j - 1 <= n
      BY DEF IsDigit, n
    <3> QED BY <1>1, <1>7, <2>2, <2>4, <3>1
  <2>6. src[r] = "under"
    BY <2>3, <2>5 DEF Digital
  <2> QED BY <2>2, <2>5, <2>6 DEF At, n
<1> HIDE DEF go, next, n
<1>8. ASSUME NEW p \in Nat \ go PROVE p \in Good
  <2> SUFFICES ASSUME p <= n + 1
               PROVE  f[p] \in p..n + 1 /\ Reads(p) /\ Stops(p) /\ Most(p)
    OBVIOUS
  <2>1. f[p] = p /\ Reads(p) /\ f[p] \in p..n + 1
    BY <1>1, <1>2
  <2>2. ASSUME NEW j \in Int, p < j, from <= p, p = from => IsDigit(p, base),
               IsDigit(j - 1, base), \A q \in p..j - 1 : Digital(q, base)
        PROVE  FALSE
    <3>1. ~IsDigit(p, base)
      BY DEF go, DigitGo
    <3>2. p > from /\ p \in p..j - 1
      BY <1>1, <2>2, <3>1
    <3>3. p <= n
      <4>1. j - 1 <= n
        BY <2>2 DEF IsDigit, n
      <4> QED BY <1>1, <2>2, <4>1
    <3>4. src[p] = "under" /\ Flag("under")
      BY <2>2, <3>1, <3>2 DEF Digital
    <3> QED BY <1>7, <2>2, <3>2, <3>3, <3>4
  <2>3. Most(p)
    BY <2>2
  <2> QED BY <2>1, <2>3
<1>9. ASSUME NEW p \in go, next[p] \in Good PROVE p \in Good
  <2> PICK r : r = next[p]
    OBVIOUS
  <2>1. /\ p \in Nat /\ p \in 0..n /\ r \in p + 1..n + 1 /\ f[p] = f[r] /\ r \in Nat
    <3>1. p \in Nat /\ p \in 0..n /\ r \in p + 1..n + 1 /\ r = DigitTo(from, base, p)
      BY <1>3, <1>5
    <3> QED BY <1>1, <1>2, <3>1
  <2>2. f[r] \in r..n + 1 /\ Reads(r) /\ Stops(r) /\ Most(r)
    BY <1>1, <1>9, <2>1
  <2> HIDE DEF Good
  <2>3. \A q \in p..r - 1 : Digital(q, base)
    <3>1. CASE IsDigit(p, base)
      <4>1. r = p + 1
        BY <3>1, <1>5 DEF DigitTo
      <4> QED BY <2>1, <3>1, <4>1 DEF Digital
    <3>2. CASE ~IsDigit(p, base)
      BY <1>6, <3>2 DEF Digital
    <3> QED BY <3>1, <3>2
  <2>4. Reads(p)
    <3> SUFFICES ASSUME NEW q \in p..f[p] - 1 PROVE Digital(q, base)
      OBVIOUS
    <3>1. q \in p..r - 1 \/ q \in r..f[r] - 1
      BY <1>1, <2>1, <2>2
    <3> QED BY <2>2, <2>3, <3>1
  <2>5. f[p] > p /\ IsDigit(f[p] - 1, base)
    <3>1. CASE r \in go
      BY <1>1, <2>1, <2>2, <3>1
    <3>2. CASE r \notin go
      <4>1. f[r] = r
        BY <1>2, <2>1, <3>2
      <4>2. IsDigit(p, base)
        <5> SUFFICES ASSUME ~IsDigit(p, base) PROVE FALSE
          OBVIOUS
        <5>1. IsDigit(r, base)
          BY <1>6
        <5> QED BY <2>1, <3>2, <5>1 DEF go, DigitGo
      <4>3. r = p + 1
        BY <1>5, <4>2 DEF DigitTo
      <4>4. f[p] - 1 = p
        BY <2>1, <4>1, <4>3
      <4> QED BY <2>1, <4>1, <4>2, <4>3, <4>4
    <3> QED BY <3>1, <3>2
  <2>6. Most(p)
    <3> SUFFICES ASSUME NEW j \in Int, p < j, from <= p, p = from => IsDigit(p, base),
                        IsDigit(j - 1, base), \A q \in p..j - 1 : Digital(q, base)
                 PROVE  j <= f[p]
      OBVIOUS
    <3>1. r <= j
      <4>1. CASE IsDigit(p, base)
        <5>1. r = p + 1
          BY <1>5, <4>1 DEF DigitTo
        <5> QED BY <2>1, <5>1
      <4>2. CASE ~IsDigit(p, base)
        <5> SUFFICES ASSUME j < r PROVE FALSE
          BY <1>1, <2>1
        <5>1. j - 1 \in p..r - 1
          BY <2>1
        <5> QED BY <1>6, <4>2, <5>1
      <4> QED BY <4>1, <4>2
    <3>2. CASE j = r
      BY <1>1, <2>1, <2>2, <3>2
    <3>3. CASE r < j
      <4>1. from <= r /\ r # from /\ \A q \in r..j - 1 : Digital(q, base)
        BY <1>1, <2>1
      <4> QED BY <2>1, <2>2, <3>3, <4>1
    <3> QED BY <2>1, <3>1, <3>2, <3>3
  <2>7. f[p] \in p..n + 1
    BY <1>1, <2>1, <2>2
  <2> QED BY <2>1, <2>4, <2>5, <2>6, <2>7 DEF Good
<1>10. Nat \subseteq Good
  <2> HIDE DEF Good
  <2> QED BY <1>1, <1>4, <1>8, <1>9, JumpInduction
<1>11. e \in from..n + 1 /\ Reads(from) /\ Stops(from) /\ Most(from)
  BY <1>1, <1>2, <1>10
<1>12. ASSUME IsDigit(from, base) PROVE IsDigits(from, e, base)
  <2>1. from \in go
    BY <1>1, <1>12 DEF go, DigitGo
  <2> QED BY <1>2, <1>11, <1>12, <2>1, IsDigitsIs
<1>13. ASSUME ~IsDigit(from, base) PROVE e = from
  <2>1. from \notin go
    BY <1>1, <1>13 DEF go, DigitGo, Skips
  <2> QED BY <1>1, <1>2, <2>1
<1>14. ASSUME NEW j \in Int, IsDigits(from, j, base) PROVE j <= e
  BY <1>1, <1>2, <1>11, <1>14, IsDigitsIs
<1> QED BY <1>11, <1>12, <1>13, <1>14 DEF n

LEMMA PrefixedCore ==
  ASSUME CallMade, pos \in 1..Len(src), BaseHere # 10, NEW e, e = ScanDigits(pos + 2, BaseHere)
  PROVE  /\ Prefixed(pos) /\ pos + 2 \in Offsets /\ e \in pos + 2..Len(src) + 1
         /\ e = pos + 2 => Cores(pos) = {}
         /\ e # pos + 2 => e \in LongestOf(Cores(pos)) /\ IsCore("INT", pos, e)
<1>0. Len(src) \in Nat /\ pos \in Nat /\ pos # 0 /\ At(pos) = src[pos]
  BY CallTyped DEF At
<1>1. Prefixed(pos) /\ PrefixBase(pos) = BaseHere /\ BaseHere \in 2..16
  <2>1. /\ BaseHere \in 2..16 /\ BaseHere = PrefixBase(pos)
        /\ \E m \in Bases : src[pos] = "0" /\ At(pos + 1) = m[1] /\ Flag(m[2])
    BY <1>0 DEF BaseHere, PrefixBase, Bases
  <2> QED BY <2>1 DEF Prefixed
<1>2. pos + 1 <= Len(src)
  <2>1. At(pos + 1) # "eof"
    BY DEF BaseHere
  <2> QED BY <1>0, <2>1, AtInside
<1> PICK from, base : from = pos + 2 /\ base = BaseHere
  OBVIOUS
<1>3. from \in Offsets /\ from # 0 /\ from \in Nat
  BY <1>0, <1>2 DEF Offsets
<1>4. /\ e \in from..Len(src) + 1
      /\ IsDigit(from, base) => IsDigits(from, e, base)
      /\ ~IsDigit(from, base) => e = from
      /\ \A j \in Int : IsDigits(from, j, base) => j <= e
  BY <1>1, <1>3, DigitsAll
<1>5. \A kind, j : IsCore(kind, pos, j) <=> kind = "INT" /\ IsDigits(from, j, base)
  BY <1>1 DEF IsCore
<1>6. \A j : j \in Cores(pos) <=> j \in Beyond(pos) /\ IsDigits(from, j, base)
  BY <1>5 DEF Cores
<1>7. ASSUME e = from PROVE Cores(pos) = {}
  <2>1. ~IsDigit(from, base)
    <3> SUFFICES ASSUME IsDigit(from, base) PROVE FALSE
      OBVIOUS
    <3>1. from < e
      BY <1>4 DEF IsDigits
    <3> QED BY <1>3, <1>7, <3>1
  <2>2. \A j : ~IsDigits(from, j, base)
    BY <2>1 DEF IsDigits
  <2> QED BY <1>6, <2>2
<1>8. ASSUME e # from PROVE e \in LongestOf(Cores(pos)) /\ IsCore("INT", pos, e)
  <2>1. IsDigits(from, e, base)
    BY <1>4, <1>8
  <2>2. e \in Beyond(pos)
    BY <1>0, <1>2, <1>4 DEF Beyond
  <2>3. \A j \in Cores(pos) : j \in Int
    BY <1>0 DEF Cores, Beyond
  <2> QED BY <1>4, <1>5, <1>6, <2>1, <2>2, <2>3 DEF LongestOf
<1> QED BY <1>1, <1>3, <1>4, <1>7, <1>8

\* The digits of an exponent at b.
Signed(b) == IF At(b + 1) \in {"+", "-"} THEN b + 2 ELSE b + 1

LEMMA FractionIs ==
  ASSUME CallMade, NEW a \in Offsets, a # 0, NEW e, e = Fraction(a)
  PROVE  /\ e \in a..Len(src) + 1
         /\ e = a \/ (a < e /\ Flag("float") /\ src[a] = "." /\ IsDigits(a + 1, e, 10))
         /\ \A b \in Int : Flag("float") /\ src[a] = "." /\ IsDigits(a + 1, b, 10)
                           => b <= e /\ a < e
<1>0. Len(src) \in Nat /\ a \in Nat /\ a <= Len(src) + 1
  BY CallTyped DEF Offsets
<1>1. CASE Flag("float") /\ At(a) = "." /\ IsDigit(a + 1, 10)
  <2>1. a <= Len(src) /\ At(a) = src[a]
    BY <1>0, <1>1, AtInside
  <2>2. a + 1 \in Offsets /\ a + 1 # 0 /\ 10 \in 2..16
    BY <1>0, <2>1 DEF Offsets
  <2>3. e = ScanDigits(a + 1, 10)
    BY <1>1 DEF Fraction
  <2>4. /\ e \in a + 1..Len(src) + 1 /\ IsDigits(a + 1, e, 10)
        /\ \A j \in Int : IsDigits(a + 1, j, 10) => j <= e
    BY <1>1, <2>2, <2>3, DigitsAll
  <2> QED BY <1>0, <1>1, <2>1, <2>4
<1>2. CASE ~(Flag("float") /\ At(a) = "." /\ IsDigit(a + 1, 10))
  <2>1. e = a
    BY <1>2 DEF Fraction
  <2>2. ASSUME NEW b, Flag("float"), src[a] = ".", IsDigits(a + 1, b, 10) PROVE FALSE
    <3>1. IsDigit(a + 1, 10) /\ a + 1 <= Len(src)
      BY <2>2 DEF IsDigits, IsDigit
    <3>2. At(a) = src[a]
      BY <1>0, <3>1 DEF At
    <3> QED BY <1>2, <2>2, <3>1, <3>2
  <2> QED BY <1>0, <2>1, <2>2
<1> QED BY <1>1, <1>2

LEMMA ExponentIs ==
  ASSUME CallMade, NEW b \in Offsets, b # 0, NEW e, e = Exponent(b)
  PROVE  /\ e \in b..Len(src) + 1
         /\ e = b \/ (Flag("exponent") /\ src[b] = "e" /\ IsDigits(Signed(b), e, 10))
         /\ \A j \in Int : Flag("exponent") /\ src[b] = "e" /\ IsDigits(Signed(b), j, 10) => j <= e
<1>0. Len(src) \in Nat /\ b \in Nat /\ b <= Len(src) + 1
  BY CallTyped DEF Offsets
<1> PICK sign : sign = Signed(b)
  OBVIOUS
<1>1. sign \in Nat /\ b < sign
  BY <1>0 DEF Signed
<1>2. e = IF Flag("exponent") /\ At(b) = "e" /\ IsDigit(sign, 10) THEN ScanDigits(sign, 10) ELSE b
  BY DEF Exponent, Signed
<1>3. CASE Flag("exponent") /\ At(b) = "e" /\ IsDigit(sign, 10)
  <2>1. sign <= Len(src)
    BY <1>3 DEF IsDigit
  <2>2. sign \in Offsets /\ sign # 0 /\ 10 \in 2..16
    BY <1>0, <1>1, <2>1 DEF Offsets
  <2>3. At(b) = src[b]
    BY <1>0, <1>1, <2>1 DEF At
  <2>4. /\ e \in sign..Len(src) + 1 /\ IsDigits(sign, e, 10)
        /\ \A j \in Int : IsDigits(sign, j, 10) => j <= e
    BY <1>2, <1>3, <2>2, DigitsAll
  <2>5. e \in b..Len(src) + 1
    BY <1>0, <1>1, <2>4
  <2> QED BY <1>3, <2>3, <2>4, <2>5
<1>4. CASE ~(Flag("exponent") /\ At(b) = "e" /\ IsDigit(sign, 10))
  <2>1. e = b
    BY <1>2, <1>4
  <2>2. ASSUME NEW j, Flag("exponent"), src[b] = "e", IsDigits(sign, j, 10) PROVE FALSE
    <3>1. IsDigit(sign, 10) /\ sign <= Len(src)
      BY <2>2 DEF IsDigits, IsDigit
    <3>2. At(b) = src[b]
      BY <1>0, <1>1, <3>1 DEF At
    <3> QED BY <1>4, <2>2, <3>1, <3>2
  <2> QED BY <1>0, <2>1, <2>2
<1> QED BY <1>3, <1>4

LEMMA DecimalNoMark ==
  ASSUME NEW i, NEW j, IsDigits(i, j, 10), NEW p \in i..j - 1
  PROVE  src[p] # "." /\ src[p] # "e"
<1>1. Digital(p, 10)
  BY IsDigitsIs
<1> QED BY <1>1 DEF Digital, IsDigit, DigitValue

LEMMA IsDecimalIs ==
  ASSUME NEW i, NEW a, NEW j
  PROVE  IsDecimal(i, a, j)
           <=> \E b \in a..j :
                 /\ IsDigits(i, a, 10) \/ (a = i /\ a < b /\ Flag("dot"))
                 /\ b = a \/ (Flag("float") /\ src[a] = "." /\ IsDigits(a + 1, b, 10))
                 /\ b = j \/ (Flag("exponent") /\ src[b] = "e" /\ IsDigits(Signed(b), j, 10))
BY DEF IsDecimal, Signed

LEMMA DecimalCore ==
  ASSUME CallMade, pos \in 1..Len(src), NumberHere, BaseHere = 10,
         NEW whole, whole = (IF LeadingDot THEN pos ELSE ScanDigits(pos, 10)),
         NEW e, e = Exponent(Fraction(whole)),
         NEW kind, kind = IF e > whole THEN "FLOAT" ELSE "INT"
  PROVE  e \in LongestOf(Cores(pos)) /\ IsCore(kind, pos, e)
<1>0. Len(src) \in Nat /\ pos \in Nat /\ pos # 0 /\ At(pos) = src[pos] /\ pos \in Offsets
      /\ 10 \in 2..16
  BY CallTyped DEF At, Offsets
<1>1. ~Prefixed(pos)
  BY <1>0 DEF Prefixed, Bases, BaseHere
<1>2. /\ ScanDigits(pos, 10) \in pos..Len(src) + 1
      /\ IsDigit(pos, 10) => IsDigits(pos, ScanDigits(pos, 10), 10)
      /\ \A j \in Int : IsDigits(pos, j, 10) => j <= ScanDigits(pos, 10)
  BY <1>0, DigitsAll
<1>3. whole \in pos..Len(src) + 1 /\ whole \in Nat /\ whole \in Offsets /\ whole # 0
  <2>1. whole \in pos..Len(src) + 1
    BY <1>0, <1>2
  <2> QED BY <1>0, <2>1 DEF Offsets
<1> PICK f : f = Fraction(whole)
  OBVIOUS
<1>4. /\ f \in whole..Len(src) + 1
      /\ f = whole \/ (whole < f /\ Flag("float") /\ src[whole] = "." /\ IsDigits(whole + 1, f, 10))
      /\ \A b \in Int : Flag("float") /\ src[whole] = "." /\ IsDigits(whole + 1, b, 10)
                        => b <= f /\ whole < f
  BY <1>3, FractionIs
<1>5. f \in Nat /\ f \in Offsets /\ f # 0 /\ f \in whole..Len(src) + 1
  BY <1>0, <1>3, <1>4 DEF Offsets
<1>6. /\ e \in f..Len(src) + 1
      /\ e = f \/ (Flag("exponent") /\ src[f] = "e" /\ IsDigits(Signed(f), e, 10))
      /\ \A j \in Int : Flag("exponent") /\ src[f] = "e" /\ IsDigits(Signed(f), j, 10) => j <= e
  BY <1>5, ExponentIs
<1>7. e \in Nat /\ pos <= whole /\ whole <= f /\ f <= e /\ e <= Len(src) + 1
  BY <1>0, <1>3, <1>5, <1>6
<1>8. IsDecimal(pos, whole, e) /\ e > pos
  <2>1. /\ IsDigits(pos, whole, 10) \/ (whole = pos /\ whole < f /\ Flag("dot"))
        /\ f > pos
    <3>1. CASE LeadingDot
      <4>1. /\ whole = pos /\ Flag("dot") /\ Flag("float") /\ src[pos] = "."
            /\ IsDigit(pos + 1, 10) /\ pos + 1 <= Len(src)
        BY <1>0, <3>1 DEF LeadingDot, IsDigit
      <4>2. pos + 1 \in Offsets /\ pos + 1 # 0
        BY <1>0, <4>1 DEF Offsets
      <4> PICK g : g = ScanDigits(pos + 1, 10)
        OBVIOUS
      <4>3. g \in pos + 1..Len(src) + 1 /\ IsDigits(pos + 1, g, 10)
        BY <1>0, <4>1, <4>2, DigitsAll
      <4>4. g \in Int
        BY <1>0, <4>3
      <4>5. whole < f
        BY <1>4, <4>1, <4>3, <4>4
      <4> QED BY <4>1, <4>5
    <3>2. CASE ~LeadingDot
      <4>1. IsDigit(pos, 10) /\ whole = ScanDigits(pos, 10)
        BY <3>2 DEF NumberHere
      <4>2. IsDigits(pos, whole, 10)
        BY <1>2, <4>1
      <4>3. pos < whole
        BY <4>2 DEF IsDigits
      <4> QED BY <1>0, <1>3, <1>5, <1>7, <4>2, <4>3
    <3> QED BY <3>1, <3>2
  <2>2. f \in whole..e
    BY <1>3, <1>5, <1>7
  <2>3. IsDecimal(pos, whole, e)
    BY <1>4, <1>6, <2>1, <2>2, IsDecimalIs
  <2> QED BY <1>0, <1>5, <1>7, <2>1, <2>3
<1>9. ASSUME NEW j \in Int, NEW a \in pos..j, IsDecimal(pos, a, j) PROVE j <= e
  <2>1. PICK b \in a..j :
          /\ IsDigits(pos, a, 10) \/ (a = pos /\ a < b /\ Flag("dot"))
          /\ b = a \/ (Flag("float") /\ src[a] = "." /\ IsDigits(a + 1, b, 10))
          /\ b = j \/ (Flag("exponent") /\ src[b] = "e" /\ IsDigits(Signed(b), j, 10))
    BY <1>9, IsDecimalIs
  <2>2. a \in Int /\ b \in Int /\ pos <= a /\ a <= b /\ b <= j
    BY <1>0
  <2>3. CASE a # whole
    <3>1. ~LeadingDot
      <4> SUFFICES ASSUME LeadingDot PROVE FALSE
        OBVIOUS
      <4>1. whole = pos /\ src[pos] = "."
        BY <1>0 DEF LeadingDot
      <4>2. ~IsDigit(pos, 10)
        BY <1>0, <4>1, NoDigit
      <4>3. ~IsDigits(pos, a, 10)
        BY <4>2 DEF IsDigits
      <4> QED BY <2>1, <2>3, <4>1, <4>3
    <3>2. whole = ScanDigits(pos, 10) /\ IsDigit(pos, 10) /\ IsDigits(pos, whole, 10)
      BY <1>2, <3>1 DEF NumberHere
    <3>3. IsDigits(pos, a, 10)
      <4> SUFFICES ASSUME a = pos, a < b PROVE FALSE
        BY <2>1
      <4>1. src[pos] = "."
        BY <2>1, <2>2
      <4> QED BY <1>0, <3>2, <4>1, NoDigit
    <3>4. a <= whole /\ a < whole
      <4>1. a <= whole
        BY <1>2, <2>2, <3>2, <3>3
      <4> QED BY <1>3, <2>2, <2>3, <4>1
    <3>5. a \in pos..whole - 1
      BY <1>0, <1>3, <2>2, <3>4
    <3>6. src[a] # "." /\ src[a] # "e"
      BY <3>2, <3>5, DecimalNoMark
    <3>7. b = a /\ b = j
      BY <2>1, <3>6
    <3> QED BY <1>3, <1>5, <1>7, <2>2, <3>4, <3>7
  <2>4. CASE a = whole
    <3>1. b <= f
      BY <1>4, <1>5, <1>7, <2>1, <2>2, <2>4
    <3>2. CASE b = f
      BY <1>6, <1>7, <2>1, <3>2
    <3>3. CASE b < f
      <4>1. src[whole] = "." /\ IsDigits(whole + 1, f, 10)
        BY <1>3, <1>4, <1>5, <2>2, <2>4, <3>3
      <4>2. src[b] # "e"
        <5>1. CASE b = whole
          BY <4>1, <5>1
        <5>2. CASE b # whole
          <6>1. b \in whole + 1..f - 1
            BY <1>3, <1>5, <2>2, <2>4, <3>3, <5>2
          <6> QED BY <4>1, <6>1, DecimalNoMark
        <5> QED BY <5>1, <5>2
      <4>3. b = j
        BY <2>1, <4>2
      <4> QED BY <1>5, <1>7, <2>2, <3>3, <4>3
    <3> QED BY <1>5, <2>2, <3>1, <3>2, <3>3
  <2> QED BY <2>3, <2>4
<1>10. \A k, j : IsCore(k, pos, j)
                   <=> \E a \in pos..j : IsDecimal(pos, a, j) /\ k = IF j = a THEN "INT" ELSE "FLOAT"
  BY <1>1 DEF IsCore
<1>11. IsCore(kind, pos, e)
  <2>1. whole \in pos..e /\ kind = IF e = whole THEN "INT" ELSE "FLOAT"
    BY <1>0, <1>3, <1>5, <1>7
  <2> QED BY <1>8, <1>10, <2>1
<1>12. \A j \in Cores(pos) : j <= e
  <2> TAKE j \in Cores(pos)
  <2>1. j \in Int /\ \E a \in pos..j : IsDecimal(pos, a, j)
    BY <1>0, <1>10 DEF Cores, Beyond
  <2> QED BY <1>9, <2>1
<1>13. e \in Cores(pos)
  <2>1. e \in Beyond(pos) /\ kind \in {"INT", "FLOAT"}
    BY <1>0, <1>7, <1>8 DEF Beyond
  <2> QED BY <1>11, <2>1 DEF Cores
<1> QED BY <1>11, <1>12, <1>13 DEF LongestOf

LEMMA SuffixIs ==
  ASSUME CallMade, NEW core \in 1..Len(src) + 1
  PROVE  Suffixed(core) \in NumberEnds(core)
<1> DEFINE rules == {[open |-> s] : s \in cfg.suffixes}
           best  == Longest(rules, core)
           D     == {j \in Beyond(core) : Slice(core, j) \in cfg.suffixes}
           free  == {j \in LongestOf(D) : Flag("boundary") => At(j) \notin IdentCont}
<1>0. /\ Len(src) \in Nat /\ core \in Nat /\ core <= Len(src) + 1 /\ src \in Seq(STRING)
      /\ \A s \in cfg.suffixes : s \in Seq(STRING) /\ Len(s) \in Nat \ {0}
  BY CallTyped, SpellingLen
<1>1. ASSUME NEW s \in cfg.suffixes, Matches(s, core)
      PROVE  core + Len(s) \in D
  <2>1. core + Len(s) - 1 <= Len(src) /\ SubSeq(src, core, core + Len(s) - 1) = s
    BY <1>1 DEF Matches
  <2>2. core + Len(s) \in Beyond(core)
    BY <1>0, <2>1 DEF Beyond
  <2>3. Slice(core, core + Len(s)) \in cfg.suffixes
    <3>1. Slice(core, core + Len(s)) = SubSeq(src, core, core + Len(s) - 1)
      BY DEF Slice
    <3> QED BY <2>1, <3>1
  <2> QED BY <2>2, <2>3
<1>2. ASSUME NEW j \in D
      PROVE  /\ j \in Int /\ Slice(core, j) \in cfg.suffixes /\ Matches(Slice(core, j), core)
             /\ core + Len(Slice(core, j)) = j
  <2>1. j \in core + 1..Len(src) + 1 /\ j \in Nat
    BY <1>0 DEF Beyond
  <2> PICK s : s = Slice(core, j)
    OBVIOUS
  <2>2. s = SubSeq(src, core, j - 1) /\ s \in cfg.suffixes
    BY DEF Slice
  <2>3. core \in 1..Len(src) + 1 /\ j - 1 \in core - 1..Len(src)
    BY <1>0, <2>1
  <2>4. Len(s) = j - core
    BY <1>0, <2>1, <2>2, <2>3
  <2>5. core + Len(s) = j /\ core + Len(s) - 1 = j - 1 /\ j - 1 <= Len(src)
    BY <1>0, <2>1, <2>4
  <2> QED BY <2>1, <2>2, <2>5 DEF Matches
<1> HIDE DEF D
<1>3. \A r \in rules : r.open \in cfg.suffixes
  OBVIOUS
<1>4. \A s \in cfg.suffixes : [open |-> s] \in rules /\ [open |-> s].open = s
  OBVIOUS
<1> HIDE DEF rules
<1>5. ASSUME NEW r \in best PROVE core + Len(r.open) \in LongestOf(D)
  <2>1. r \in rules /\ Matches(r.open, core)
        /\ \A q \in rules : Matches(q.open, core) => Len(q.open) <= Len(r.open)
    BY DEF Longest
  <2>2. core + Len(r.open) \in D /\ Len(r.open) \in Nat
    BY <1>0, <1>1, <1>3, <2>1
  <2>3. ASSUME NEW j \in D PROVE j <= core + Len(r.open)
    <3> PICK s : s = Slice(core, j)
      OBVIOUS
    <3>1. s \in cfg.suffixes /\ Matches(s, core) /\ core + Len(s) = j
      BY <1>2
    <3>2. Len(s) <= Len(r.open) /\ Len(s) \in Nat
      BY <1>0, <1>4, <2>1, <3>1
    <3> QED BY <1>0, <2>2, <3>1, <3>2
  <2> QED BY <2>2, <2>3 DEF LongestOf
<1>6. ASSUME NEW j \in LongestOf(D) PROVE best # {}
  <2> PICK s : s = Slice(core, j)
    OBVIOUS
  <2>1. j \in D /\ \A k \in D : k <= j
    BY DEF LongestOf
  <2>2. s \in cfg.suffixes /\ Matches(s, core) /\ core + Len(s) = j
    BY <1>2, <2>1
  <2>3. ASSUME NEW q \in rules, Matches(q.open, core) PROVE Len(q.open) <= Len(s)
    <3>1. core + Len(q.open) <= core + Len(s) /\ Len(q.open) \in Nat
      BY <1>0, <1>1, <1>3, <2>1, <2>2, <2>3
    <3> QED BY <1>0, <2>2, <3>1
  <2>4. [open |-> s] \in best
    BY <1>4, <2>2, <2>3 DEF Longest
  <2> QED BY <2>4
<1> HIDE DEF best
<1>7. NumberEnds(core) = IF free = {} THEN {core} ELSE free
  BY DEF NumberEnds, D
<1>8. CASE best = {}
  <2>1. free = {}
    BY <1>6, <1>8
  <2>2. Suffixed(core) = core
    BY <1>8 DEF Suffixed, best, rules
  <2> QED BY <1>7, <2>1, <2>2
<1>9. CASE best # {}
  <2> PICK after : after = core + Len((CHOOSE s \in best : TRUE).open)
    OBVIOUS
  <2>1. after \in LongestOf(D)
    <3>1. PICK r \in best : r = CHOOSE s \in best : TRUE
      BY <1>9
    <3> QED BY <1>5, <3>1
  <2>2. \A j \in LongestOf(D) : j = after
    <3> TAKE j \in LongestOf(D)
    <3>1. j \in D /\ after \in D /\ j <= after /\ after <= j
      BY <2>1 DEF LongestOf
    <3> QED BY <1>2, <3>1
  <2>3. Suffixed(core) = IF Flag("boundary") /\ At(after) \in IdentCont THEN core ELSE after
    BY <1>9 DEF Suffixed, best, rules
  <2>4. CASE Flag("boundary") /\ At(after) \in IdentCont
    <3>1. free = {}
      BY <2>2, <2>4
    <3> QED BY <1>7, <2>3, <2>4, <3>1
  <2>5. CASE ~(Flag("boundary") /\ At(after) \in IdentCont)
    <3>1. after \in free
      BY <2>1, <2>5
    <3> QED BY <1>7, <2>3, <2>5, <3>1
  <2> QED BY <2>4, <2>5
<1> QED BY <1>8, <1>9

LEMMA NumberTokenIs ==
  /\ \A t : NumberToken(t) <=> /\ t.kind \in {"INT", "FLOAT"} => Scanned(t)
                               /\ t.kind = Malformed => Rejected(t)
  /\ Malformed \notin {"INT", "FLOAT"}
<1>1. Malformed \notin {"INT", "FLOAT"}
  BY Zenon DEF Malformed
<1> QED BY <1>1 DEF NumberToken

\* What emit_number pushes, once the longest digits are found.
LEMMA NumberMade ==
  ASSUME CallMade, pos \in 1..Len(src), NEW kind \in {"INT", "FLOAT"},
         NEW core \in LongestOf(Cores(pos)), IsCore(kind, pos, core),
         NEW to, to = Suffixed(core), NEW t, t.from = pos,
         Flag("strict") /\ At(to) \in IdentCont
           => t.kind = Malformed /\ t.to = RunEnd(IdentCont, to),
         ~(Flag("strict") /\ At(to) \in IdentCont) => t.kind = kind /\ t.to = to
  PROVE  NumberToken(t)
<1>0. Len(src) \in Nat /\ pos \in Nat
  BY CallTyped
<1>1. core \in Cores(pos) /\ core \in pos + 1..Len(src) + 1
  BY DEF LongestOf, Cores, Beyond
<1>2. core \in 1..Len(src) + 1 /\ core \in Offsets
  BY <1>0, <1>1 DEF Offsets
<1>3. IsNumber(kind, pos, to)
  BY <1>2, SuffixIs DEF IsNumber
<1>4. to \in core..Len(src) + 1 /\ to \in pos + 1..Len(src) + 1
  <2>1. to \in core..Len(src) + 1
    BY <1>2, SuffixInside
  <2> QED BY <1>0, <1>1, <2>1
<1>5. CASE Flag("strict") /\ At(to) \in IdentCont
  <2> PICK run : run = RunEnd(IdentCont, to)
    OBVIOUS
  <2>1. to \in Offsets
    BY <1>0, <1>4 DEF Offsets
  <2>2. /\ run \in to..Len(src) + 1 /\ At(run) \notin IdentCont
        /\ \A i \in to..run - 1 : src[i] \in IdentCont
    BY <2>1, RunEndIs, NoEofClass
  <2>3. run > to
    BY <1>5, <2>1, RunEndInside, NoEofClass
  <2>4. to \in pos + 1..run - 1
    BY <1>0, <1>4, <2>2, <2>3
  <2>5. t.kind = Malformed /\ t.from = pos /\ t.to = run /\ Cores(pos) # {}
    BY <1>1, <1>5
  <2>6. Rejected(t)
    BY <1>3, <1>5, <2>2, <2>4, <2>5 DEF Rejected
  <2> QED BY <2>5, <2>6, NumberTokenIs
<1>6. CASE ~(Flag("strict") /\ At(to) \in IdentCont)
  <2>1. t.kind = kind /\ t.from = pos /\ t.to = to
    BY <1>6
  <2>2. Scanned(t)
    BY <1>3, <1>6, <2>1 DEF Scanned
  <2> QED BY <2>1, <2>2, NumberTokenIs
<1> QED BY <1>5, <1>6

\* Tokens that are no numbers.
Numerals == {"INT", "FLOAT", Malformed}
OtherSeq(made) == \E S : made \in Seq(S) /\ \A t \in S : t.kind \notin Numerals

LEMMA SeqWider ==
  ASSUME NEW S, NEW T, S \subseteq T, NEW s \in Seq(S)
  PROVE  s \in Seq(T)
<1>1. Len(s) \in Nat /\ \A i \in 1..Len(s) : s[i] \in T
  BY LenProperties, ElementOfSeq
<1>2. s = [i \in 1..Len(s) |-> s[i]]
  BY LenProperties
<1> QED BY <1>1, <1>2, IsASeq

LEMMA OtherIs ==
  ASSUME NEW S, NEW made \in Seq(S), \A t \in S : t.kind \notin Numerals
  PROVE  OtherSeq(made)
BY DEF OtherSeq

LEMMA OtherNone == OtherSeq(<<>>)
<1> PICK S : S = {}
  OBVIOUS
<1>1. <<>> \in Seq(S) /\ \A t \in S : t.kind \notin Numerals
  OBVIOUS
<1> QED BY <1>1, OtherIs

LEMMA OtherOne ==
  ASSUME NEW kind, kind \notin Numerals, NEW from, NEW to, NEW v
  PROVE  OtherSeq(MadeFrom(kind, from, to, v))
<1> PICK t : t = [kind |-> kind, from |-> from, to |-> to, v |-> v]
  OBVIOUS
<1> PICK S : S = {t}
  OBVIOUS
<1>1. <<t>> \in Seq(S) /\ t.kind = kind
  OBVIOUS
<1>2. MadeFrom(kind, from, to, v) = <<t>>
  BY DEF MadeFrom
<1>3. \A x \in S : x.kind \notin Numerals
  BY <1>1
<1> QED BY <1>1, <1>2, <1>3, OtherIs

LEMMA OtherConcat ==
  ASSUME NEW a, OtherSeq(a), NEW b, OtherSeq(b)
  PROVE  OtherSeq(a \o b)
<1>1. PICK S : a \in Seq(S) /\ \A t \in S : t.kind \notin Numerals
  BY DEF OtherSeq
<1>2. PICK T : b \in Seq(T) /\ \A t \in T : t.kind \notin Numerals
  BY DEF OtherSeq
<1>3. a \in Seq(S \cup T) /\ b \in Seq(S \cup T)
  BY <1>1, <1>2, SeqWider
<1>4. a \o b \in Seq(S \cup T)
  BY <1>3
<1> QED BY <1>1, <1>2, <1>4 DEF OtherSeq

LEMMA OtherKinds ==
  \A kind \in {"NEWLINE", "COMMENT", "IDENT", "KEYWORD", "OP", "PUNCT", "STRING", "CHAR", "FRAG",
               "BARE", "OPEN", "CLOSE", "EOF"} : kind \notin Numerals
BY Zenon DEF Numerals, Malformed

-----------------------------------------------------------------------------
NumInv == \A i \in 1..Len(tokens) : \A t : t = tokens[i] => NumberToken(t)

LEMMA NumberFixed ==
  ASSUME src' = src, cfg' = cfg
  PROVE  \A t : NumberToken(t)' <=> NumberToken(t)
<1>1. /\ \A p : At(p)' = At(p)
      /\ \A f : Flag(f)' <=> Flag(f)
      /\ \A i, j, base : IsDigits(i, j, base)' <=> IsDigits(i, j, base)
  BY DEF At, Flag, IsDigits, IsDigit
<1>2. \A i : Prefixed(i)' <=> Prefixed(i)
  BY DEF Prefixed, At, Flag
<1>3. \A i, a, j : IsDecimal(i, a, j)' <=> IsDecimal(i, a, j)
  BY DEF IsDecimal, IsDigits, IsDigit, At, Flag
<1>4. \A kind, i, j : IsCore(kind, i, j)' <=> IsCore(kind, i, j)
  BY <1>2, <1>3 DEF IsCore, PrefixBase, IsDigits, IsDigit, At, Flag
<1>5. \A i : Beyond(i)' = Beyond(i)
  BY DEF Beyond
<1>6. \A i : Cores(i)' = Cores(i)
  BY <1>4, <1>5 DEF Cores
<1>7. \A core : NumberEnds(core)' = NumberEnds(core)
  BY <1>1 DEF NumberEnds, LongestOf, Beyond, Slice
<1>8. \A kind, i, j : IsNumber(kind, i, j)' <=> IsNumber(kind, i, j)
  BY <1>4, <1>6, <1>7 DEF IsNumber, LongestOf
<1>9. \A t : Scanned(t)' <=> Scanned(t)
  BY <1>1, <1>8 DEF Scanned
<1>10. \A t : Rejected(t)' <=> Rejected(t)
  BY <1>1, <1>2, <1>6, <1>8 DEF Rejected
<1> QED BY <1>9, <1>10 DEF NumberToken

\* Tokens that are what they should be keep the invariant.
LEMMA PushNumbers ==
  ASSUME ScanInv, NumInv, src' = src, cfg' = cfg, NEW S, NEW r \in Seq(S),
         \A i \in 1..Len(r) : NumberToken(r[i]), tokens' = tokens \o r
  PROVE  NumInv'
<1>1. tokens \in Seq(Token)
  BY DEF ScanInv, Tiles
<1> PICK T : T = Token \cup S
  OBVIOUS
<1>2. tokens \in Seq(T) /\ r \in Seq(T)
  BY <1>1, SeqWider
<1>3. /\ Len(tokens) \in Nat /\ Len(r) \in Nat /\ Len(tokens') = Len(tokens) + Len(r)
      /\ \A i \in 1..Len(tokens) : tokens'[i] = tokens[i]
      /\ \A i \in 1..Len(r) : tokens'[i + Len(tokens)] = r[i]
  BY <1>2, Joined
<1>4. ASSUME NEW i \in 1..Len(tokens'), NEW t, t = tokens'[i] PROVE NumberToken(t)
  <2>1. CASE i <= Len(tokens)
    <3>1. i \in 1..Len(tokens) /\ t = tokens[i]
      BY <1>3, <1>4, <2>1
    <3> QED BY <3>1 DEF NumInv
  <2>2. CASE i > Len(tokens)
    <3> PICK k : k = i - Len(tokens)
      OBVIOUS
    <3>1. k \in 1..Len(r) /\ k + Len(tokens) = i
      BY <1>3, <2>2
    <3>2. t = r[k]
      BY <1>3, <1>4, <3>1
    <3> QED BY <3>1, <3>2
  <2> QED BY <1>3, <2>1, <2>2
<1>5. \A i \in 1..Len(tokens') : \A t : t = tokens'[i] => NumberToken(t)'
  BY <1>4, NumberFixed
<1> QED BY <1>5 DEF NumInv

LEMMA StepNumbers ==
  ASSUME ScanInv, NumInv, src' = src, cfg' = cfg,
         NEW made, NEW S, made \in Seq(S), NEW after, NEW d, Step(made, after, d),
         \A i \in 1..Len(made) : NumberToken(made[i])
  PROVE  NumInv'
<1>1. CASE tokens' = tokens \o made
  BY <1>1, PushNumbers
<1>2. CASE \E n \in 0..Len(made) - 1 : tokens' = tokens \o SubSeq(made, 1, n)
  <2>1. PICK n \in 0..Len(made) - 1 : tokens' = tokens \o SubSeq(made, 1, n)
    BY <1>2
  <2> PICK r : r = SubSeq(made, 1, n)
    OBVIOUS
  <2>2. Len(made) \in Nat /\ n \in Nat /\ n <= Len(made) /\ 1..n \subseteq 1..Len(made)
    BY LenProperties
  <2>3. r \in Seq(S) /\ Len(r) = n /\ \A i \in 1..n : r[i] = made[i]
    BY <2>2
  <2>4. \A i \in 1..Len(r) : NumberToken(r[i])
    BY <2>2, <2>3
  <2> QED BY <2>1, <2>3, <2>4, PushNumbers
<1> QED BY <1>1, <1>2 DEF Step

LEMMA OthersFine ==
  ASSUME NEW made, OtherSeq(made)
  PROVE  \E S : made \in Seq(S) /\ \A i \in 1..Len(made) : NumberToken(made[i])
<1>1. PICK S : made \in Seq(S) /\ \A t \in S : t.kind \notin Numerals
  BY DEF OtherSeq
<1>2. \A i \in 1..Len(made) : made[i] \in S
  BY <1>1, ElementOfSeq
<1>3. \A i \in 1..Len(made) : NumberToken(made[i])
  BY <1>1, <1>2, NumberTokenIs DEF Numerals
<1> QED BY <1>1, <1>3

LEMMA StepOthers ==
  ASSUME ScanInv, NumInv, UNCHANGED fixed, NEW made, OtherSeq(made), NEW after, NEW d,
         Step(made, after, d)
  PROVE  NumInv'
BY OthersFine, StepNumbers DEF fixed

LEMMA PushOthers ==
  ASSUME ScanInv, NumInv, UNCHANGED fixed, NEW made, OtherSeq(made), tokens' = tokens \o made
  PROVE  NumInv'
BY OthersFine, PushNumbers DEF fixed

LEMMA SameNumbers ==
  ASSUME NumInv, UNCHANGED fixed, tokens' = tokens
  PROVE  NumInv'
BY NumberFixed DEF NumInv, fixed

\* One number token.
LEMMA ClaimNumeral ==
  ASSUME ScanInv, NumInv, NEW kind, NEW to, Claim(Made(kind, to), to),
         \A t : t.kind = kind /\ t.from = pos /\ t.to = to => NumberToken(t)
  PROVE  NumInv'
<1> PICK t : t = [kind |-> kind, from |-> pos, to |-> to, v |-> 0]
  OBVIOUS
<1>1. <<t>> \in Seq({t}) /\ Len(<<t>>) = 1 /\ <<t>>[1] = t
      /\ t.kind = kind /\ t.from = pos /\ t.to = to
  OBVIOUS
<1>2. Step(<<t>>, Counted, interpDepth) /\ src' = src /\ cfg' = cfg
  BY DEF Claim, Made, fixed
<1>3. NumberToken(t)
  BY <1>1
<1>4. \A i \in 1..Len(<<t>>) : NumberToken(<<t>>[i])
  BY <1>1, <1>3
<1> HIDE DEF Step
<1> QED BY <1>1, <1>2, <1>4, StepNumbers
-----------------------------------------------------------------------------
(* The scanners of other tokens.                                           *)

LEMMA OtherMade ==
  ASSUME NEW kind, kind \notin Numerals, NEW to
  PROVE  OtherSeq(Made(kind, to))
BY MadeIs, OtherOne

LEMMA IdentOther == \A from, to : IdentKind(from, to) \notin Numerals
<1>1. "IDENT" \notin Numerals /\ "KEYWORD" \notin Numerals
  BY OtherKinds
<1> QED BY <1>1 DEF IdentKind

LEMMA FragmentOther == OtherSeq(FragmentBefore)
<1>1. "FRAG" \notin Numerals /\ "STRING" \notin Numerals
  BY OtherKinds
<1>2. \A from, to, v : /\ OtherSeq(MadeFrom("FRAG", from, to, v))
                       /\ OtherSeq(MadeFrom("STRING", from, to, v))
  BY <1>1, OtherOne
<1> QED BY <1>2, OtherNone DEF FragmentBefore

LEMMA MarkerOther == OtherSeq(OpenMarker)
<1>1. OtherSeq(Made("OPEN", BodyStart))
  BY OtherKinds, OtherMade
<1> QED BY <1>1, OtherNone DEF OpenMarker

LEMMA ClaimOthers ==
  ASSUME ScanInv, NumInv, NEW made, OtherSeq(made), NEW to, Claim(made, to)
  PROVE  NumInv'
<1>1. Step(made, Counted, interpDepth) /\ UNCHANGED fixed
  BY DEF Claim, fixed
<1> QED BY <1>1, StepOthers

LEMMA BlankNumbers == ASSUME ScanInv, NumInv, SkipBlank PROVE NumInv'
<1> PICK made : made = IF At(pos) = "nl" /\ cfg.emitNewlines THEN Made("NEWLINE", pos + 1) ELSE <<>>
  OBVIOUS
<1>1. Step(made, stack, interpDepth) /\ UNCHANGED fixed
  BY DEF SkipBlank, fixed
<1>2. OtherSeq(Made("NEWLINE", pos + 1))
  BY OtherKinds, OtherMade
<1>3. OtherSeq(made)
  BY <1>2, OtherNone
<1> QED BY <1>1, <1>3, StepOthers

LEMMA CommentNumbers == ASSUME ScanInv, NumInv, ScanComment PROVE NumInv'
<1> DEFINE End(rule) == IF rule.close = <<"nl">>
                        THEN [to |-> LineEnd(pos + Len(rule.open)), closed |-> TRUE]
                        ELSE BlockEnd(rule, pos + Len(rule.open))
           cut == "unterminated comment"
           Out(rule) == IF ~End(rule).closed THEN Made(cut, End(rule).to)
                        ELSE IF rule.kept THEN Made("COMMENT", End(rule).to) ELSE <<>>
<1>1. PICK rule \in CommentsHere : Claim(Out(rule), End(rule).to)
  BY Zenon DEF ScanComment
<1> HIDE DEF End
<1>2. cut \notin Numerals /\ "COMMENT" \notin Numerals
  <2>1. cut \notin Numerals
    BY Zenon DEF Numerals, Malformed
  <2> HIDE DEF cut
  <2> QED BY <2>1, OtherKinds
<1> HIDE DEF cut
<1>3. \A to : OtherSeq(Made(cut, to)) /\ OtherSeq(Made("COMMENT", to))
  BY <1>2, OtherMade
<1>4. OtherSeq(Out(rule))
  BY <1>3, OtherNone
<1> HIDE DEF Out
<1> QED BY <1>1, <1>4, ClaimOthers

LEMMA OpenNumbers == ASSUME ScanInv, NumInv, OpenString PROVE NumInv'
<1>1. PICK rule \in Longest(cfg.strings, pos) :
        Step(<<>>, Append(Counted, StringFrame(rule)), interpDepth)
  BY DEF OpenString
<1>2. UNCHANGED fixed
  BY DEF OpenString
<1> QED BY <1>1, <1>2, OtherNone, StepOthers

LEMMA IdentifierNumbers == ASSUME ScanInv, NumInv, ScanIdentifier PROVE NumInv'
<1> PICK to : to = RunEnd(IdentCont, pos)
  OBVIOUS
<1>1. Claim(Made(IdentKind(pos, to), to), to)
  BY DEF ScanIdentifier
<1>2. OtherSeq(Made(IdentKind(pos, to), to))
  BY IdentOther, OtherMade
<1> QED BY <1>1, <1>2, ClaimOthers

LEMMA OperatorNumbers == ASSUME ScanInv, NumInv, ScanOperator PROVE NumInv'
<1>1. \A to : OtherSeq(Made("OP", to)) /\ OtherSeq(Made("PUNCT", to))
  BY OtherKinds, OtherMade
<1> QED BY <1>1, ClaimOthers DEF ScanOperator

LEMMA UnknownNumbers == ASSUME ScanInv, NumInv, ScanUnknown PROVE NumInv'
<1> DEFINE kind == "unknown character"
<1>1. Step(Made(kind, pos + 1), stack, interpDepth) /\ UNCHANGED fixed
  BY Zenon DEF ScanUnknown, fixed
<1>2. kind \notin Numerals
  BY Zenon DEF Numerals, Malformed
<1> HIDE DEF kind
<1>3. OtherSeq(Made(kind, pos + 1))
  BY <1>2, OtherMade
<1> QED BY <1>1, <1>3, StepOthers

LEMMA EndStringNumbers ==
  ASSUME ScanInv, NumInv, NEW kind, kind \notin Numerals, NEW v, NEW to, EndString(kind, v, to)
  PROVE  NumInv'
<1>1. Step(MadeFrom(kind, Top.fragment, to, v), Rest, interpDepth) /\ UNCHANGED fixed
  BY DEF EndString
<1>2. OtherSeq(MadeFrom(kind, Top.fragment, to, v))
  BY OtherOne
<1> QED BY <1>1, <1>2, StepOthers

LEMMA CutNumbers == ASSUME ScanInv, NumInv, CutString PROVE NumInv'
<1> DEFINE kind == "unterminated string"
<1>1. kind \notin Numerals
  BY Zenon DEF Numerals, Malformed
<1>2. \E to : EndString(kind, 0, to)
  BY Zenon DEF CutString
<1> HIDE DEF kind
<1> QED BY <1>1, <1>2, EndStringNumbers

LEMMA CloseNumbers == ASSUME ScanInv, NumInv, CloseString PROVE NumInv'
<1> DEFINE kind == IF Tagged THEN "FRAG" ELSE Rule.kind
           v    == IF Tagged THEN 3 ELSE 0
<1>1. Rule.kind \in {"STRING", "CHAR", "IDENT"}
  <2>1. Rule \in StringRule
    BY StringHere DEF CloseString
  <2> QED BY <2>1 DEF StringRule
<1>2. "FRAG" \notin Numerals /\ "STRING" \notin Numerals /\ "CHAR" \notin Numerals
      /\ "IDENT" \notin Numerals
  BY OtherKinds
<1>3. kind \notin Numerals
  BY <1>1, <1>2
<1>4. EndString(kind, v, pos + Len(Rule.close))
  BY DEF CloseString
<1> HIDE DEF kind, v
<1> QED BY <1>3, <1>4, EndStringNumbers

LEMMA EnterNumbers == ASSUME ScanInv, NumInv, EnterInterpolation PROVE NumInv'
<1> PICK made : made = FragmentBefore \o OpenMarker
  OBVIOUS
<1>1. UNCHANGED fixed /\ \E after : Step(made, after, interpDepth + 1)
  BY DEF EnterInterpolation
<1>2. OtherSeq(made)
  BY FragmentOther, MarkerOther, OtherConcat
<1> QED BY <1>1, <1>2, StepOthers

LEMMA TooDeepNumbers == ASSUME ScanInv, NumInv, InterpolationTooDeep PROVE NumInv'
<1> DEFINE kind == "too deep"
           made == FragmentBefore \o OpenMarker \o Made(kind, BodyStart)
<1>1. UNCHANGED fixed /\ Step(made, Rest, interpDepth)
  BY Zenon DEF InterpolationTooDeep, fixed
<1>2. kind \notin Numerals
  BY Zenon DEF Numerals, Malformed
<1> HIDE DEF kind
<1>3. OtherSeq(FragmentBefore \o OpenMarker) /\ OtherSeq(Made(kind, BodyStart))
  BY <1>2, FragmentOther, MarkerOther, OtherConcat, OtherMade
<1>4. OtherSeq(made)
  BY <1>3, OtherConcat
<1> HIDE DEF made
<1> QED BY <1>1, <1>4, StepOthers

LEMMA BareNumbers == ASSUME ScanInv, NumInv, BareInterpolation PROVE NumInv'
<1> DEFINE kind == "expected identifier"
           to   == RunEnd(IdentCont, AfterOpen)
           name == IF Rule.marked THEN Made("BARE", to)
                   ELSE MadeFrom(IdentKind(AfterOpen, to), AfterOpen, to, 0)
           Pushed(made) == \E after : Step(made, after, interpDepth)
<1>1. /\ UNCHANGED fixed
      /\ Pushed(FragmentBefore \o name) \/ Pushed(FragmentBefore \o Made(kind, AfterOpen))
  BY Zenon DEF BareInterpolation, fixed
<1>2. OtherSeq(name)
  <2>1. OtherSeq(Made("BARE", to)) /\ OtherSeq(MadeFrom(IdentKind(AfterOpen, to), AfterOpen, to, 0))
    BY OtherKinds, OtherMade, IdentOther, OtherOne
  <2> QED BY <2>1
<1>3. OtherSeq(Made(kind, AfterOpen))
  <2>1. kind \notin Numerals
    BY Zenon DEF Numerals, Malformed
  <2> HIDE DEF kind
  <2> QED BY <2>1, OtherMade
<1> HIDE DEF name, kind
<1>4. OtherSeq(FragmentBefore \o name) /\ OtherSeq(FragmentBefore \o Made(kind, AfterOpen))
  BY <1>2, <1>3, FragmentOther, OtherConcat
<1>5. ASSUME NEW made, OtherSeq(made), Pushed(made) PROVE NumInv'
  BY <1>1, <1>5, StepOthers
<1> HIDE DEF Pushed
<1> QED BY <1>1, <1>4, <1>5

LEMMA ResumeNumbers == ASSUME ScanInv, NumInv, CloseInterpolation PROVE NumInv'
<1> PICK made : made = IF Rule.marked THEN Made("CLOSE", pos + Len(Top.close)) ELSE <<>>
  OBVIOUS
<1>1. UNCHANGED fixed /\ \E after : Step(made, after, interpDepth - 1)
  BY DEF CloseInterpolation
<1>2. OtherSeq(Made("CLOSE", pos + Len(Top.close)))
  BY OtherKinds, OtherMade
<1>3. OtherSeq(made)
  BY <1>2, OtherNone
<1> QED BY <1>1, <1>3, StepOthers

LEMMA CutInterpolationNumbers == ASSUME ScanInv, NumInv, CutInterpolation PROVE NumInv'
<1> DEFINE kind == "unterminated interpolation"
           made == MadeFrom(kind, Top.start, pos, 0)
<1>1. UNCHANGED fixed /\ \E after, d : Step(made, after, d)
  BY Zenon DEF CutInterpolation, DepthAfterCut, fixed
<1>2. kind \notin Numerals
  BY Zenon DEF Numerals, Malformed
<1> HIDE DEF kind
<1>3. OtherSeq(made)
  BY <1>2, OtherOne
<1> HIDE DEF made
<1> QED BY <1>1, <1>3, StepOthers

LEMMA FinishNumbers == ASSUME ScanInv, NumInv, Finish PROVE NumInv'
<1>1. UNCHANGED fixed /\ (tokens' = tokens \o Made("EOF", pos) \/ tokens' = tokens)
  BY DEF Finish
<1>2. CASE tokens' = tokens \o Made("EOF", pos)
  <2>1. OtherSeq(Made("EOF", pos))
    BY OtherKinds, OtherMade
  <2> QED BY <1>1, <1>2, <2>1, PushOthers
<1> QED BY <1>1, <1>2, SameNumbers
-----------------------------------------------------------------------------
(* Numbers are maximal.                                                    *)

\* emit_number at the end of the longest digits.
LEMMA NumberClaimed ==
  ASSUME ScanInv, NumInv, pos \in 1..Len(src), NEW kind \in {"INT", "FLOAT"},
         NEW core \in LongestOf(Cores(pos)), IsCore(kind, pos, core), ClaimNumber(kind, core)
  PROVE  NumInv'
<1> PICK to : to = Suffixed(core)
  OBVIOUS
<1> PICK run : run = RunEnd(IdentCont, to)
  OBVIOUS
<1>1. CallMade
  BY DEF ScanInv
<1>2. IF Flag("strict") /\ At(to) \in IdentCont THEN Claim(Made(Malformed, run), run)
      ELSE Claim(Made(kind, to), to)
  BY Zenon DEF ClaimNumber, Malformed
<1>3. CASE Flag("strict") /\ At(to) \in IdentCont
  <2>1. Claim(Made(Malformed, run), run)
    BY <1>2, <1>3
  <2>2. \A t : t.kind = Malformed /\ t.from = pos /\ t.to = run => NumberToken(t)
    BY <1>1, <1>3, NumberMade
  <2> QED BY <2>1, <2>2, ClaimNumeral
<1>4. CASE ~(Flag("strict") /\ At(to) \in IdentCont)
  <2>1. Claim(Made(kind, to), to)
    BY <1>2, <1>4
  <2>2. \A t : t.kind = kind /\ t.from = pos /\ t.to = to => NumberToken(t)
    BY <1>1, <1>4, NumberMade
  <2> QED BY <2>1, <2>2, ClaimNumeral
<1> QED BY <1>3, <1>4

LEMMA ScanNumbers == ASSUME ScanInv, NumInv, ScanNumber PROVE NumInv'
<1>1. InCode /\ CallMade /\ Len(src) \in Nat /\ pos \in 1..Len(src) /\ NumberHere
  <2>1. InCode /\ pos <= Len(src) /\ NumberHere
    BY Zenon DEF ScanNumber, AtToken
  <2>2. CallMade /\ Len(src) \in Nat /\ pos \in 1..Len(src) + 1
    BY <2>1, CodeHere
  <2> QED BY <2>1, <2>2
<1>2. CASE BaseHere # 10
  <2> DEFINE e == ScanDigits(pos + 2, BaseHere)
  <2>1. IF e = pos + 2 THEN Claim(Made(Malformed, e), e) ELSE ClaimNumber("INT", e)
    BY <1>2, Zenon DEF ScanNumber, Malformed
  <2>2. /\ Prefixed(pos)
        /\ e = pos + 2 => Cores(pos) = {}
        /\ e # pos + 2 => e \in LongestOf(Cores(pos)) /\ IsCore("INT", pos, e)
    BY <1>1, <1>2, PrefixedCore
  <2> HIDE DEF e
  <2>3. CASE e = pos + 2
    <3>1. ASSUME NEW t, t.kind = Malformed, t.from = pos, t.to = e PROVE NumberToken(t)
      <4>1. Rejected(t)
        BY <2>2, <2>3, <3>1 DEF Rejected
      <4> QED BY <3>1, <4>1, NumberTokenIs
    <3>2. Claim(Made(Malformed, e), e)
      BY <2>1, <2>3
    <3> QED BY <3>1, <3>2, ClaimNumeral
  <2>4. CASE e # pos + 2
    BY <1>1, <2>1, <2>2, <2>4, NumberClaimed
  <2> QED BY <2>3, <2>4
<1>3. CASE BaseHere = 10
  <2> DEFINE whole == IF LeadingDot THEN pos ELSE ScanDigits(pos, 10)
             e     == Exponent(Fraction(whole))
             kind  == IF e > whole THEN "FLOAT" ELSE "INT"
  <2>1. ClaimNumber(kind, e)
    BY <1>3, Zenon DEF ScanNumber
  <2>2. e \in LongestOf(Cores(pos)) /\ IsCore(kind, pos, e) /\ kind \in {"INT", "FLOAT"}
    BY <1>1, <1>3, DecimalCore
  <2> HIDE DEF e, kind
  <2> QED BY <1>1, <2>1, <2>2, NumberClaimed
<1> QED BY <1>2, <1>3

LEMMA NumbersKept == ASSUME ScanInv, NumInv, [Next]_vars PROVE NumInv'
<1>1. CASE SkipBlank
  BY <1>1, BlankNumbers
<1>2. CASE ScanComment
  BY <1>2, CommentNumbers
<1>3. CASE OpenString
  BY <1>3, OpenNumbers
<1>4. CASE ScanNumber
  BY <1>4, ScanNumbers
<1>5. CASE ScanIdentifier
  BY <1>5, IdentifierNumbers
<1>6. CASE ScanOperator
  BY <1>6, OperatorNumbers
<1>7. CASE ScanUnknown
  BY <1>7, UnknownNumbers
<1>8. CASE CutString
  BY <1>8, CutNumbers
<1>9. CASE CloseString
  BY <1>9, CloseNumbers
<1>10. CASE Text
  <2>1. UNCHANGED fixed /\ tokens' = tokens
    BY <1>10 DEF Text
  <2> QED BY <2>1, SameNumbers
<1>11. CASE EnterInterpolation
  BY <1>11, EnterNumbers
<1>12. CASE InterpolationTooDeep
  BY <1>12, TooDeepNumbers
<1>13. CASE BareInterpolation
  BY <1>13, BareNumbers
<1>14. CASE CloseInterpolation
  BY <1>14, ResumeNumbers
<1>15. CASE CutInterpolation
  BY <1>15, CutInterpolationNumbers
<1>16. CASE Finish
  BY <1>16, FinishNumbers
<1>17. CASE UNCHANGED vars
  <2>1. UNCHANGED fixed /\ tokens' = tokens
    BY <1>17 DEF vars, fixed
  <2> QED BY <2>1, SameNumbers
<1> QED BY <1>1, <1>2, <1>3, <1>4, <1>5, <1>6, <1>7, <1>8, <1>9, <1>10, <1>11, <1>12, <1>13,
           <1>14, <1>15, <1>16, <1>17 DEF Next, Returned

(* Every number token is the longest text at its place that the style's    *)
(* grammar of digits, separators, fraction, exponent and base prefix makes *)
(* a number of its kind, with the longest suffix that may follow it; a     *)
(* malformed one is a prefix without digits, or a number that runs into an *)
(* identifier where the style is strict, to its end: for every source and  *)
(* every style, inside interpolations and after failed pushes too.         *)
THEOREM NumbersAlwaysMaximal == Spec => []NumbersMaximal
<1>1. Init => NumInv
  <2> SUFFICES ASSUME Init PROVE NumInv
    OBVIOUS
  <2>1. tokens = <<>>
    BY DEF Init
  <2>2. Len(tokens) = 0
    BY <2>1
  <2> QED BY <2>2 DEF NumInv
<1>2. NumInv /\ ScanInv /\ [Next]_vars => NumInv'
  BY NumbersKept
<1>3. ScanInv /\ NumInv => NumbersMaximal
  <2> SUFFICES ASSUME ScanInv, NumInv PROVE NumbersMaximal
    OBVIOUS
  <2>1. DOMAIN tokens = 1..Len(tokens)
    BY LenProperties DEF ScanInv, Tiles
  <2> QED BY <2>1 DEF NumInv, NumbersMaximal
<1> QED BY <1>1, <1>2, <1>3, ScanAlways, PTL DEF Spec
=============================================================================
