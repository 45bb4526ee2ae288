----------------------------- MODULE InternSpec -----------------------------
(***************************************************************************)
(* What an intern pool promises (kavak.h, section 15): while it lives,     *)
(* equal strings have one name and different strings different ones.       *)
(* A call may fail at any time, even for a string that has a name.         *)
(***************************************************************************)
EXTENDS Naturals

CONSTANTS Strings, Null

VARIABLES
  names,  \* the strings interned so far and their names
  answer  \* the last call of kavak_intern: its string and the name returned

Fresh(p) == p # Null /\ \A s \in DOMAIN names : names[s] # p

Intern(s) ==
  \/ answer' = <<s, Null>> /\ UNCHANGED names
  \/ s \in DOMAIN names /\ answer' = <<s, names[s]>> /\ UNCHANGED names
  \/ /\ s \notin DOMAIN names
     /\ DOMAIN names' = DOMAIN names \cup {s}
     /\ Fresh(names'[s])
     /\ \A t \in DOMAIN names : names'[t] = names[t]
     /\ answer' = <<s, names'[s]>>

\* A new pool knows no strings, a freed one none any more.
Forget == names' = <<>> /\ answer' = <<>>

Init == names = <<>> /\ answer = <<>>
Next == Forget \/ \E s \in Strings : Intern(s)
Spec == Init /\ [][Next]_<<names, answer>>
=============================================================================
