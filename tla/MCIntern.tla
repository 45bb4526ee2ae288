------------------------------ MODULE MCIntern ------------------------------
(* Five strings, two of them equal up to the shorter one's length and two   *)
(* with one hash; requests of every alignment, a size near the end of the  *)
(* address space among them.                                               *)
EXTENDS Intern

String(id, len) == [id |-> id, len |-> len]
Few == {String("a", 0), String("a", 1), String("b", 1), String("c", 3), String("d", 6)}
Hashes == [s \in Few |-> IF s.id = "b" THEN 7 ELSE IF s.id = "d" THEN 5 ELSE 3]
SomeRequests ==
  {[size |-> n, align |-> a] : n \in {0, 1, 5}, a \in {0, 1, 8}}
    \cup {[size |-> 11, align |-> 16], [size |-> 3, align |-> 3], [size |-> 60, align |-> 4],
          [size |-> 63, align |-> 2], [size |-> 1, align |-> 32]}
=============================================================================
