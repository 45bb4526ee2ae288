------------------------------- MODULE Intern -------------------------------
(***************************************************************************)
(* The intern pool of src/src/intern.c over its own arena.                 *)
(*                                                                         *)
(* A string is its length and its bytes' identity; Hash stands for fnv1a,  *)
(* any function may be its values.  A bucket holds the address of a copy;  *)
(* `text` is what the arena's memory holds at such an address.             *)
(* A client that uses the arena alone, with alignments of its own, is the  *)
(* other user of the same actions.                                         *)
(***************************************************************************)
EXTENDS Arena, FiniteSets, FiniteSetsExt

CONSTANTS
  Strings,     \* [len, id]
  Hash,        \* [Strings -> Nat]
  InitialCap,  \* KAVAK_INTERN_INITIAL_CAP, 16
  MaxCap       \* the largest capacity an uint32_t holds

Null  == 0
Empty == [key |-> Null, len |-> 0]

ASSUME InternConstants ==
  /\ \A s \in Strings : s.len \in 0..MaxAddr
  /\ \A s, t \in Strings : s.len = t.len /\ s.id = t.id => s = t
  /\ Hash \in [Strings -> Nat]
  /\ InitialCap \in Nat /\ InitialCap > 1
  /\ MaxCap \in Nat

VARIABLES
  user,    \* who has the arena: the pool or another client
  slots,   \* pool->keys and pool->lens: a sequence of buckets, <<>> without a pool
  count,   \* pool->count
  text,    \* the strings at the addresses in use
  answer   \* the last call of kavak_intern: its string and the pointer returned

poolVars == <<slots, count, text, answer>>
vars == <<arenaVars, user, poolVars>>

Live == slots # <<>>
Cap  == Len(slots)

\* The buckets in the order a probe for this hash visits them.
Probe(table, hash, k) == ((hash + k) % Len(table)) + 1

\* intern_put: the first empty bucket.
FirstEmpty(table, hash) ==
  Probe(table, hash, Min({k \in 0..Len(table) - 1 : table[Probe(table, hash, k)] = Empty}))

\* intern_grow moves every key to a table of twice the size.
Rehash(table, cap) ==
  LET moved[i \in 0..Len(table)] ==
        IF i = 0 THEN [k \in 1..cap |-> Empty]
        ELSE IF table[i] = Empty THEN moved[i - 1]
        ELSE [moved[i - 1] EXCEPT ![FirstEmpty(moved[i - 1], Hash[text[table[i].key]])] = table[i]]
  IN  moved[Len(table)]

\* Wrong: the lengths are not compared.
M_Same(slot, s) == text[slot.key].id = s.id
\* memcmp of so many bytes: equal ids are equal bytes up to the shorter length.
Same(slot, s) == slot.len = s.len /\ text[slot.key].id = s.id

\* Where the probe for s ends: at s, or at an empty bucket.
Stop(table, s) ==
  LET ends == {k \in 0..Len(table) - 1 :
                 LET slot == table[Probe(table, Hash[s], k)] IN slot = Empty \/ Same(slot, s)}
  IN  Probe(table, Hash[s], Min(ends))

\* Wrong: a table that is three quarters full has room.
M_TooFull == count * 4 > Cap * 3
TooFull == (count + 1) * 4 > Cap * 3

\* The table once there is room in it, one of the outcomes of the growth.
Grown ==
  IF ~TooFull THEN {slots}
  ELSE {<<>>} \cup (IF Cap > MaxCap \div 2 THEN {} ELSE {Rehash(slots, 2 * Cap)})
-----------------------------------------------------------------------------
NewPool ==
  /\ user = "pool" /\ ~Live /\ chunks = <<>>
  /\ \/ InitArena(0) /\ chunks' # <<>> /\ slots' = [k \in 1..InitialCap |-> Empty]
     \/ FreeArena /\ UNCHANGED slots     \* no memory for one of its parts
  /\ count' = 0 /\ text' = <<>> /\ answer' = <<>>
  /\ UNCHANGED user

FreePool ==
  /\ Live
  /\ FreeArena
  /\ slots' = <<>> /\ count' = 0 /\ text' = <<>> /\ answer' = <<>>
  /\ UNCHANGED user

\* kavak_intern: the table grows before the string is looked up.
Intern(s) ==
  /\ Live
  /\ UNCHANGED <<user, chunkSize>>
  /\ \E table \in Grown :
       LET i == Stop(table, s)
       IN  \/ /\ table = <<>>            \* the growth failed
              /\ answer' = <<s, Null>>
              /\ UNCHANGED <<arenaVars, slots, count, text>>
           \/ /\ table # <<>> /\ table[i] # Empty
              /\ answer' = <<s, table[i].key>> /\ slots' = table
              /\ UNCHANGED <<arenaVars, count, text>>
           \/ /\ table # <<>> /\ table[i] = Empty
              /\ \E o \in Alloc(s.len + 1, DefaultAlign) :
                   /\ Becomes(o)
                   /\ answer' = <<s, o.p>>
                   /\ IF o.p = Null THEN slots' = table /\ UNCHANGED <<count, text>>
                      ELSE /\ slots' = [table EXCEPT ![i] = [key |-> o.p, len |-> s.len]]
                           /\ count' = count + 1
                           /\ text' = [a \in DOMAIN text \cup {o.p} |-> IF a = o.p THEN s ELSE text[a]]

ClientStep == user = "client" /\ ArenaNext /\ UNCHANGED <<user, poolVars>>

Init ==
  /\ ArenaInit
  /\ user \in {"pool", "client"}
  /\ slots = <<>> /\ count = 0 /\ text = <<>> /\ answer = <<>>

Next == ClientStep \/ NewPool \/ FreePool \/ \E s \in Strings : Intern(s)
Spec == Init /\ [][Next]_vars
-----------------------------------------------------------------------------
(* The pool's table and its arena stay in range, the count is right and    *)
(* the table is never full, so that every probe ends.                      *)
TypeOK ==
  /\ ArenaTypeOK
  /\ user \in {"pool", "client"}
  /\ Live => chunks # <<>>
  /\ \A i \in DOMAIN slots : slots[i] = Empty \/ slots[i].key \in DOMAIN text
  /\ count = Cardinality({i \in DOMAIN slots : slots[i] # Empty})
  /\ Live => count * 4 <= Cap * 3
  /\ answer = <<>> \/ (answer[1] \in Strings /\ answer[2] \in 0..MaxAddr)

\* The names the table gives: what a probe finds.
Names == [s \in {text[a] : a \in DOMAIN text} |-> slots[Stop(slots, s)].key]

Promise == INSTANCE InternSpec WITH names <- Names

(* The pool implements the abstract one: through collisions, growth,       *)
(* failures and a new pool, a string keeps its name and no two share one.  *)
KeepsPromise == Promise!Spec
=============================================================================
