------------------------------ MODULE Session ------------------------------
(***************************************************************************)
(* Sessions and results of src/src/kavak.c, with the type arena of type.c. *)
(*                                                                         *)
(* Every call that allocates may find no memory.  `heap` is what malloc    *)
(* has given and free not taken back: blocks <<owner, part>>, where the    *)
(* owner is the session (0), a result, a client's own source or a chunk.   *)
(* kavak_analyze is one action for each phase; inside the two that call    *)
(* the language's hooks another analysis may run to its end (`calls`).     *)
(* Lexer, parser and sema appear by what they leave in the result: see     *)
(* LexLayout, Pratt and Sema.                                              *)
(***************************************************************************)
EXTENDS Source, SequencesExt

CONSTANTS
  Results,    \* names of results, positive numbers
  Languages,  \* [flags, parses]: newline policy, has a parse_source
  Texts,      \* what is analysed
  OwnTexts,   \* what a client asks positions of, with a source of its own
  OwnFlags,   \* and the policies it does so with
  DiagCap,    \* the first capacity of a vector of diagnostics, 8
  ChunkTypes, \* KAVAK_TYPE_ARENA_CHUNK_SIZE, 256
  MaxTypes    \* bound of the model: types between two resets

ASSUME SessionConstants ==
  /\ Results \subseteq Nat \ {0}
  /\ Languages \subseteq [flags : SUBSET Newlines, parses : BOOLEAN]
  /\ Texts \cup OwnTexts \subseteq Seq(Byte) /\ OwnFlags \subseteq SUBSET Newlines
  /\ {DiagCap, ChunkTypes, MaxTypes} \subseteq Nat \ {0}

None == [phase |-> "none"]
Own  == -1

VARIABLES
  user,     \* the host of a session, or a client with a source of its own
  heap,
  session,  \* None or the session: its language and its type arena
  given,    \* the types handed out since the last reset, <<chunk, slot>>
  results,  \* the results by name
  calls,    \* the analyses in progress, the innermost last
  own,      \* the client's source
  answer    \* the last position told, [source, at, pos]

vars == <<user, heap, session, given, results, calls, own, answer>>

Chunk(c) == <<Own - c, "chunk">>
Parts(owner, parts) == {<<owner, p>> : p \in parts}
Silent == [source |-> None, at |-> 0, pos |-> <<>>]
Top    == calls[Len(calls)]
-----------------------------------------------------------------------------
(* The type arena: chunks of types in a list, and an arena for the rest.   *)
TypeChunks == {Chunk(session.list[i]) : i \in DOMAIN session.list}

\* kavak_ty_alloc with memory: the type's place and the arena after it.  The
\* address of a chunk may be that of one freed before.
NewChunk == CHOOSE c \in 1..MaxTypes : Chunk(c) \notin heap
Fuller(c) == [session EXCEPT !.used[c] = @ + 1]
AllocInTail == /\ session' = Fuller(session.tail)
               /\ given' = Append(given, <<session.tail, session.used[session.tail]>>)
               /\ UNCHANGED heap
TailFull == session.tail = 0 \/ session.used[session.tail] = ChunkTypes
AllocInNew ==
  /\ heap' = heap \cup {Chunk(NewChunk)}
  /\ session' = [session EXCEPT
       !.list = IF session.tail = 0 THEN <<NewChunk>> ELSE Append(@, NewChunk),
       !.tail = NewChunk,
       !.used = [@ EXCEPT ![NewChunk] = 1]]
  /\ given' = Append(given, <<NewChunk, 0>>)
TyAlloc == IF TailFull THEN AllocInNew ELSE AllocInTail

Unused == [c \in 1..MaxTypes |-> 0]
FreshArena(lang, aux) ==
  [phase |-> "live", lang |-> lang, aux |-> aux, list |-> <<>>, tail |-> 0, used |-> Unused]

\* kavak_type_arena_init: the struct of the aux arena and its first chunk may fail.
AuxParts(aux) == CASE aux = "none"  -> {}
                   [] aux = "empty" -> Parts(0, {"aux"})
                   [] aux = "ok"    -> Parts(0, {"aux", "auxChunk"})

\* What kavak_type_arena_free gives back.
ArenaFreed == TypeChunks \cup AuxParts(session.aux)

SessionNew ==
  /\ session = None
  /\ \E lang \in Languages, aux \in {"none", "empty", "ok"} :
       IF aux = "ok"
       THEN /\ session' = FreshArena(lang, aux)
            /\ heap' = heap \cup {<<0, "session">>} \cup AuxParts(aux)
       ELSE UNCHANGED <<session, heap>>     \* all of it is freed again
  /\ answer' = Silent
  /\ UNCHANGED <<user, given, results, calls, own>>

\* Results are freed before their session.
SessionFree ==
  /\ session # None /\ \A r \in Results : results[r] = None
  /\ heap' = heap \ (ArenaFreed \cup {<<0, "session">>})
  /\ session' = None /\ given' = <<>> /\ answer' = Silent
  /\ UNCHANGED <<user, results, calls, own>>

\* Wrong: the arena keeps the tail of the list it has freed.
M_EmptyArena(aux) == [session EXCEPT !.list = <<>>, !.aux = aux]
EmptyArena(aux) == [session EXCEPT !.list = <<>>, !.tail = 0, !.used = Unused, !.aux = aux]

\* kavak_session_reset_types, once no result holds a type.  Without memory for
\* the aux arena it returns -1 but has freed the types all the same.
ResetTypes ==
  /\ session # None /\ calls = <<>>
  /\ \A r \in Results : results[r] # None => results[r].types = {}
  /\ \E aux \in {"empty", "ok"} :
       /\ session' = EmptyArena(aux)
       /\ heap' = (heap \ ArenaFreed) \cup AuxParts(aux)
  /\ given' = <<>> /\ answer' = Silent
  /\ UNCHANGED <<user, results, calls, own>>
-----------------------------------------------------------------------------
(* Diagnostics: a push is lost when the vector is full and cannot grow.    *)
Error(msg, at) == [msg |-> msg, at |-> at]
VecFull(n) == n = 0 \/ \E k \in 0..n : n = DiagCap * 2^k
Push(r, d) ==
  {[r EXCEPT !.diags = Append(@, d)]}
    \cup (IF VecFull(Len(r.diags)) THEN {[r EXCEPT !.lost = TRUE]} ELSE {})

\* What a phase may report: nothing, or an error (bound of the model: one, at
\* the end of the source; the client's source is asked everywhere).
Reports(r) == {r} \cup Push(r, Error("said", Len(r.source.bytes)))

\* result_cleanup; the order does not matter and NULL is free to free.
CleanupParts == {"ast", "diags", "tokens", "table"}
Freed(r) == Parts(r, CleanupParts) \cup {<<r, "result">>}

DiagParts(r, rec) == IF rec.diags = <<>> THEN {} ELSE {<<r, "diags">>}

\* The call fails: all of the result is freed, NULL is returned.
GiveUp(r, allocated) ==
  /\ results' = [results EXCEPT ![r] = None]
  /\ heap' = (heap \cup allocated) \ Freed(r)
  /\ calls' = Front(calls)

\* The call goes on, or returns its result.
GoOn(r, rec, phase, blocks) ==
  /\ results' = [results EXCEPT ![r] = [rec EXCEPT !.phase = phase]]
  /\ heap' = blocks \cup DiagParts(r, rec)
  /\ calls' = IF phase = "done" THEN Front(calls) ELSE calls

InPhase(r, phase) == calls # <<>> /\ Top = r /\ results[r].phase = phase
Rest == answer' = Silent /\ UNCHANGED <<user, own>>

NewResult(text) ==
  [phase |-> "lex", source |-> NewSource(text, session.lang.flags), diags |-> <<>>,
   lost |-> FALSE, root |-> FALSE, types |-> {}]

\* kavak_analyze_bytes to the end of result_init; a hook may call it.
Analyze(r) ==
  /\ session # None /\ results[r] = None
  /\ calls # <<>> => results[Top].phase \in {"parsing", "resolving"}
  /\ \E text \in Texts :
       \/ /\ Len(text) <= MaxU32
          /\ results' = [results EXCEPT ![r] = NewResult(text)]
          /\ heap' = heap \cup Parts(r, {"result", "ast"})
          /\ calls' = Append(calls, r)
       \/ \E got \in SUBSET {"ast"} :      \* no arena, or too long a source
            /\ got = {"ast"} => Len(text) > MaxU32
            /\ heap' = (heap \cup Parts(r, {"result"} \cup got)) \ Freed(r)
            /\ UNCHANGED <<results, calls>>
  /\ Rest /\ UNCHANGED <<session, given>>

Lex(r) ==
  /\ InPhase(r, "lex")
  /\ \/ \E got \in SUBSET {"tokens", "diags"} : GiveUp(r, Parts(r, got))
     \/ \E rec \in Reports(results[r]) : GoOn(r, rec, "parse", heap \cup {<<r, "tokens">>})
  /\ Rest /\ UNCHANGED <<session, given>>

\* Until the language's parse_source is called.
ParserNew(r) ==
  /\ InPhase(r, "parse")
  /\ IF ~session.lang.parses
     THEN \E rec \in Push(results[r], Error("no parser", 0)) : GoOn(r, rec, "done", heap)
     ELSE GiveUp(r, {}) \/ GoOn(r, results[r], "parsing", heap \cup {<<r, "parser">>})
  /\ Rest /\ UNCHANGED <<session, given>>

\* parse_source returns a tree or NULL.
ParseSource(r) ==
  /\ InPhase(r, "parsing")
  /\ \E rec \in Reports(results[r]) :
       \/ GoOn(r, [rec EXCEPT !.root = TRUE], "sema", heap \ {<<r, "parser">>})
       \/ \E told \in Push(rec, Error("parse failed", 0)) :
            GoOn(r, told, "done", heap \ {<<r, "parser">>})
  /\ Rest /\ UNCHANGED <<session, given>>

SemaNew(r) ==
  /\ InPhase(r, "sema")
  /\ GiveUp(r, {}) \/ GoOn(r, results[r], "resolving", heap \cup {<<r, "sema">>})
  /\ Rest /\ UNCHANGED <<session, given>>

\* A hook makes a type and keeps it in the tree; without memory it gets NULL.
HookType(r) ==
  /\ InPhase(r, "resolving") /\ Len(given) < MaxTypes
  /\ TyAlloc
  /\ results' = [results EXCEPT ![r].types = @ \cup {given'[Len(given')]}]
  /\ Rest /\ UNCHANGED calls

\* The hooks and the walks between them have run.
SemaFree(r) ==
  /\ InPhase(r, "resolving")
  /\ \E rec \in Reports(results[r]) : GoOn(r, rec, "done", heap \ {<<r, "sema">>})
  /\ Rest /\ UNCHANGED <<session, given>>

ResultFree(r) ==
  /\ results[r].phase = "done"
  /\ results' = [results EXCEPT ![r] = None]
  /\ heap' = heap \ Freed(r)
  /\ Rest /\ UNCHANGED <<session, given, calls>>
-----------------------------------------------------------------------------
\* kavak_source_pos for the owner of s: the table is built on the first call.
Asked(owner, s, p, told) ==
  /\ answer' = [source |-> told, at |-> p, pos |-> Pos(told, p)]
  /\ heap' = IF told.table = NoTable THEN heap ELSE heap \cup {<<owner, "table">>}

\* kavak_error_at for the errors there are; it skips what is not an error.
ErrorAt(r) ==
  /\ results[r].phase = "done"
  /\ \E i \in DOMAIN results[r].diags, table \in Tables(results[r].source) :
       LET told == [results[r].source EXCEPT !.table = table]
       IN  /\ Asked(r, results[r].source, results[r].diags[i].at, told)
           /\ results' = [results EXCEPT ![r].source = told]
  /\ UNCHANGED <<user, session, given, calls, own>>

SourceInit ==
  /\ own = None
  /\ \E text \in OwnTexts, flags \in OwnFlags :
       own' = IF Len(text) > MaxU32 THEN None ELSE NewSource(text, flags)
  /\ answer' = Silent
  /\ UNCHANGED <<user, heap, session, given, results, calls>>

SourcePos ==
  /\ own # None
  /\ \E p \in 0..Len(own.bytes) + 1, table \in Tables(own) :
       LET told == [own EXCEPT !.table = table]
       IN  Asked(Own, own, p, told) /\ own' = told
  /\ UNCHANGED <<user, session, given, results, calls>>

SourceFree ==
  /\ own # None
  /\ own' = None /\ answer' = Silent
  /\ heap' = heap \ {<<Own, "table">>}
  /\ UNCHANGED <<user, session, given, results, calls>>

Init ==
  /\ user \in {"host", "client"}
  /\ heap = {} /\ session = None /\ given = <<>> /\ calls = <<>>
  /\ results = [r \in Results |-> None] /\ own = None /\ answer = Silent

HostStep ==
  \/ SessionNew \/ SessionFree \/ ResetTypes
  \/ \E r \in Results :
       \/ Analyze(r) \/ Lex(r) \/ ParserNew(r) \/ ParseSource(r) \/ SemaNew(r)
       \/ HookType(r) \/ SemaFree(r) \/ ErrorAt(r) \/ ResultFree(r)

ClientStep == SourceInit \/ SourcePos \/ SourceFree

Next == (user = "host" /\ HostStep) \/ (user = "client" /\ ClientStep)
Spec == Init /\ [][Next]_vars
-----------------------------------------------------------------------------
(* What the live objects own. *)
PhaseParts(phase) ==
  CASE phase = "lex"       -> {"result", "ast"}
    [] phase = "parsing"   -> {"result", "ast", "tokens", "parser"}
    [] phase = "resolving" -> {"result", "ast", "tokens", "sema"}
    [] OTHER               -> {"result", "ast", "tokens"}

ResultParts(r) ==
  LET rec == results[r]
  IN  IF rec = None THEN {}
      ELSE Parts(r, PhaseParts(rec.phase)) \cup DiagParts(r, rec)
             \cup (IF rec.source.table = NoTable THEN {} ELSE {<<r, "table">>})

SessionParts == IF session = None THEN {} ELSE {<<0, "session">>} \cup ArenaFreed
OwnParts == IF own = None \/ own.table = NoTable THEN {} ELSE {<<Own, "table">>}

\* Nothing is leaked and nothing that is used has been freed.
NothingLeaks == heap = SessionParts \cup OwnParts \cup UNION {ResultParts(r) : r \in Results}

\* A returned result has a tree, or says why there is none unless that was lost.
FailuresExplained ==
  \A r \in Results :
    results[r].phase = "done" /\ ~results[r].root /\ ~results[r].lost =>
      /\ results[r].diags # <<>>
      /\ Last(results[r].diags).msg \in {"no parser", "parse failed"}

\* The types handed out since the last reset are apart, and in memory; those
\* of every tree are among them.
TypesAlive ==
  /\ IsInjective(given)
  /\ \A i \in DOMAIN given : Chunk(given[i][1]) \in heap /\ given[i][2] < ChunkTypes
  /\ \A r \in Results : results[r] # None => results[r].types \subseteq Range(given)

(* However an analysis ends, in whichever phase memory runs out, and with  *)
(* analyses run from the hooks of others and types reset between them, the *)
(* memory in use is that of what lives, a missing tree is explained, and   *)
(* the types that trees hold are alive.                                    *)
ResultsSound == NothingLeaks /\ FailuresExplained /\ TypesAlive

(* Every position told is the one that the newlines before it make it, or  *)
(* (1,1) while there is no table; the table has room for its end.          *)
PositionsRight ==
  /\ answer.source # None =>
       IF answer.source.table = NoTable THEN answer.pos = <<1, 1>>
       ELSE answer.pos = TruePos(answer.source, answer.at)
  /\ \A s \in {answer.source, own} \cup {results[r].source : r \in {q \in Results : results[q] # None}} :
       s # None /\ s.table # NoTable => /\ Len(s.table.starts) < s.table.room
                                        /\ s.table.end = Len(s.bytes)
=============================================================================
