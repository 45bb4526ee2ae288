---------------------------- MODULE InternProofs ----------------------------
(***************************************************************************)
(* Proofs about the bump allocator and the intern pool that lives in it.   *)
(*                                                                         *)
(* The allocator: wherever calloc puts the chunks and whatever is asked    *)
(* for, allocations are aligned, in bounds and apart.  AllocationsApart is *)
(* not inductive: a new allocation is beyond all that its chunk has handed *)
(* out, but apart from the other chunks' only because the chunks are       *)
(* apart, and in range only because they are.                              *)
(*                                                                         *)
(* The pool: its table never fills, a probe for a string ends at its       *)
(* bucket if there is one, growth keeps that so, and the pool implements   *)
(* what InternSpec promises.                                               *)
(***************************************************************************)
EXTENDS Intern, Induction, FiniteSetTheorems

ChunkType == [at : Nat, cap : Nat, used : Nat]
AllocType == [at : Nat, size : Nat, align : Nat \ {0}]

Before(c, d) == c.at + c.cap <= d.at - Header

ChunksOK(list) ==
  /\ list \in Seq(ChunkType)
  /\ \A i \in DOMAIN list : /\ Header < list[i].at
                            /\ list[i].used <= list[i].cap
                            /\ list[i].at + list[i].cap <= MaxAddr
  /\ \A i, j \in DOMAIN list : i # j => Before(list[i], list[j]) \/ Before(list[j], list[i])

Inside(a, c) == c.at <= a.at /\ a.at + a.size <= c.at + c.used
Apart(a, b)  == a.at + a.size <= b.at \/ b.at + b.size <= a.at

AllocsOK(list, all) ==
  /\ all \in Seq(AllocType)
  /\ \A i \in DOMAIN all : /\ all[i].at % all[i].align = 0
                           /\ \E j \in DOMAIN list : Inside(all[i], list[j])
  /\ \A i, j \in DOMAIN all :
       i # j /\ all[i].size > 0 /\ all[j].size > 0 => Apart(all[i], all[j])

(* The inductive invariant of the arena. *)
ArenaInv ==
  /\ ChunksOK(chunks)
  /\ AllocsOK(chunks, allocs)
  /\ chunkSize \in Nat
  /\ totalUsed \in 0..MaxAddr

(* What any call may leave: the arena is in order, and a pointer is that of *)
(* the one new allocation.                                                  *)
OutcomeOK(o, size, align) ==
  /\ ChunksOK(o.chunks) /\ AllocsOK(o.chunks, o.allocs) /\ o.used \in 0..MaxAddr
  /\ o.p = 0 => o.allocs = allocs
  /\ o.p # 0 => o.allocs = Append(allocs, [at |-> o.p, size |-> size, align |-> align])
  /\ o.p \in 0..MaxAddr /\ o.chunks # <<>>
-----------------------------------------------------------------------------
LEMMA ConstantsTyped ==
  /\ MaxAddr \in Nat /\ Header \in Nat \ {0}
  /\ DefaultAlign \in Nat \ {0} /\ DefaultChunk \in Nat \ {0}
  /\ \A a : Aligned(a) => a \in Nat \ {0}
  /\ Blocks \subseteq 1..MaxAddr /\ ChunkSizes \subseteq Nat
  /\ Aligned(DefaultAlign)
BY ArenaConstants DEF MaxAddr, Aligned

(* align_forward rounds up to the next multiple. *)
LEMMA ForwardRoundsUp ==
  ASSUME NEW base \in Nat, NEW align \in Nat \ {0}
  PROVE  /\ Forward(base, align) \in Nat
         /\ base <= Forward(base, align) /\ Forward(base, align) <= base + align - 1
         /\ Forward(base, align) % align = 0
<1> DEFINE q == (base + align - 1) \div align
           r == (base + align - 1) % align
<1>1. q \in Nat
  OBVIOUS
<1>2. r \in 0..align - 1 /\ base + align - 1 = q * align + r
  OBVIOUS
<1>3. q * align \in Nat /\ (q * align) % align = 0
  <2> HIDE DEF q
  <2> QED BY <1>1
<1> QED BY <1>2, <1>3 DEF Forward

LEMMA PadInRange ==
  ASSUME NEW c \in ChunkType, NEW align \in Nat \ {0}
  PROVE  Pad(c, align) \in 0..align - 1 /\ (c.at + c.used + Pad(c, align)) % align = 0
<1> DEFINE base == c.at + c.used
           up   == Forward(base, align)
<1>1. base \in Nat /\ Pad(c, align) = up - base
  BY DEF ChunkType, Pad
<1> HIDE DEF base
<1>2. up \in Nat /\ base <= up /\ up <= base + align - 1 /\ up % align = 0
  BY <1>1, ForwardRoundsUp
<1> HIDE DEF up
<1>3. Pad(c, align) \in 0..align - 1 /\ base + Pad(c, align) = up
  BY <1>1, <1>2
<1> QED BY <1>2, <1>3 DEF base

(* A fresh chunk is apart from those there are, so the list stays in order. *)
LEMMA NewChunkFits ==
  ASSUME ChunksOK(chunks), NEW cap \in Nat, NEW c \in NewChunks(cap)
  PROVE  ChunksOK(Append(chunks, c)) /\ c.cap = cap /\ c.used = 0 /\ c \in ChunkType
<1>1. PICK b \in FreeBlocks(Header + cap) : c = Chunk(b, cap)
  BY DEF NewChunks
<1>2. c \in ChunkType /\ c.at = b + Header /\ c.cap = cap /\ c.used = 0
  BY <1>1, ConstantsTyped DEF FreeBlocks, Chunk, ChunkType
<1>3. b \in 1..MaxAddr /\ b + Header + cap <= MaxAddr
  BY <1>1, ConstantsTyped DEF FreeBlocks
<1>4. \A i \in DOMAIN chunks : Before(c, chunks[i]) \/ Before(chunks[i], c)
  <2> TAKE i \in DOMAIN chunks
  <2>1. chunks[i] \in ChunkType
    BY DEF ChunksOK
  <2> QED BY <1>1, <1>2, <1>3, <2>1, ConstantsTyped DEF FreeBlocks, Before, ChunkType
<1> DEFINE list == Append(chunks, c)
<1>5. /\ list \in Seq(ChunkType) /\ DOMAIN list = 1..Len(chunks) + 1
      /\ DOMAIN chunks = 1..Len(chunks) /\ Len(chunks) \in Nat
      /\ list[Len(chunks) + 1] = c /\ \A i \in DOMAIN chunks : list[i] = chunks[i]
  BY <1>2 DEF ChunksOK
<1>6. \A i \in DOMAIN list : /\ Header < list[i].at
                             /\ list[i].used <= list[i].cap
                             /\ list[i].at + list[i].cap <= MaxAddr
  <2> HIDE DEF list
  <2>1. Header < c.at /\ c.used <= c.cap /\ c.at + c.cap <= MaxAddr
    BY <1>2, <1>3, ConstantsTyped
  <2> QED BY <1>5, <2>1 DEF ChunksOK
<1>7. \A i, j \in DOMAIN list : i # j => Before(list[i], list[j]) \/ Before(list[j], list[i])
  <2> HIDE DEF list
  <2> QED BY <1>4, <1>5 DEF ChunksOK
<1> QED BY <1>2, <1>5, <1>6, <1>7 DEF ChunksOK

(* Allocations stay inside when the list of chunks grows. *)
LEMMA StillInside ==
  ASSUME ArenaInv, NEW cap \in Nat, NEW c \in NewChunks(cap)
  PROVE  AllocsOK(Append(chunks, c), allocs)
<1>1. chunks \in Seq(ChunkType) /\ c \in ChunkType /\ allocs \in Seq(AllocType)
  BY NewChunkFits DEF ArenaInv, ChunksOK, AllocsOK
<1>2. /\ DOMAIN chunks \subseteq DOMAIN Append(chunks, c)
      /\ \A j \in DOMAIN chunks : Append(chunks, c)[j] = chunks[j]
  BY <1>1
<1> QED BY <1>1, <1>2 DEF ArenaInv, AllocsOK

(* What a chunk holds is clear of a range past the used part of another    *)
(* one, or of the same.                                                    *)
LEMMA ClearOfTail ==
  ASSUME NEW a \in AllocType, NEW c \in ChunkType, NEW tail \in ChunkType,
         NEW p \in Nat, NEW size \in Nat,
         Inside(a, c), c.used <= c.cap, c = tail \/ Before(c, tail) \/ Before(tail, c),
         tail.at + tail.used <= p, p + size <= tail.at + tail.cap
  PROVE  a.at + a.size <= p \/ p + size <= a.at
<1>1. /\ a.at \in Nat /\ a.size \in Nat
      /\ c.at \in Nat /\ c.cap \in Nat /\ c.used \in Nat
      /\ tail.at \in Nat /\ tail.cap \in Nat /\ tail.used \in Nat /\ Header \in Nat
  BY ConstantsTyped DEF AllocType, ChunkType
<1> QED BY <1>1 DEF Inside, Before

LEMMA InsideGrown ==
  ASSUME NEW a \in AllocType, NEW c \in ChunkType, NEW d \in ChunkType,
         Inside(a, c), d.at = c.at, c.used <= d.used
  PROVE  Inside(a, d)
BY DEF Inside, AllocType, ChunkType

(* The request is taken from the free end of the tail: beyond what the     *)
(* tail has handed out, and in another chunk than everything else.         *)
LEMMA TakeOK ==
  ASSUME NEW list, ChunksOK(list), list # <<>>, AllocsOK(list, allocs),
         totalUsed \in 0..MaxAddr, NEW size \in Nat, NEW align \in Nat \ {0},
         LET tail == list[Len(list)]
         IN  tail.used = 0 \/ tail.used + Pad(tail, align) + size <= tail.cap
  PROVE  OutcomeOK(Take(list, size, align), size, align)
<1> DEFINE n    == Len(list)
           tail == list[n]
           pad  == Pad(tail, align)
           p    == tail.at + tail.used + pad
           full == pad + size > tail.cap \/ totalUsed + pad + size > MaxAddr
           new  == [at |-> p, size |-> size, align |-> align]
           top  == tail.used + pad + size
           grown == [list EXCEPT ![n].used = top]
           all  == Append(allocs, new)
           k    == Len(allocs) + 1
<1>1. list \in Seq(ChunkType) /\ n \in Nat \ {0} /\ DOMAIN list = 1..n /\ n \in DOMAIN list
  BY DEF ChunksOK
<1>2. \A i \in DOMAIN list : list[i] \in ChunkType
  BY <1>1
<1>0. p % align = 0
  BY <1>1, <1>2, PadInRange
<1>3. pad \in Nat
  BY <1>1, <1>2, PadInRange
<1>4. /\ tail.at \in Nat /\ tail.cap \in Nat /\ tail.used \in Nat
      /\ Header < tail.at /\ tail.used <= tail.cap /\ tail.at + tail.cap <= MaxAddr
  BY <1>1, <1>2 DEF ChunksOK, ChunkType
<1>5. p \in Nat /\ 0 < p /\ new \in AllocType /\ top \in Nat
  <2> HIDE DEF pad, tail
  <2> QED BY <1>3, <1>4, ConstantsTyped DEF AllocType
<1>6. CASE full
  <2>1. Take(list, size, align) = Outcome(0, list, totalUsed, allocs)
    BY <1>6 DEF Take
  <2> QED BY <2>1, ConstantsTyped DEF OutcomeOK, Outcome
<1>7. CASE ~full
  <2>1. Take(list, size, align) = Outcome(p, grown, totalUsed + pad + size, all)
    BY <1>7 DEF Take
  <2>2. top <= tail.cap /\ totalUsed + pad + size \in 0..MaxAddr
    <3>1. tail.used = 0 \/ top <= tail.cap
      OBVIOUS
    <3> HIDE DEF pad, tail
    <3> QED BY <1>3, <1>4, <1>7, <3>1, ConstantsTyped
  <2>3. /\ DOMAIN grown = DOMAIN list
        /\ \A i \in DOMAIN list : /\ grown[i] \in ChunkType
                                  /\ grown[i].at = list[i].at /\ grown[i].cap = list[i].cap
                                  /\ grown[i].used = IF i = n THEN top ELSE list[i].used
    BY <1>1, <1>2, <1>5 DEF ChunkType
  <2>4. grown \in Seq(ChunkType) /\ grown # <<>>
    BY <1>1, <2>3
  <2> HIDE DEF grown, top
  <2>5. ChunksOK(grown)
    BY <1>4, <2>2, <2>3, <2>4 DEF ChunksOK, Before
  <2> HIDE DEF pad, tail
  <2>6. /\ all \in Seq(AllocType) /\ k \in Nat /\ DOMAIN all = 1..k /\ all[k] = new
        /\ DOMAIN allocs = 1..k - 1 /\ \A i \in 1..k - 1 : all[i] = allocs[i]
    BY <1>5 DEF AllocsOK
  <2>7. new.at = p /\ new.size = size /\ new.align = align
    OBVIOUS
  <2>8. Inside(new, grown[n])
    <3>1. p + size = tail.at + top
      BY <1>3, <1>4 DEF top
    <3> HIDE DEF new
    <3>2. grown[n].at = tail.at /\ grown[n].used = top
      BY <1>1, <2>3 DEF tail
    <3>3. tail.at <= p
      BY <1>3, <1>4
    <3> HIDE DEF p
    <3> QED BY <2>7, <3>1, <3>2, <3>3, <1>4, <1>5 DEF Inside
  \* An earlier allocation is in the tail, below p, or in a chunk apart from it.
  <2>9. \A i \in 1..k - 1 : Apart(allocs[i], new) /\ \E j \in DOMAIN grown : Inside(allocs[i], grown[j])
    <3> SUFFICES ASSUME NEW i \in 1..k - 1
                 PROVE  Apart(allocs[i], new) /\ \E j \in DOMAIN grown : Inside(allocs[i], grown[j])
      OBVIOUS
    <3>1. PICK j \in DOMAIN list : Inside(allocs[i], list[j])
      BY <2>6 DEF AllocsOK
    <3>2. allocs[i] \in AllocType
      BY <2>6 DEF AllocsOK
    <3>3. allocs[i].at \in Nat /\ allocs[i].size \in Nat
      BY <3>2 DEF AllocType
    <3>4. /\ list[j].at \in Nat /\ list[j].used \in Nat /\ list[j].cap \in Nat
          /\ list[j].used <= list[j].cap
      BY <1>2 DEF ChunkType, ChunksOK
    <3>5. Inside(allocs[i], grown[j])
      <4>1. list[j].used <= grown[j].used
        BY <1>3, <1>4, <2>3, <3>4 DEF top, tail
      <4> QED BY <1>2, <2>3, <3>1, <3>2, <4>1, InsideGrown
    <3>6. Apart(allocs[i], new)
      <4>1. tail.at + tail.used <= p /\ p + size <= tail.at + tail.cap
        BY <1>3, <1>4, <2>2 DEF top
      <4> HIDE DEF new, p
      <4>2. list[j] = tail \/ Before(list[j], tail) \/ Before(tail, list[j])
        BY <1>1 DEF ChunksOK, tail
      <4>3. list[j] \in ChunkType /\ tail \in ChunkType /\ p \in Nat
        BY <1>1, <1>2, <1>5 DEF tail
      <4>4. allocs[i].at + allocs[i].size <= p \/ p + size <= allocs[i].at
        BY <3>1, <3>2, <3>4, <4>1, <4>2, <4>3, ClearOfTail
      <4> QED BY <4>4, <2>7 DEF Apart
    <3> QED BY <2>3, <3>5, <3>6
  <2> HIDE DEF new, p, all, k
  <2>10. \A i \in DOMAIN all : /\ all[i].at % all[i].align = 0
                               /\ \E j \in DOMAIN grown : Inside(all[i], grown[j])
    <3> TAKE i \in DOMAIN all
    <3>1. CASE i = k
      BY <3>1, <1>0, <1>1, <2>3, <2>6, <2>7, <2>8
    <3>2. CASE i # k
      BY <3>2, <2>6, <2>9 DEF AllocsOK
    <3> QED BY <3>1, <3>2
  <2>11. \A i, j \in DOMAIN all :
           i # j /\ all[i].size > 0 /\ all[j].size > 0 => Apart(all[i], all[j])
    <3> SUFFICES ASSUME NEW i \in DOMAIN all, NEW j \in DOMAIN all,
                        i # j, all[i].size > 0, all[j].size > 0
                 PROVE  Apart(all[i], all[j])
      OBVIOUS
    <3>1. CASE i = k \/ j = k
      BY <3>1, <2>6, <2>9 DEF Apart
    <3>2. CASE i # k /\ j # k
      BY <3>2, <2>6 DEF AllocsOK
    <3> QED BY <3>1, <3>2
  <2>12. AllocsOK(grown, all)
    BY <2>6, <2>10, <2>11 DEF AllocsOK
  <2>13. p \in 0..MaxAddr
    <3>1. p <= tail.at + tail.cap
      BY <1>3, <1>4, <2>2 DEF p, top
    <3> QED BY <3>1, <1>4, <1>5, ConstantsTyped
  <2> QED BY <1>5, <2>1, <2>2, <2>4, <2>5, <2>12, <2>13 DEF OutcomeOK, Outcome, new, all
<1> HIDE DEF full
<1> QED BY <1>6, <1>7

(* kavak_arena_alloc_aligned leaves the arena in order, from the tail or    *)
(* from a fresh chunk, and when it refuses.                                 *)
LEMMA AllocOK ==
  ASSUME ArenaInv, chunks # <<>>, NEW size \in Nat, NEW align0 \in Nat,
         NEW o \in Alloc(size, align0)
  PROVE  OutcomeOK(o, size, Align(align0))
<1> DEFINE align  == Align(align0)
           pad    == Pad(LastChunk, align)
           needed == LastChunk.used + pad + size
<1> SUFFICES OutcomeOK(o, size, align)
  OBVIOUS
<1>1. align \in Nat \ {0}
  BY ConstantsTyped DEF Align
<1>2. CASE o = Refused
  BY <1>2, ConstantsTyped DEF OutcomeOK, Refused, Outcome, ArenaInv
<1> HIDE DEF align
<1>3. CASE o # Refused
  <2>1. \/ needed <= LastChunk.cap /\ o = Take(chunks, size, align)
        \/ \E c \in NewChunks(FreshCap(size, align)) : o = Take(Append(chunks, c), size, align)
    BY <1>3 DEF Alloc, align
  <2>2. CASE needed <= LastChunk.cap /\ o = Take(chunks, size, align)
    BY <1>1, <2>2, TakeOK DEF ArenaInv, LastChunk
  <2>3. CASE \E c \in NewChunks(FreshCap(size, align)) : o = Take(Append(chunks, c), size, align)
    <3>1. PICK c \in NewChunks(FreshCap(size, align)) : o = Take(Append(chunks, c), size, align)
      BY <2>3
    <3>2. FreshCap(size, align) \in Nat
      BY <1>1 DEF FreshCap, ArenaInv
    <3>3. ChunksOK(Append(chunks, c)) /\ c.used = 0 /\ AllocsOK(Append(chunks, c), allocs)
      BY <3>2, NewChunkFits, StillInside DEF ArenaInv
    <3>4. Append(chunks, c) # <<>> /\ Append(chunks, c)[Len(Append(chunks, c))] = c
      BY DEF ArenaInv, ChunksOK
    <3> QED BY <1>1, <3>1, <3>3, <3>4, TakeOK DEF ArenaInv
  <2> QED BY <2>1, <2>2, <2>3
<1> QED BY <1>2, <1>3

LEMMA BecomesOK ==
  ASSUME ArenaInv, chunkSize' = chunkSize, NEW o, NEW size, NEW align,
         OutcomeOK(o, size, align), Becomes(o)
  PROVE  ArenaInv'
BY DEF ArenaInv, OutcomeOK, Becomes, ChunksOK, AllocsOK

LEMMA InitArenaOK ==
  ASSUME NEW size \in Nat, InitArena(size)
  PROVE  ArenaInv' /\ allocs' = <<>>
<1>1. chunkSize' \in Nat
  BY ConstantsTyped DEF InitArena
<1>2. ChunksOK(<<>>)
  BY DEF ChunksOK
<1>3. ChunksOK(chunks')
  <2>1. ASSUME NEW c \in NewChunks(chunkSize'), chunks' = <<c>>
        PROVE  ChunksOK(chunks')
    <3>1. chunks = <<>> /\ ChunksOK(chunks)
      BY <1>2 DEF InitArena
    <3>2. ChunksOK(Append(chunks, c))
      BY <1>1, <3>1, NewChunkFits
    <3> QED BY <2>1, <3>1, <3>2
  <2> QED BY <1>2, <2>1 DEF InitArena
<1>4. AllocsOK(chunks', <<>>)
  BY DEF AllocsOK
<1> QED BY <1>1, <1>3, <1>4, ConstantsTyped DEF InitArena, ArenaInv

LEMMA FreeArenaOK == FreeArena => ArenaInv' /\ chunks' = <<>>
<1>1. ChunksOK(<<>>) /\ AllocsOK(<<>>, <<>>)
  BY DEF ChunksOK, AllocsOK
<1> QED BY <1>1, ConstantsTyped DEF FreeArena, ArenaInv

LEMMA ArenaStep == ArenaInv /\ [ArenaNext]_arenaVars => ArenaInv'
<1> SUFFICES ASSUME ArenaInv, [ArenaNext]_arenaVars PROVE ArenaInv'
  OBVIOUS
<1>1. ASSUME NEW size \in ChunkSizes, InitArena(size) PROVE ArenaInv'
  BY <1>1, InitArenaOK, ConstantsTyped
<1>2. CASE AllocAligned
  <2>1. PICK r \in Requests : \E o \in Alloc(r.size, r.align) : Becomes(o)
    BY <1>2 DEF AllocAligned
  <2>2. PICK o \in Alloc(r.size, r.align) : Becomes(o)
    BY <2>1
  <2>3. r.size \in Nat /\ r.align \in Nat
    BY ArenaConstants, ConstantsTyped
  <2>4. CASE chunks = <<>>
    <3>1. o = Refused
      BY <2>2, <2>4 DEF Alloc
    <3> QED BY <1>2, <2>2, <3>1 DEF AllocAligned, Refused, Outcome, Becomes, ArenaInv, ChunksOK, AllocsOK
  <2>5. CASE chunks # <<>>
    BY <1>2, <2>2, <2>3, <2>5, AllocOK, BecomesOK DEF AllocAligned
  <2> QED BY <2>4, <2>5
<1>3. CASE FreeArena
  BY <1>3, FreeArenaOK
<1>4. CASE UNCHANGED arenaVars
  BY <1>4 DEF arenaVars, ArenaInv, ChunksOK, AllocsOK
<1> QED BY <1>1, <1>2, <1>3, <1>4 DEF ArenaNext

LEMMA ArenaStart == ArenaInit => ArenaInv
<1>1. ChunksOK(<<>>) /\ AllocsOK(<<>>, <<>>)
  BY DEF ChunksOK, AllocsOK
<1> QED BY <1>1, ConstantsTyped DEF ArenaInit, ArenaInv

LEMMA ArenaInvSound == ArenaInv => ArenaTypeOK /\ AllocationsApart
<1> SUFFICES ASSUME ArenaInv PROVE ArenaTypeOK /\ AllocationsApart
  OBVIOUS
<1>1. \A i \in DOMAIN chunks : chunks[i].used \in 0..chunks[i].cap
  <2> TAKE i \in DOMAIN chunks
  <2>1. chunks[i] \in ChunkType /\ chunks[i].used <= chunks[i].cap
    BY DEF ArenaInv, ChunksOK
  <2> QED BY <2>1 DEF ChunkType
<1>2. ArenaTypeOK
  BY <1>1 DEF ArenaInv, ArenaTypeOK
<1>3. AllocationsApart
  BY DEF ArenaInv, AllocsOK, Inside, Apart, AllocationsApart
<1> QED BY <1>2, <1>3

(* The numbers of the arena stay in range: no chunk hands out more than it  *)
(* has, and the total does not wrap (src/src/arena.c).                      *)
THEOREM ArenaTyped == ArenaSpec => []ArenaTypeOK
<1>1. ArenaSpec => []ArenaInv
  BY ArenaStart, ArenaStep, PTL DEF ArenaSpec
<1> QED BY <1>1, ArenaInvSound, PTL

(* Every allocation has the alignment asked for, lies in the used part of   *)
(* one chunk and shares no byte with another, for every width of an         *)
(* address, every header and every placement of the chunks.                 *)
THEOREM ArenaSafe == ArenaSpec => []AllocationsApart
<1>1. ArenaSpec => []ArenaInv
  BY ArenaStart, ArenaStep, PTL DEF ArenaSpec
<1> QED BY <1>1, ArenaInvSound, PTL
-----------------------------------------------------------------------------
(* The intern pool.                                                        *)

LEMMA PoolConstants ==
  /\ \A s \in Strings : s.len \in Nat /\ Hash[s] \in Nat
  /\ \A s, t \in Strings : s.len = t.len /\ s.id = t.id => s = t
  /\ InitialCap \in Nat /\ InitialCap > 1 /\ MaxCap \in Nat
BY InternConstants, ConstantsTyped
-----------------------------------------------------------------------------
(* Probing.                                                                *)
Bucket == [key : Nat, len : Nat]
Table(cap) == [1..cap -> Bucket]
Full(table) == {i \in DOMAIN table : table[i] # Empty}

\* A probe for this hash passes no empty bucket before it comes to i.
Reached(table, i, hash) ==
  \E k \in 0..Len(table) - 1 :
    /\ Probe(table, hash, k) = i
    /\ \A m \in 0..k - 1 : table[Probe(table, hash, m)] # Empty

LEMMA RemainderOnto ==
  ASSUME NEW cap \in Nat \ {0}, NEW h \in Nat, NEW j \in 0..cap - 1
  PROVE  \E k \in 0..cap - 1 : (h + k) % cap = j
<1> DEFINE q == h \div cap
           r == h % cap
<1>1. q \in Nat
  OBVIOUS
<1>2. r \in 0..cap - 1 /\ h = q * cap + r
  OBVIOUS
<1>3. \A x \in Nat : (x * cap + j) % cap = j
  OBVIOUS
<1>4. q * cap \in Nat /\ (q + 1) * cap = q * cap + cap
  <2> HIDE DEF q
  <2> QED BY <1>1
<1>5. (q * cap + j) % cap = j /\ (q * cap + cap + j) % cap = j
  <2> HIDE DEF q
  <2>1. q + 1 \in Nat
    BY <1>1
  <2>2. ((q + 1) * cap + j) % cap = j
    BY <1>3, <2>1
  <2> QED BY <1>1, <1>3, <1>4, <2>2
<1> DEFINE Q == q * cap
<1> HIDE DEF q, r, Q
<1>6. CASE j >= r
  <2>1. j - r \in 0..cap - 1 /\ h + (j - r) = Q + j
    BY <1>2, <1>4, <1>6 DEF Q
  <2> QED BY <1>5, <2>1 DEF Q
<1>7. CASE j < r
  <2>1. j - r + cap \in 0..cap - 1 /\ h + (j - r + cap) = Q + cap + j
    BY <1>2, <1>4, <1>7 DEF Q
  <2> QED BY <1>5, <2>1 DEF Q
<1> QED BY <1>2, <1>6, <1>7

LEMMA ProbeInRange ==
  ASSUME NEW cap \in Nat \ {0}, NEW table, Len(table) = cap, NEW hash \in Nat, NEW k \in Nat
  PROVE  Probe(table, hash, k) \in 1..cap
BY DEF Probe

LEMMA MinIsLeast ==
  ASSUME NEW S \in SUBSET Nat, S # {}
  PROVE  Min(S) \in S /\ \A y \in S : Min(S) <= y
BY LeastNumber DEF Min

LEMMA TableLen ==
  ASSUME NEW cap \in Nat, NEW table \in Table(cap)
  PROVE  Len(table) = cap /\ DOMAIN table = 1..cap /\ Full(table) \subseteq 1..cap
BY DEF Table, Full

(* A probe visits every bucket.                                            *)
LEMMA ProbeOnto ==
  ASSUME NEW cap \in Nat \ {0}, NEW table \in Table(cap), NEW hash \in Nat, NEW i \in DOMAIN table
  PROVE  \E k \in 0..cap - 1 : Probe(table, hash, k) = i
<1>1. i - 1 \in 0..cap - 1 /\ Len(table) = cap
  BY TableLen
<1>2. PICK k \in 0..cap - 1 : (hash + k) % cap = i - 1
  BY <1>1, RemainderOnto
<1>3. Probe(table, hash, k) = i - 1 + 1
  BY <1>1, <1>2, Zenon DEF Probe
<1> QED BY <1>1, <1>3

(* The first empty bucket of a probe is reached by it.                     *)
LEMMA FirstEmptyReached ==
  ASSUME NEW cap \in Nat \ {0}, NEW table \in Table(cap), NEW hash \in Nat,
         Full(table) # 1..cap
  PROVE  LET e == FirstEmpty(table, hash)
         IN  e \in 1..cap /\ table[e] = Empty /\ Reached(table, e, hash)
<1> DEFINE P(k) == Probe(table, hash, k)
           gaps == {k \in 0..Len(table) - 1 : table[Probe(table, hash, k)] = Empty}
           g    == Min(gaps)
<1>1. Len(table) = cap /\ DOMAIN table = 1..cap
  BY TableLen
<1>2. PICK i \in 1..cap : table[i] = Empty
  BY <1>1 DEF Full
<1>3. PICK k \in 0..cap - 1 : P(k) = i
  <2>1. i \in DOMAIN table
    BY <1>1, <1>2
  <2>2. \E k \in 0..cap - 1 : Probe(table, hash, k) = i
    BY <2>1, ProbeOnto
  <2> QED BY <2>2
<1>4. gaps \in SUBSET Nat /\ gaps # {}
  BY <1>1, <1>2, <1>3
<1>5. g \in gaps /\ \A k1 \in gaps : g <= k1
  <2> HIDE DEF gaps
  <2> QED BY <1>4, MinIsLeast
<1> HIDE DEF g
<1>6. g \in 0..cap - 1 /\ P(g) \in 1..cap /\ table[P(g)] = Empty
  BY <1>1, <1>5, ProbeInRange
<1>7. \A m \in 0..g - 1 : table[P(m)] # Empty
  BY <1>1, <1>5, <1>6
<1>8. FirstEmpty(table, hash) = P(g)
  BY DEF FirstEmpty, g
<1> HIDE DEF P
<1> QED BY <1>1, <1>6, <1>7, <1>8 DEF Reached, P

(* A bucket that fills leaves every bucket that was reached within reach.  *)
LEMMA FillKeepsReach ==
  ASSUME NEW cap \in Nat \ {0}, NEW table \in Table(cap), NEW e \in 1..cap, table[e] = Empty,
         NEW b \in Bucket, b # Empty,
         NEW i \in 1..cap, NEW hash \in Nat, Reached(table, i, hash)
  PROVE  Reached([table EXCEPT ![e] = b], i, hash)
<1> DEFINE new == [table EXCEPT ![e] = b]
<1>1. new \in Table(cap)
  BY DEF Table
<1>2. Len(table) = cap /\ Len(new) = cap
  BY <1>1, TableLen
<1>3. \A x \in 1..cap : table[x] # Empty => new[x] # Empty
  BY DEF Table
<1>4. PICK k \in 0..cap - 1 : /\ Probe(table, hash, k) = i
                              /\ \A m \in 0..k - 1 : table[Probe(table, hash, m)] # Empty
  BY <1>2 DEF Reached
<1>5. \A m \in Nat : Probe(new, hash, m) = Probe(table, hash, m) /\ Probe(table, hash, m) \in 1..cap
  <2> HIDE DEF new
  <2> QED BY <1>2, ProbeInRange DEF Probe
<1> HIDE DEF new
<1>6. \A m \in 0..k - 1 : new[Probe(new, hash, m)] # Empty
  BY <1>3, <1>4, <1>5
<1>7. Probe(new, hash, k) = i
  BY <1>4, <1>5
<1>8. Reached(new, i, hash)
  BY <1>2, <1>6, <1>7 DEF Reached
<1> QED BY <1>8 DEF new
-----------------------------------------------------------------------------
(* What a table is for: a bucket for each string of txt, where its probe   *)
(* comes by.                                                               *)
TextOK(txt) == DOMAIN txt \subseteq Nat \ {0} /\ \A a \in DOMAIN txt : txt[a] \in Strings

TableOK(table, txt) ==
  /\ \A i \in Full(table) : table[i].key \in DOMAIN txt /\ table[i].len = txt[table[i].key].len
  /\ \A i, j \in Full(table) : txt[table[i].key] = txt[table[j].key] => i = j
  /\ \A i \in Full(table) : Reached(table, i, Hash[txt[table[i].key]])
  /\ \A a \in DOMAIN txt : \E i \in Full(table) : table[i].key = a

\* The table that has taken the first i buckets of another one.
Upto(table, i) == {j \in Full(table) : j <= i}
Took(new, table, i) ==
  /\ \A x \in Full(new) : \E j \in Upto(table, i) : new[x] = table[j]
  /\ \A j \in Upto(table, i) : \E x \in Full(new) : new[x] = table[j]
  /\ \A x, y \in Full(new) : new[x] = new[y] => x = y
  /\ \A x \in Full(new) : Reached(new, x, Hash[text[new[x].key]])
  /\ Cardinality(Full(new)) = Cardinality(Upto(table, i))

LEMMA UptoCount ==
  ASSUME NEW n \in Nat, NEW table \in Table(n), NEW i \in 0..n
  PROVE  /\ IsFiniteSet(Upto(table, i)) /\ Cardinality(Upto(table, i)) \in 0..i
         /\ Upto(table, 0) = {} /\ Upto(table, n) = Full(table)
<1>1. Upto(table, i) \subseteq 1..i
  BY TableLen DEF Upto
<1>2. IsFiniteSet(1..i) /\ Cardinality(1..i) = i
  BY FS_Interval
<1>3. IsFiniteSet(Upto(table, i)) /\ Cardinality(Upto(table, i)) <= i
  BY <1>1, <1>2, FS_Subset
<1>4. Cardinality(Upto(table, i)) \in Nat
  BY <1>3, FS_CardinalityType
<1>5. Upto(table, 0) = {} /\ Upto(table, n) = Full(table)
  BY TableLen DEF Upto
<1> QED BY <1>3, <1>4, <1>5

(* A table with fewer keys than buckets has an empty bucket.               *)
LEMMA RoomLeft ==
  ASSUME NEW cap \in Nat, NEW table \in Table(cap), Cardinality(Full(table)) < cap
  PROVE  Full(table) # 1..cap
<1>1. Cardinality(1..cap) = cap
  BY FS_Interval
<1> QED BY <1>1

(* intern_put of one more bucket.                                          *)
LEMMA PutOne ==
  ASSUME NEW n \in Nat \ {0}, NEW cap \in Nat, cap = 2 * n,
         NEW table \in Table(n), TextOK(text), TableOK(table, text),
         NEW i \in 1..n, NEW new \in Table(cap), Took(new, table, i - 1)
  PROVE  LET next == IF table[i] = Empty THEN new
                     ELSE [new EXCEPT ![FirstEmpty(new, Hash[text[table[i].key]])] = table[i]]
         IN  next \in Table(cap) /\ Took(next, table, i)
<1> DEFINE e == FirstEmpty(new, Hash[text[table[i].key]])
           b == table[i]
           put == [new EXCEPT ![e] = b]
<1>1. DOMAIN table = 1..n /\ Full(table) \subseteq 1..n /\ b \in Bucket
  BY TableLen DEF Table
<1>2. CASE b = Empty
  <2>1. Upto(table, i) = Upto(table, i - 1)
    BY <1>1, <1>2 DEF Upto, Full
  <2> QED BY <1>2, <2>1 DEF Took
<1>3. CASE b # Empty
  <2> DEFINE hash == Hash[text[b.key]]
  <2>1. hash \in Nat
    BY <1>1, <1>3, PoolConstants DEF Full, TableOK, TextOK
  <2>2. /\ Upto(table, i) = Upto(table, i - 1) \cup {i} /\ i \notin Upto(table, i - 1)
        /\ Upto(table, i - 1) \subseteq Full(table) /\ i \in Full(table)
    BY <1>1, <1>3 DEF Upto, Full
  <2>3. IsFiniteSet(Upto(table, i - 1)) /\ Cardinality(Upto(table, i - 1)) \in 0..i - 1
    <3>1. i - 1 \in 0..n
      OBVIOUS
    <3> QED BY <3>1, UptoCount
  <2>4. Full(new) # 1..cap
    <3>1. Cardinality(Full(new)) < cap
      BY <2>3 DEF Took
    <3> QED BY <3>1, RoomLeft
  <2>5. e \in 1..cap /\ new[e] = Empty /\ Reached(new, e, hash)
    <3>1. cap \in Nat \ {0}
      OBVIOUS
    <3> QED BY <2>1, <2>4, <3>1, FirstEmptyReached
  <2> HIDE DEF e, hash, b
  <2>6. /\ put \in Table(cap) /\ put[e] = b
        /\ \A x \in 1..cap : x # e => put[x] = new[x]
    BY <1>1, <2>5 DEF Table
  <2>7. DOMAIN new = 1..cap /\ DOMAIN put = 1..cap
    BY <2>6, TableLen
  <2> HIDE DEF put
  <2>8. Full(put) = Full(new) \cup {e} /\ e \notin Full(new)
    BY <1>3, <2>5, <2>6, <2>7 DEF Full
  <2>9. \A x \in Full(put) : \E j \in Upto(table, i) : put[x] = table[j]
    <3> TAKE x \in Full(put)
    <3>1. CASE x = e
      BY <2>2, <2>6, <3>1 DEF b
    <3>2. CASE x # e
      BY <2>2, <2>6, <2>7, <2>8, <3>2 DEF Took, Full
    <3> QED BY <3>1, <3>2
  <2>10. \A j \in Upto(table, i) : \E x \in Full(put) : put[x] = table[j]
    <3> TAKE j \in Upto(table, i)
    <3>1. CASE j = i
      BY <2>6, <2>8, <3>1 DEF b
    <3>2. CASE j # i
      <4>1. PICK x \in Full(new) : new[x] = table[j]
        BY <2>2, <3>2 DEF Took
      <4> QED BY <2>6, <2>7, <2>8, <4>1 DEF Full
    <3> QED BY <3>1, <3>2
  \* No bucket of new holds this key: table holds it once, at i.
  <2>11. \A x \in Full(new) : new[x] # b
    <3> SUFFICES ASSUME NEW x \in Full(new), new[x] = b PROVE FALSE
      OBVIOUS
    <3>1. PICK j \in Upto(table, i - 1) : new[x] = table[j]
      BY DEF Took
    <3>2. j \in Full(table) /\ table[j] = table[i] /\ j # i
      BY <2>2, <3>1 DEF b
    <3> QED BY <2>2, <3>2 DEF TableOK
  <2>12. \A x, y \in Full(put) : put[x] = put[y] => x = y
    <3> SUFFICES ASSUME NEW x \in Full(put), NEW y \in Full(put), put[x] = put[y]
                 PROVE  x = y
      OBVIOUS
    <3>1. CASE x \in Full(new) /\ y \in Full(new)
      BY <2>6, <2>7, <2>8, <3>1 DEF Took, Full
    <3>2. CASE x = e \/ y = e
      BY <2>6, <2>7, <2>8, <2>11, <3>2 DEF Full
    <3> QED BY <2>8, <3>1, <3>2
  <2>13. \A x \in Full(put) : Reached(put, x, Hash[text[put[x].key]])
    <3> TAKE x \in Full(put)
    <3> DEFINE h == Hash[text[put[x].key]]
    <3>1. Reached(new, x, h)
      BY <2>5, <2>6, <2>7, <2>8 DEF Took, Full, hash
    <3>2. PICK j \in Full(table) : put[x] = table[j]
      BY <2>9 DEF Upto
    <3>3. h \in Nat
      BY <3>2, PoolConstants DEF TableOK, TextOK
    <3>4. x \in 1..cap /\ cap \in Nat \ {0}
      BY <2>7 DEF Full
    <3> HIDE DEF h
    <3>5. Reached(put, x, h)
      BY <1>1, <1>3, <2>5, <3>1, <3>3, <3>4, FillKeepsReach DEF put, b
    <3> QED BY <3>5 DEF h
  <2>14. Cardinality(Full(put)) = Cardinality(Upto(table, i))
    <3>1. IsFiniteSet(Full(new))
      <4>1. Full(new) \subseteq 1..cap
        BY <2>7 DEF Full
      <4>2. IsFiniteSet(1..cap)
        BY FS_Interval
      <4> QED BY <4>1, <4>2, FS_Subset
    <3>2. Cardinality(Full(put)) = Cardinality(Full(new)) + 1
      BY <2>8, <3>1, FS_AddElement
    <3>3. Cardinality(Upto(table, i)) = Cardinality(Upto(table, i - 1)) + 1
      BY <2>2, <2>3, FS_AddElement
    <3> QED BY <3>2, <3>3 DEF Took
  <2>15. put \in Table(cap) /\ Took(put, table, i)
    BY <2>6, <2>9, <2>10, <2>12, <2>13, <2>14 DEF Took
  <2> QED BY <1>3, <2>15 DEF put, e, b
<1> QED BY <1>2, <1>3

(* intern_grow: the table of twice the size holds the same buckets, each   *)
(* where its probe comes by.                                               *)
LEMMA RehashOK ==
  ASSUME NEW n \in Nat \ {0}, NEW table \in Table(n), TextOK(text), TableOK(table, text)
  PROVE  /\ Rehash(table, 2 * n) \in Table(2 * n)
         /\ TableOK(Rehash(table, 2 * n), text)
         /\ Cardinality(Full(Rehash(table, 2 * n))) = Cardinality(Full(table))
<1> DEFINE cap  == 2 * n
           base == [k \in 1..cap |-> Empty]
           Put(i, t) == IF table[i] = Empty THEN t
                        ELSE [t EXCEPT ![FirstEmpty(t, Hash[text[table[i].key]])] = table[i]]
           step == [i \in 1..n |-> [t \in Table(cap) |-> Put(i, t)]]
           Moved(f) == f = [i \in 0..Len(table) |-> IF i = 0 THEN base ELSE Put(i, f[i - 1])]
           moved == CHOOSE f : Moved(f)
<1>1. cap \in Nat /\ Len(table) = n /\ DOMAIN table = 1..n
  BY TableLen
<1>2. base \in Table(cap)
  BY DEF Table, Bucket, Empty, Null
<1>3. \A i \in 1..n, t \in Table(cap) : Put(i, t) \in Table(cap)
  BY <1>1 DEF Table
<1>4. step \in [1..n -> [Table(cap) -> Table(cap)]]
  <2> HIDE DEF Put
  <2> QED BY <1>3
<1>5. moved[0] = base /\ \A i \in 1..n : moved[i] = Put(i, moved[i - 1])
  <2>1. PICK f : Follows(f, Table(cap), n, base, step)
    <3>1. n \in Nat /\ StaysIn(Table(cap), n, base, step)
      BY <1>2, <1>4 DEF StaysIn
    <3> HIDE DEF base, step, cap
    <3> QED BY <3>1, RecursionExists
  <2>2. f \in [0..n -> Table(cap)] /\ \A i \in 1..n : f[i - 1] \in Table(cap)
    BY <2>1 DEF Follows
  <2>3. f = [i \in 0..Len(table) |-> IF i = 0 THEN base ELSE Put(i, f[i - 1])]
    <3> HIDE DEF Put, base, cap
    <3>1. \A i \in 1..n : step[i][f[i - 1]] = Put(i, f[i - 1])
      BY <2>2
    <3> HIDE DEF step
    <3> QED BY <1>1, <2>1, <3>1 DEF Follows
  <2>4. Moved(f)
    <3> HIDE DEF Put, base, cap
    <3> QED BY <2>3
  <2>5. Moved(moved)
    <3> HIDE DEF Moved
    <3> QED BY <2>4
  <2> HIDE DEF Put, base, cap, moved
  <2> QED BY <1>1, <2>5
<1>6. Rehash(table, cap) = moved[n]
  BY <1>1 DEF Rehash
<1> HIDE DEF moved
<1> DEFINE S == {i \in 0..n : moved[i] \in Table(cap) /\ Took(moved[i], table, i)}
<1>7. 0 \in S
  <2>1. Full(base) = {}
    BY DEF Full
  <2>2. Upto(table, 0) = {}
    BY <1>1 DEF Upto, Full
  <2> HIDE DEF base
  <2>3. Took(base, table, 0)
    BY <2>1, <2>2 DEF Took
  <2> QED BY <1>2, <1>5, <2>3
<1>8. ASSUME NEW i \in 0..n - 1, i \in S PROVE i + 1 \in S
  <2>1. i + 1 \in 1..n /\ i + 1 - 1 = i
    OBVIOUS
  <2>2. moved[i + 1] = Put(i + 1, moved[i]) /\ moved[i] \in Table(cap) /\ Took(moved[i], table, i)
    BY <1>5, <1>8, <2>1
  <2>3. Put(i + 1, moved[i]) \in Table(cap) /\ Took(Put(i + 1, moved[i]), table, i + 1)
    BY <2>1, <2>2, PutOne
  <2> QED BY <2>1, <2>2, <2>3
<1>9. n \in S
  <2> HIDE DEF S
  <2>1. 0..n \subseteq S
    BY <1>7, <1>8, BoundedInduction
  <2> QED BY <2>1
<1> DEFINE new == Rehash(table, cap)
<1>10. new \in Table(cap) /\ Took(new, table, n) /\ Upto(table, n) = Full(table)
  BY <1>6, <1>9, UptoCount
<1> HIDE DEF new
<1>11. TableOK(new, text)
  BY <1>10 DEF Took, TableOK
<1> QED BY <1>10, <1>11 DEF Took, new

(* A probe ends at the bucket of its string, or at an empty one if and     *)
(* only if the string has none.                                            *)
LEMMA StopOK ==
  ASSUME NEW cap \in Nat \ {0}, NEW table \in Table(cap), Full(table) # 1..cap,
         TextOK(text), TableOK(table, text), NEW s \in Strings
  PROVE  LET i == Stop(table, s)
         IN  /\ i \in 1..cap
             /\ table[i] = Empty => /\ \A a \in DOMAIN text : text[a] # s
                                   /\ Reached(table, i, Hash[s])
             /\ table[i] # Empty => text[table[i].key] = s
<1> DEFINE P(k) == Probe(table, Hash[s], k)
           ends == {k \in 0..Len(table) - 1 :
                      LET slot == table[Probe(table, Hash[s], k)] IN slot = Empty \/ Same(slot, s)}
           g    == Min(ends)
           i    == P(g)
<1>1. Len(table) = cap /\ DOMAIN table = 1..cap
  BY TableLen
<1>0. Hash[s] \in Nat
  BY PoolConstants
<1>2. PICK x \in 1..cap : table[x] = Empty
  BY <1>1 DEF Full
<1>3. PICK k \in 0..cap - 1 : P(k) = x
  <2>1. x \in DOMAIN table
    BY <1>1
  <2>2. \E k \in 0..cap - 1 : Probe(table, Hash[s], k) = x
    BY <1>0, <2>1, ProbeOnto
  <2> QED BY <2>2
<1>4. ends \in SUBSET Nat /\ ends # {}
  BY <1>1, <1>2, <1>3
<1>5. g \in ends /\ \A k1 \in ends : g <= k1
  <2> HIDE DEF ends
  <2> QED BY <1>4, MinIsLeast
<1>6. Stop(table, s) = i
  BY DEF Stop
<1> HIDE DEF g
<1>7. g \in 0..cap - 1 /\ i \in 1..cap
  <2>1. g \in 0..cap - 1 /\ g \in Nat /\ Len(table) = cap
    BY <1>1, <1>5
  <2> QED BY <1>0, <2>1, ProbeInRange
<1>8. table[i] = Empty \/ Same(table[i], s)
  BY <1>5
<1>9. \A m \in 0..g - 1 : table[P(m)] # Empty
  BY <1>1, <1>5, <1>7
<1>10. ASSUME table[i] = Empty PROVE Reached(table, i, Hash[s]) /\ \A a \in DOMAIN text : text[a] # s
  <2>1. Reached(table, i, Hash[s])
    BY <1>1, <1>7, <1>9 DEF Reached
  <2>2. ASSUME NEW a \in DOMAIN text, text[a] = s PROVE FALSE
    <3>1. PICK j \in Full(table) : table[j].key = a
      BY DEF TableOK
    <3>2. table[j] # Empty /\ Same(table[j], s) /\ Reached(table, j, Hash[s])
      BY <2>2, <3>1 DEF TableOK, Full, Same
    <3>3. PICK n \in 0..cap - 1 : P(n) = j /\ \A m \in 0..n - 1 : table[P(m)] # Empty
      BY <1>1, <3>2 DEF Reached
    <3>4. n \in ends
      BY <1>1, <3>2, <3>3
    <3>5. g <= n
      BY <1>5, <3>4
    <3>6. CASE g = n
      BY <1>10, <3>2, <3>3, <3>6
    <3>7. CASE g < n
      BY <1>7, <1>10, <3>3, <3>7
    <3> QED BY <1>7, <3>3, <3>5, <3>6, <3>7
  <2> QED BY <2>1, <2>2
<1>11. ASSUME table[i] # Empty PROVE text[table[i].key] = s
  <2>1. Same(table[i], s) /\ i \in Full(table)
    BY <1>1, <1>7, <1>8, <1>11 DEF Full
  <2>2. table[i].key \in DOMAIN text /\ table[i].len = text[table[i].key].len
    BY <2>1 DEF TableOK
  <2> QED BY <2>1, <2>2, PoolConstants DEF Same, TextOK
<1> HIDE DEF P
<1> QED BY <1>6, <1>7, <1>10, <1>11

\* The text once s has been copied to p.
WithText(p, s) == [a \in DOMAIN text \cup {p} |-> IF a = p THEN s ELSE text[a]]

(* A new string goes where its probe ended.                                *)
LEMMA InsertOK ==
  ASSUME NEW cap \in Nat \ {0}, NEW table \in Table(cap), TextOK(text), TableOK(table, text),
         NEW s \in Strings, \A a \in DOMAIN text : text[a] # s,
         NEW i \in DOMAIN table, table[i] = Empty, Reached(table, i, Hash[s]),
         NEW p \in Nat \ {0}, p \notin DOMAIN text
  PROVE  LET new == [table EXCEPT ![i] = [key |-> p, len |-> s.len]]
             txt == WithText(p, s)
         IN  /\ new \in Table(cap) /\ TextOK(txt) /\ TableOK(new, txt)
             /\ Cardinality(Full(new)) = Cardinality(Full(table)) + 1
<1> DEFINE b   == [key |-> p, len |-> s.len]
           new == [table EXCEPT ![i] = b]
           txt == WithText(p, s)
<1>1. b \in Bucket /\ b # Empty /\ b.key = p /\ b.len = s.len
  BY PoolConstants DEF Bucket, Empty, Null
<1> HIDE DEF b
<1>0. i \in 1..cap
  BY TableLen
<1>2. new \in Table(cap) /\ new[i] = b /\ \A x \in 1..cap : x # i => new[x] = table[x]
  BY <1>0, <1>1 DEF Table
<1>3. DOMAIN table = 1..cap /\ DOMAIN new = 1..cap
  BY <1>2, TableLen
<1>4. Full(new) = Full(table) \cup {i} /\ i \notin Full(table)
  BY <1>0, <1>1, <1>2, <1>3 DEF Full
<1>5. /\ DOMAIN txt = DOMAIN text \cup {p} /\ txt[p] = s
      /\ \A a \in DOMAIN text : txt[a] = text[a]
  BY DEF WithText
<1> HIDE DEF new, txt
<1>6. TextOK(txt)
  BY <1>5 DEF TextOK
<1>7. \A x \in Full(new) : /\ new[x].key \in DOMAIN txt /\ new[x].len = txt[new[x].key].len
                           /\ x # i => new[x] = table[x] /\ x \in Full(table)
                                       /\ txt[new[x].key] = text[table[x].key]
                           /\ x = i => txt[new[x].key] = s
  BY <1>1, <1>2, <1>3, <1>4, <1>5 DEF TableOK, Full
<1>8. \A x, y \in Full(new) : txt[new[x].key] = txt[new[y].key] => x = y
  <2> SUFFICES ASSUME NEW x \in Full(new), NEW y \in Full(new), txt[new[x].key] = txt[new[y].key]
               PROVE  x = y
    OBVIOUS
  <2>1. CASE x # i /\ y # i
    BY <1>7, <2>1 DEF TableOK
  <2>2. CASE x = i \/ y = i
    BY <1>7, <2>2 DEF TableOK
  <2> QED BY <2>1, <2>2
<1>9. \A x \in Full(new) : Reached(new, x, Hash[txt[new[x].key]])
  <2> TAKE x \in Full(new)
  <2> DEFINE h == Hash[txt[new[x].key]]
  <2>1. h \in Nat
    BY <1>6, <1>7, PoolConstants DEF TextOK
  <2>2. Reached(table, x, h)
    BY <1>7 DEF TableOK
  <2>3. x \in 1..cap
    BY <1>3 DEF Full
  <2> HIDE DEF h
  <2>4. Reached(new, x, h)
    BY <1>0, <1>1, <2>1, <2>2, <2>3, FillKeepsReach DEF new
  <2> QED BY <2>4 DEF h
<1>10. \A a \in DOMAIN txt : \E x \in Full(new) : new[x].key = a
  <2> TAKE a \in DOMAIN txt
  <2>1. CASE a = p
    BY <1>1, <1>2, <1>4, <2>1
  <2>2. CASE a # p
    <3>1. PICK x \in Full(table) : table[x].key = a
      BY <1>5, <2>2 DEF TableOK
    <3> QED BY <1>4, <1>7, <3>1
  <2> QED BY <2>1, <2>2
<1>11. Cardinality(Full(new)) = Cardinality(Full(table)) + 1
  <2>1. Full(table) \subseteq 1..cap
    BY <1>3 DEF Full
  <2>2. IsFiniteSet(1..cap)
    BY FS_Interval
  <2>3. IsFiniteSet(Full(table))
    BY <2>1, <2>2, FS_Subset
  <2> QED BY <1>4, <2>3, FS_AddElement
<1>12. TableOK(new, txt)
  BY <1>7, <1>8, <1>9, <1>10 DEF TableOK
<1> QED BY <1>2, <1>6, <1>11, <1>12 DEF new, txt, b
-----------------------------------------------------------------------------
(* The inductive invariant of the pool over its arena.                     *)
TableLive(table) ==
  /\ Len(table) \in Nat /\ Len(table) > 1
  /\ table \in Table(Len(table))
  /\ TableOK(table, text)

PoolInv ==
  /\ ArenaInv
  /\ user \in {"pool", "client"}
  /\ Live => user = "pool" /\ chunks # <<>>
  /\ TextOK(text)
  /\ \A a \in DOMAIN text : \E i \in DOMAIN allocs : allocs[i].at = a /\ allocs[i].size > 0
  /\ ~Live => count = 0 /\ text = <<>>
  /\ Live => /\ TableLive(slots)
             /\ count = Cardinality(Full(slots))
             /\ count * 4 <= Cap * 3
  /\ answer = <<>> \/ (answer[1] \in Strings /\ answer[2] \in 0..MaxAddr)

LEMMA FullCount ==
  ASSUME NEW cap \in Nat, NEW table \in Table(cap)
  PROVE  Cardinality(Full(table)) \in Nat
<1>1. Full(table) \subseteq 1..cap
  BY TableLen
<1>2. IsFiniteSet(1..cap)
  BY FS_Interval
<1> QED BY <1>1, <1>2, FS_Subset, FS_CardinalityType

(* However intern_grow ends, a table that it leaves has room for one more. *)
LEMMA GrownOK ==
  ASSUME PoolInv, Live, NEW table \in Grown, table # <<>>
  PROVE  TableLive(table) /\ Cardinality(Full(table)) = count /\ count \in Nat
         /\ (count + 1) * 4 <= Len(table) * 3 /\ Full(table) # 1..Len(table)
<1>1. TableLive(slots) /\ count = Cardinality(Full(slots)) /\ count * 4 <= Cap * 3
  BY DEF PoolInv
<1>2. Cap \in Nat \ {0} /\ Cap > 1 /\ slots \in Table(Cap) /\ TableOK(slots, text) /\ count \in Nat
  BY <1>1, FullCount DEF TableLive, Cap
<1>3. TableLive(table) /\ Cardinality(Full(table)) = count /\ (count + 1) * 4 <= Len(table) * 3
  <2>1. CASE ~TooFull
    BY <1>1, <1>2, <2>1 DEF Grown, TooFull, Cap
  <2>2. CASE TooFull
    <3>1. table = Rehash(slots, 2 * Cap)
      BY <2>2 DEF Grown
    <3>2. /\ table \in Table(2 * Cap) /\ TableOK(table, text)
          /\ Cardinality(Full(table)) = Cardinality(Full(slots))
      BY <1>2, <3>1, RehashOK DEF PoolInv
    <3>3. Len(table) = 2 * Cap
      BY <1>2, <3>2, TableLen
    <3> QED BY <1>1, <1>2, <3>2, <3>3 DEF TableLive
  <2> QED BY <2>1, <2>2
<1>4. Cardinality(Full(table)) < Len(table)
  BY <1>2, <1>3 DEF TableLive
<1>5. Full(table) # 1..Len(table)
  BY <1>3, <1>4, RoomLeft DEF TableLive
<1> QED BY <1>2, <1>3, <1>5

LEMMA PoolStart == Init => PoolInv
<1> SUFFICES ASSUME Init PROVE PoolInv
  OBVIOUS
<1>1. ArenaInv
  BY ArenaStart DEF Init
<1> QED BY <1>1 DEF Init, PoolInv, TextOK, Live

LEMMA NewPoolOK == PoolInv /\ NewPool => PoolInv'
<1> SUFFICES ASSUME PoolInv, NewPool PROVE PoolInv'
  OBVIOUS
<1>1. CASE InitArena(0) /\ chunks' # <<>> /\ slots' = [k \in 1..InitialCap |-> Empty]
  <2>1. ArenaInv' /\ allocs' = <<>>
    BY <1>1, InitArenaOK
  <2>2. slots' \in Table(InitialCap)
    BY <1>1, PoolConstants DEF Table, Bucket, Empty, Null
  <2>3. Len(slots') = InitialCap /\ DOMAIN slots' = 1..InitialCap
    BY <2>2, PoolConstants, TableLen
  <2>4. Full(slots') = {}
    BY <1>1, <2>3 DEF Full
  <2>5. Cardinality(Full(slots')) = 0
    BY <2>4, FS_EmptySet
  <2>6. text' = <<>> /\ count' = 0 /\ answer' = <<>> /\ user' = "pool"
    BY DEF NewPool, PoolInv
  <2>7. TableOK(slots', text')
    BY <2>4, <2>6 DEF TableOK
  <2>8. TableLive(slots)'
    BY <2>2, <2>3, <2>7, PoolConstants DEF TableLive
  <2>9. TextOK(text')
    BY <2>6 DEF TextOK
  <2>10. count' * 4 <= Cap' * 3
    BY <2>3, <2>6, PoolConstants DEF Cap
  <2> QED BY <1>1, <2>1, <2>3, <2>5, <2>6, <2>8, <2>9, <2>10, PoolConstants DEF PoolInv, Live
<1>2. CASE FreeArena /\ UNCHANGED slots
  <2>1. ArenaInv'
    BY <1>2, FreeArenaOK
  <2>2. text' = <<>> /\ count' = 0 /\ answer' = <<>> /\ user' = user /\ slots' = <<>>
    BY <1>2 DEF NewPool, Live
  <2> QED BY <2>1, <2>2 DEF PoolInv, TextOK, Live
<1> QED BY <1>1, <1>2 DEF NewPool

LEMMA FreePoolOK == PoolInv /\ FreePool => PoolInv'
<1> SUFFICES ASSUME PoolInv, FreePool PROVE PoolInv'
  OBVIOUS
<1>1. ArenaInv'
  BY FreeArenaOK DEF FreePool
<1> QED BY <1>1 DEF FreePool, PoolInv, TextOK, Live

LEMMA ClientStepOK == PoolInv /\ ClientStep => PoolInv'
<1> SUFFICES ASSUME PoolInv, ClientStep PROVE PoolInv'
  OBVIOUS
<1>1. ArenaInv'
  BY ArenaStep DEF ClientStep, PoolInv
<1>2. ~Live /\ UNCHANGED <<user, slots, count, text, answer>>
  BY DEF ClientStep, PoolInv, poolVars
<1> QED BY <1>1, <1>2 DEF PoolInv, TextOK, Live

(* A fresh copy is at an address that no string in use has.                *)
LEMMA FreshAddress ==
  ASSUME PoolInv, NEW o, NEW size \in Nat \ {0}, NEW align, OutcomeOK(o, size, align), o.p # 0,
         NEW a \in DOMAIN text
  PROVE  o.p # a /\ \E i \in DOMAIN o.allocs : o.allocs[i].at = a /\ o.allocs[i].size > 0
<1> DEFINE new == [at |-> o.p, size |-> size, align |-> align]
           k   == Len(allocs) + 1
<1>1. allocs \in Seq(AllocType) /\ o.allocs = Append(allocs, new) /\ AllocsOK(o.chunks, o.allocs)
  BY DEF PoolInv, ArenaInv, AllocsOK, OutcomeOK
<1>2. /\ DOMAIN o.allocs = 1..k /\ o.allocs[k] = new /\ DOMAIN allocs = 1..k - 1
      /\ \A i \in 1..k - 1 : o.allocs[i] = allocs[i] /\ allocs[i] \in AllocType
      /\ k \in Nat
  BY <1>1
<1>3. PICK i \in 1..k - 1 : allocs[i].at = a /\ allocs[i].size > 0
  BY <1>2 DEF PoolInv
<1>4. Apart(o.allocs[i], o.allocs[k])
  BY <1>1, <1>2, <1>3 DEF AllocsOK
<1>5. new.at = o.p /\ new.size = size
  OBVIOUS
<1>6. allocs[i].at \in Nat /\ allocs[i].size \in Nat
  BY <1>2 DEF AllocType
<1>7. o.p \in Nat
  BY ConstantsTyped DEF OutcomeOK
<1> HIDE DEF new
<1>8. a # o.p
  BY <1>2, <1>3, <1>4, <1>5, <1>6, <1>7 DEF Apart
<1> QED BY <1>2, <1>3, <1>8

\* What a call may do to the strings in use: nothing, or add s.
Answered(s) ==
  \/ answer' = <<s, Null>> /\ text' = text
  \/ /\ text' = text
     /\ \E a \in DOMAIN text : text[a] = s /\ answer' = <<s, a>>
  \/ /\ \A a \in DOMAIN text : text[a] # s
     /\ \E p \in Nat \ {0} : p \notin DOMAIN text /\ text' = WithText(p, s) /\ answer' = <<s, p>>

(* kavak_intern keeps the table and its arena in order, whichever of its    *)
(* allocations fails.                                                      *)
LEMMA InternOK ==
  ASSUME PoolInv, NEW s \in Strings, Intern(s)
  PROVE  PoolInv' /\ Answered(s)
<1>1. Live /\ UNCHANGED <<user, chunkSize>>
  BY DEF Intern
<1>2. PICK table \in Grown :
        LET i == Stop(table, s)
        IN  \/ /\ table = <<>>
               /\ answer' = <<s, Null>>
               /\ UNCHANGED <<arenaVars, slots, count, text>>
            \/ /\ table # <<>> /\ table[i] # Empty
               /\ answer' = <<s, table[i].key>> /\ slots' = table
               /\ UNCHANGED <<arenaVars, count, text>>
            \/ /\ table # <<>> /\ table[i] = Empty
               /\ \E o \in Alloc(s.len + 1, DefaultAlign) :
                    /\ Becomes(o)
                    /\ answer' = <<s, o.p>>
                    /\ IF o.p = Null THEN slots' = table /\ UNCHANGED <<count, text>>
                       ELSE /\ slots' = [table EXCEPT ![i] = [key |-> o.p, len |-> s.len]]
                            /\ count' = count + 1
                            /\ text' = WithText(o.p, s)
  BY DEF Intern, WithText
<1> DEFINE i == Stop(table, s)
<1>3. CASE table = <<>> /\ answer' = <<s, Null>> /\ UNCHANGED <<arenaVars, slots, count, text>>
  <2>1. ArenaInv'
    BY <1>3, ArenaStep DEF PoolInv
  <2> QED BY <1>1, <1>3, <2>1, ConstantsTyped
          DEF PoolInv, TextOK, TableLive, TableOK, Live, Cap, arenaVars, Answered, Null
<1>4. CASE table # <<>>
  <2> DEFINE cap == Len(table)
  <2>1. /\ TableLive(table) /\ Cardinality(Full(table)) = count /\ count \in Nat
        /\ (count + 1) * 4 <= cap * 3 /\ Full(table) # 1..cap
    BY <1>1, <1>4, GrownOK
  <2>2. cap \in Nat \ {0} /\ cap > 1 /\ table \in Table(cap) /\ TableOK(table, text) /\ TextOK(text)
    BY <2>1 DEF TableLive, PoolInv
  <2>3. /\ i \in 1..cap
        /\ table[i] = Empty => (\A a \in DOMAIN text : text[a] # s) /\ Reached(table, i, Hash[s])
        /\ table[i] # Empty => text[table[i].key] = s
    BY <2>1, <2>2, StopOK
  <2> HIDE DEF i, cap
  <2>4. DOMAIN table = 1..cap
    BY <2>2, TableLen
  <2>5. user = "pool" /\ chunks # <<>> /\ user' = user
    BY <1>1 DEF PoolInv
  <2>6. ASSUME slots' = table, count' = count, text' = text, ArenaInv', chunks' # <<>>,
               \A a \in DOMAIN text : \E x \in DOMAIN allocs' : allocs'[x].at = a /\ allocs'[x].size > 0,
               answer'[1] \in Strings, answer'[2] \in 0..MaxAddr
        PROVE  PoolInv'
    <3>1. TableLive(slots)'
      BY <2>1, <2>6 DEF TableLive, TableOK
    <3>2. TextOK(text')
      BY <2>2, <2>6 DEF TextOK
    <3>3. count' = Cardinality(Full(slots'))
      BY <2>1, <2>6
    <3>4. count' * 4 <= Cap' * 3 /\ slots' # <<>>
      BY <1>4, <2>1, <2>2, <2>6 DEF Cap, cap
    <3> QED BY <2>5, <2>6, <3>1, <3>2, <3>3, <3>4 DEF PoolInv, Live
  <2>7. CASE table[i] # Empty /\ answer' = <<s, table[i].key>> /\ slots' = table
             /\ UNCHANGED <<arenaVars, count, text>>
    <3>1. ArenaInv' /\ chunks' = chunks /\ allocs' = allocs
      BY <2>7, ArenaStep DEF PoolInv, arenaVars
    <3>2. i \in Full(table) /\ table[i].key \in DOMAIN text
      BY <2>2, <2>3, <2>4, <2>7 DEF Full, TableOK
    <3>3. table[i].key \in 0..MaxAddr
      <4>1. PICK x \in DOMAIN allocs : allocs[x].at = table[i].key
        BY <3>2 DEF PoolInv
      <4>2. allocs[x].at \in Nat /\ allocs[x].at <= MaxAddr
        <5>1. PICK c \in DOMAIN chunks : Inside(allocs[x], chunks[c])
          BY DEF PoolInv, ArenaInv, AllocsOK
        <5>2. allocs[x] \in AllocType /\ chunks[c] \in ChunkType
          BY DEF PoolInv, ArenaInv, AllocsOK, ChunksOK
        <5>3. chunks[c].used <= chunks[c].cap /\ chunks[c].at + chunks[c].cap <= MaxAddr
          BY DEF PoolInv, ArenaInv, ChunksOK
        <5> QED BY <5>1, <5>2, <5>3, ConstantsTyped DEF Inside, AllocType, ChunkType
      <4> QED BY <4>1, <4>2, ConstantsTyped
    <3>4. PoolInv'
      <4>1. \A a \in DOMAIN text : \E x \in DOMAIN allocs' : allocs'[x].at = a /\ allocs'[x].size > 0
        BY <3>1 DEF PoolInv
      <4>2. answer'[1] \in Strings /\ answer'[2] \in 0..MaxAddr
        BY <2>7, <3>3
      <4> QED BY <2>5, <2>6, <2>7, <3>1, <4>1, <4>2
    <3> QED BY <2>3, <2>7, <3>2, <3>4 DEF Answered
  <2>8. ASSUME table[i] = Empty, NEW o \in Alloc(s.len + 1, DefaultAlign),
               Becomes(o), answer' = <<s, o.p>>,
               IF o.p = Null THEN slots' = table /\ UNCHANGED <<count, text>>
               ELSE /\ slots' = [table EXCEPT ![i] = [key |-> o.p, len |-> s.len]]
                    /\ count' = count + 1
                    /\ text' = WithText(o.p, s)
        PROVE  PoolInv' /\ Answered(s)
    <3> DEFINE size  == s.len + 1
               align == Align(DefaultAlign)
    <3>1. size \in Nat \ {0} /\ DefaultAlign \in Nat
      BY PoolConstants, ConstantsTyped
    <3>2. OutcomeOK(o, size, align)
      BY <2>5, <2>8, <3>1, AllocOK DEF PoolInv
    <3> HIDE DEF align
    <3>3. ArenaInv' /\ chunks' # <<>> /\ allocs' = o.allocs
      BY <1>1, <2>8, <3>2, BecomesOK DEF PoolInv, Becomes, OutcomeOK
    <3>4. CASE o.p = Null
      <4>1. allocs' = allocs
        BY <3>2, <3>3, <3>4 DEF OutcomeOK, Null
      <4>2. PoolInv'
        BY <2>6, <2>8, <3>3, <3>4, <4>1, ConstantsTyped DEF PoolInv, Null
      <4> QED BY <2>8, <3>4, <4>2 DEF Answered, Null
    <3>5. CASE o.p # Null
      <4> DEFINE p == o.p
      <4>1. p \in 0..MaxAddr /\ p \in Nat \ {0}
        BY <3>2, <3>5, ConstantsTyped DEF OutcomeOK, Null
      <4>2. \A a \in DOMAIN text :
              p # a /\ \E x \in DOMAIN allocs' : allocs'[x].at = a /\ allocs'[x].size > 0
        BY <3>1, <3>2, <3>3, <4>1, FreshAddress
      <4>3. p \notin DOMAIN text
        BY <4>2
      <4>4. /\ slots' = [table EXCEPT ![i] = [key |-> p, len |-> s.len]]
            /\ text' = WithText(p, s) /\ count' = count + 1 /\ answer' = <<s, p>>
        BY <2>8, <3>5
      <4>5. \A a \in DOMAIN text : text[a] # s
        BY <2>3, <2>8
      <4>6. /\ slots' \in Table(cap) /\ TextOK(text') /\ TableOK(slots', text')
            /\ Cardinality(Full(slots')) = Cardinality(Full(table)) + 1
        <5> HIDE DEF p
        <5>1. i \in DOMAIN table /\ Reached(table, i, Hash[s]) /\ table[i] = Empty
          BY <2>3, <2>4, <2>8
        <5> DEFINE new == [table EXCEPT ![i] = [key |-> p, len |-> s.len]]
        <5>2. /\ new \in Table(cap) /\ TextOK(WithText(p, s)) /\ TableOK(new, WithText(p, s))
              /\ Cardinality(Full(new)) = Cardinality(Full(table)) + 1
          BY <2>2, <4>1, <4>3, <4>5, <5>1, InsertOK
        <5> QED BY <4>4, <5>2
      <4>7. Len(slots') = cap /\ slots' # <<>>
        BY <2>2, <4>6, TableLen
      <4>8. TableLive(slots)'
        BY <2>2, <4>6, <4>7 DEF TableLive
      <4>9. count' = Cardinality(Full(slots')) /\ count' * 4 <= Cap' * 3
        BY <2>1, <4>4, <4>6, <4>7 DEF Cap
      <4>10. \A a \in DOMAIN text' : \E x \in DOMAIN allocs' : allocs'[x].at = a /\ allocs'[x].size > 0
        <5> DEFINE new == [at |-> p, size |-> size, align |-> align]
                   k   == Len(allocs) + 1
        <5>1. allocs' = Append(allocs, new) /\ allocs \in Seq(AllocType) /\ new.at = p /\ new.size = size
          BY <3>2, <3>3, <4>1 DEF OutcomeOK, PoolInv, ArenaInv, AllocsOK
        <5> HIDE DEF new
        <5>2. k \in DOMAIN allocs' /\ allocs'[k].at = p /\ allocs'[k].size > 0
          BY <3>1, <5>1
        <5>3. DOMAIN text' = DOMAIN text \cup {p}
          BY <4>4 DEF WithText
        <5> HIDE DEF p, k
        <5> QED BY <4>2, <5>2, <5>3
      <4>11. answer'[1] \in Strings /\ answer'[2] \in 0..MaxAddr
        BY <4>1, <4>4
      <4>12. PoolInv'
        BY <2>5, <3>3, <4>6, <4>7, <4>8, <4>9, <4>10, <4>11 DEF PoolInv, Live
      <4> QED BY <4>1, <4>3, <4>4, <4>5, <4>12 DEF Answered
    <3> QED BY <3>4, <3>5
  <2> QED BY <1>2, <1>4, <2>7, <2>8 DEF i
<1> QED BY <1>2, <1>3, <1>4

LEMMA PoolStep == PoolInv /\ [Next]_vars => PoolInv'
<1> SUFFICES ASSUME PoolInv, [Next]_vars PROVE PoolInv'
  OBVIOUS
<1>1. CASE ClientStep
  BY <1>1, ClientStepOK
<1>2. CASE NewPool
  BY <1>2, NewPoolOK
<1>3. CASE FreePool
  BY <1>3, FreePoolOK
<1>4. ASSUME NEW s \in Strings, Intern(s) PROVE PoolInv'
  BY <1>4, InternOK
<1>5. CASE UNCHANGED vars
  <2>1. UNCHANGED <<arenaVars, user, slots, count, text, answer>>
    BY <1>5 DEF vars, poolVars
  <2>2. ArenaInv'
    BY <2>1, ArenaStep DEF PoolInv
  <2> QED BY <2>1, <2>2 DEF PoolInv, TextOK, TableLive, TableOK, Live, Cap, arenaVars
<1> QED BY <1>1, <1>2, <1>3, <1>4, <1>5 DEF Next

LEMMA PoolAlways == Spec => []PoolInv
BY PoolStart, PoolStep, PTL DEF Spec

LEMMA PoolInvSound == PoolInv => TypeOK /\ AllocationsApart
<1> SUFFICES ASSUME PoolInv PROVE TypeOK /\ AllocationsApart
  OBVIOUS
<1>1. ArenaTypeOK /\ AllocationsApart
  BY ArenaInvSound DEF PoolInv
<1>2. /\ \A i \in DOMAIN slots : slots[i] = Empty \/ slots[i].key \in DOMAIN text
      /\ count = Cardinality({i \in DOMAIN slots : slots[i] # Empty})
  <2>1. CASE Live
    BY <2>1 DEF PoolInv, TableLive, TableOK, Full
  <2>2. CASE ~Live
    <3>1. DOMAIN slots = {} /\ {i \in DOMAIN slots : slots[i] # Empty} = {} /\ count = 0
      BY <2>2 DEF PoolInv, Live
    <3> QED BY <3>1, FS_EmptySet
  <2> QED BY <2>1, <2>2
<1> QED BY <1>1, <1>2 DEF PoolInv, TypeOK

(* Through collisions, growth and every failure, the count is right, what   *)
(* a bucket points to is a string in use, and the table is never full, so  *)
(* that every probe of intern.c ends.                                      *)
THEOREM PoolTyped == Spec => []TypeOK
BY PoolAlways, PoolInvSound, PTL

(* The copies of the pool, and whatever another client of the arena asks    *)
(* for, are aligned, inside their chunks and apart.                        *)
THEOREM PoolApart == Spec => []AllocationsApart
BY PoolAlways, PoolInvSound, PTL
-----------------------------------------------------------------------------
(* The refinement: a name is the one address where the string lies.        *)
NamesOf(txt) ==
  [s \in {txt[a] : a \in DOMAIN txt} |-> CHOOSE a \in DOMAIN txt : txt[a] = s]
Injective(txt) == \A a, b \in DOMAIN txt : txt[a] = txt[b] => a = b

LEMMA OneAddress ==
  ASSUME NEW txt, Injective(txt), NEW a \in DOMAIN txt
  PROVE  NamesOf(txt)[txt[a]] = a
BY DEF NamesOf, Injective

(* What a probe finds is that address.                                     *)
LEMMA NamesAre == PoolInv => Names = NamesOf(text) /\ Injective(text)
<1> SUFFICES ASSUME PoolInv PROVE Names = NamesOf(text) /\ Injective(text)
  OBVIOUS
<1>1. CASE ~Live
  BY <1>1 DEF PoolInv, Names, NamesOf, Injective
<1>2. CASE Live
  <2>1. Injective(text)
    BY <1>2 DEF PoolInv, TableLive, TableOK, Injective
  <2>2. ASSUME NEW a \in DOMAIN text
        PROVE  slots[Stop(slots, text[a])].key = a
    <3> DEFINE cap == Len(slots)
               i   == Stop(slots, text[a])
    <3>1. cap \in Nat \ {0} /\ slots \in Table(cap) /\ TableOK(slots, text) /\ TextOK(text)
      BY <1>2 DEF PoolInv, TableLive
    <3>2. text[a] \in Strings
      BY <3>1 DEF TextOK
    <3>3. Full(slots) # 1..cap
      <4>1. Cardinality(Full(slots)) < cap
        BY <1>2, <3>1, FullCount DEF PoolInv, Cap
      <4> QED BY <3>1, <4>1, RoomLeft
    <3>4. /\ i \in 1..cap
          /\ slots[i] = Empty => \A x \in DOMAIN text : text[x] # text[a]
          /\ slots[i] # Empty => text[slots[i].key] = text[a]
      BY <3>1, <3>2, <3>3, StopOK
    <3> HIDE DEF i
    <3>5. slots[i] # Empty /\ text[slots[i].key] = text[a]
      BY <3>4
    <3>6. slots[i].key \in DOMAIN text
      BY <3>1, <3>4, <3>5, TableLen DEF TableOK, Full
    <3> QED BY <2>1, <3>5, <3>6 DEF Injective, i
  <2>3. \A s \in {text[a] : a \in DOMAIN text} : slots[Stop(slots, s)].key = NamesOf(text)[s]
    BY <2>1, <2>2, OneAddress
  <2>4. Names = NamesOf(text)
    BY <2>3 DEF Names, NamesOf
  <2> QED BY <2>1, <2>4
<1> QED BY <1>1, <1>2

LEMMA NamesAreNext == PoolInv' => Names' = NamesOf(text') /\ Injective(text')
<1>1. PoolInv' => (Names = NamesOf(text) /\ Injective(text))'
  BY NamesAre, PTL
<1> QED BY <1>1

LEMMA NoNames == NamesOf(<<>>) = <<>>
BY DEF NamesOf

(* Every step of the pool is a step of the promise, or none.               *)
LEMMA StepKeepsPromise ==
  ASSUME PoolInv, PoolInv', [Next]_vars
  PROVE  [Promise!Next]_<<Names, answer>>
<1>1. Names = NamesOf(text) /\ Injective(text) /\ Names' = NamesOf(text') /\ Injective(text')
  BY NamesAre, NamesAreNext
<1>2. CASE text' = text /\ answer' = answer
  BY <1>1, <1>2
<1>3. CASE text' = <<>> /\ answer' = <<>>
  <2>1. Promise!Forget
    BY <1>1, <1>3, NoNames DEF Promise!Forget
  <2> QED BY <2>1 DEF Promise!Next
<1>4. ASSUME NEW s \in Strings, Answered(s) PROVE Promise!Intern(s)
  <2>1. CASE answer' = <<s, Null>> /\ text' = text
    BY <1>1, <2>1 DEF Promise!Intern
  <2>2. CASE text' = text /\ \E a \in DOMAIN text : text[a] = s /\ answer' = <<s, a>>
    <3>1. PICK a \in DOMAIN text : text[a] = s /\ answer' = <<s, a>>
      BY <2>2
    <3>2. s \in DOMAIN Names /\ Names[s] = a
      BY <1>1, <3>1, OneAddress DEF NamesOf
    <3> QED BY <1>1, <2>2, <3>1, <3>2 DEF Promise!Intern
  <2>3. CASE /\ \A a \in DOMAIN text : text[a] # s
             /\ \E p \in Nat \ {0} : p \notin DOMAIN text /\ text' = WithText(p, s) /\ answer' = <<s, p>>
    <3>1. PICK p \in Nat \ {0} : p \notin DOMAIN text /\ text' = WithText(p, s) /\ answer' = <<s, p>>
      BY <2>3
    <3>2. /\ DOMAIN text' = DOMAIN text \cup {p} /\ text'[p] = s
          /\ \A a \in DOMAIN text : text'[a] = text[a]
      BY <3>1 DEF WithText
    <3>3. s \notin DOMAIN Names
      BY <1>1, <2>3 DEF NamesOf
    <3>4. DOMAIN Names' = DOMAIN Names \cup {s}
      BY <1>1, <3>2 DEF NamesOf
    <3>5. Names'[s] = p
      <4>1. p \in DOMAIN text'
        BY <3>2
      <4>2. NamesOf(text')[text'[p]] = p
        BY <1>1, <4>1, OneAddress
      <4> QED BY <1>1, <3>2, <4>2
    <3>6. ASSUME NEW t \in DOMAIN Names
          PROVE  Names'[t] = Names[t] /\ Names[t] # p
      <4>1. PICK a \in DOMAIN text : text[a] = t
        BY <1>1 DEF NamesOf
      <4>2. Names[t] = a
        BY <1>1, <4>1, OneAddress
      <4>3. NamesOf(text')[text'[a]] = a
        BY <1>1, <3>2, OneAddress
      <4> QED BY <1>1, <3>1, <3>2, <4>1, <4>2, <4>3
    <3>7. Promise!Fresh(Names'[s])
      BY <3>5, <3>6 DEF Promise!Fresh, Null
    <3> QED BY <3>1, <3>3, <3>4, <3>5, <3>6, <3>7 DEF Promise!Intern
  <2> QED BY <1>4, <2>1, <2>2, <2>3 DEF Answered
<1>5. CASE ClientStep
  BY <1>2, <1>5 DEF ClientStep, poolVars
<1>6. CASE NewPool
  BY <1>3, <1>6 DEF NewPool
<1>7. CASE FreePool
  BY <1>3, <1>7 DEF FreePool
<1>8. ASSUME NEW s \in Strings, Intern(s) PROVE [Promise!Next]_<<Names, answer>>
  <2>1. Promise!Intern(s)
    BY <1>4, <1>8, InternOK
  <2> QED BY <2>1 DEF Promise!Next
<1>9. CASE UNCHANGED vars
  BY <1>2, <1>9 DEF vars, poolVars
<1> QED BY <1>5, <1>6, <1>7, <1>8, <1>9 DEF Next

LEMMA StartKeepsPromise == Init => Promise!Init
<1> SUFFICES ASSUME Init PROVE Promise!Init
  OBVIOUS
<1>1. Names = NamesOf(<<>>)
  BY PoolStart, NamesAre DEF Init
<1> QED BY <1>1, NoNames DEF Promise!Init, Init

(* The table of intern.c keeps the promise of kavak.h: one name for equal   *)
(* strings, none for two, for every hash, capacity and width.              *)
THEOREM PoolKeepsPromise == Spec => KeepsPromise
<1>1. PoolInv /\ PoolInv' /\ [Next]_vars => [Promise!Next]_<<Names, answer>>
  BY StepKeepsPromise
<1> QED BY <1>1, PoolAlways, StartKeepsPromise, PTL DEF Spec, KeepsPromise, Promise!Spec
=============================================================================
