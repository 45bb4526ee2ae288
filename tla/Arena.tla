-------------------------------- MODULE Arena --------------------------------
(***************************************************************************)
(* The bump allocator of src/src/arena.c in a small address space.         *)
(*                                                                         *)
(* A chunk is one block of the heap: a header, then `cap` bytes from the   *)
(* address `at` on, `used` of them handed out.  SIZE_MAX and UINTPTR_MAX   *)
(* are both MaxAddr; sizes and addresses above it would have wrapped.      *)
(* An address of 0 is NULL.                                                *)
(***************************************************************************)
EXTENDS Integers, Sequences

CONSTANTS
  Bits,          \* the width of a size and of an address
  Header,        \* sizeof(KavakArenaChunk), 24
  DefaultAlign,  \* KAVAK_ARENA_DEFAULT_ALIGN, 8
  DefaultChunk,  \* KAVAK_ARENA_DEFAULT_CHUNK, 4096
  ChunkSizes,    \* what kavak_arena_init is called with
  Requests,      \* what the client asks for, [size, align]
  MaxAllocs,     \* bound of the model: allocations from one arena
  Blocks         \* bound of the model: where calloc may place a chunk

MaxAddr    == 2^Bits - 1
Aligned(a) == \E k \in 0..Bits - 1 : a = 2^k      \* what align_forward accepts

ASSUME ArenaConstants ==
  /\ {Bits, Header, DefaultAlign, DefaultChunk} \subseteq Nat \ {0}
  /\ \A k \in 0..Bits : 2^k \in Nat \ {0}     \* a power is opaque to the provers
  /\ Header <= MaxAddr
  /\ Aligned(DefaultAlign)
  /\ ChunkSizes \subseteq Nat
  /\ Blocks \subseteq 1..MaxAddr
  /\ \A r \in Requests : r.size \in 0..MaxAddr /\ r.align \in 0..MaxAddr

VARIABLES
  chunks,     \* the chunk list, arena->tail last
  chunkSize,  \* arena->chunk_size
  totalUsed,  \* arena->total_used
  allocs      \* what has been handed out, [at, size, align]

arenaVars == <<chunks, chunkSize, totalUsed, allocs>>

LastChunk == chunks[Len(chunks)]
Forward(base, align) == ((base + align - 1) \div align) * align

\* calloc(1, n): a block that overlaps no chunk and has an end, or NULL.
FreeBlocks(n) ==
  {b \in Blocks :
     /\ b + n <= MaxAddr
     /\ \A i \in DOMAIN chunks : b + n <= chunks[i].at - Header
                                   \/ chunks[i].at + chunks[i].cap <= b}

Chunk(b, cap) == [at |-> b + Header, cap |-> cap, used |-> 0]

\* What chunk_new(cap) may give the arena.
NewChunks(cap) ==
  IF cap > MaxAddr - Header THEN {} ELSE {Chunk(b, cap) : b \in FreeBlocks(Header + cap)}

\* Wrong: the padding is measured from the chunk's start, not from its address.
M_Pad(chunk, align) == Forward(chunk.used, align) - chunk.used
Pad(chunk, align) == Forward(chunk.at + chunk.used, align) - (chunk.at + chunk.used)

\* What a call leaves behind: its result and the arena's new state.
Outcome(p, list, used, all) == [p |-> p, chunks |-> list, used |-> used, allocs |-> all]
Refused == Outcome(0, chunks, totalUsed, allocs)

\* The end of kavak_arena_alloc_aligned: the request is taken from the tail.
Take(list, size, align) ==
  LET tail == list[Len(list)]
      pad  == Pad(tail, align)
      p    == tail.at + tail.used + pad
  IN  IF pad + size > tail.cap \/ totalUsed + pad + size > MaxAddr
      THEN Outcome(0, list, totalUsed, allocs)
      ELSE Outcome(p, [list EXCEPT ![Len(list)].used = @ + pad + size],
                   totalUsed + pad + size,
                   Append(allocs, [at |-> p, size |-> size, align |-> align]))

Align(align) == IF align = 0 THEN DefaultAlign ELSE align
Reach(align) == LastChunk.at + LastChunk.used + align - 1

\* A big request gets a chunk of its own size, with room for any padding.
FreshCap(size, align) ==
  IF chunkSize > size + align - 1 THEN chunkSize ELSE size + align - 1

\* kavak_arena_alloc_aligned.  The fresh chunk's address cannot fail
\* align_forward: its capacity covers the padding.
Alloc(size, align0) ==
  LET align == Align(align0)
      fits  == /\ chunks # <<>>
               /\ Aligned(align)
               /\ Reach(align) <= MaxAddr
               /\ LastChunk.used + Pad(LastChunk, align) + size <= MaxAddr
      needed == LastChunk.used + Pad(LastChunk, align) + size
  IN  IF ~fits THEN {Refused}
      ELSE IF needed <= LastChunk.cap THEN {Take(chunks, size, align)}
      ELSE {Refused} \cup    \* there may be no memory
             (IF size + align - 1 > MaxAddr THEN {}
              ELSE {Take(Append(chunks, c), size, align) : c \in NewChunks(FreshCap(size, align))})

Becomes(o) == chunks' = o.chunks /\ totalUsed' = o.used /\ allocs' = o.allocs
-----------------------------------------------------------------------------
(* kavak_arena_init without memory leaves an arena that refuses all.       *)
InitArena(size) ==
  /\ chunks = <<>>
  /\ totalUsed' = 0 /\ allocs' = <<>>
  /\ chunkSize' = IF size = 0 THEN DefaultChunk ELSE size
  /\ chunks' \in {<<>>} \cup {<<c>> : c \in NewChunks(chunkSize')}

AllocAligned ==
  /\ Len(allocs) < MaxAllocs
  /\ UNCHANGED chunkSize
  /\ \E r \in Requests : \E o \in Alloc(r.size, r.align) : Becomes(o)

FreeArena ==
  /\ chunks' = <<>> /\ allocs' = <<>> /\ totalUsed' = 0 /\ chunkSize' = 0

ArenaInit == chunks = <<>> /\ allocs = <<>> /\ totalUsed = 0 /\ chunkSize = 0
ArenaNext == (\E size \in ChunkSizes : InitArena(size)) \/ AllocAligned \/ FreeArena
ArenaSpec == ArenaInit /\ [][ArenaNext]_arenaVars
-----------------------------------------------------------------------------
ArenaTypeOK ==
  /\ \A i \in DOMAIN chunks : chunks[i].used \in 0..chunks[i].cap
  /\ chunkSize \in Nat
  /\ totalUsed \in 0..MaxAddr

(* What the arena hands out keeps the promise of kavak.h: every allocation *)
(* has the alignment asked for, lies in the data of one chunk and shares   *)
(* no byte with another one, whatever addresses calloc gives and however   *)
(* near their end the address space is.                                    *)
AllocationsApart ==
  /\ \A i \in DOMAIN allocs :
       /\ allocs[i].at % allocs[i].align = 0
       /\ \E j \in DOMAIN chunks :
            /\ chunks[j].at <= allocs[i].at
            /\ allocs[i].at + allocs[i].size <= chunks[j].at + chunks[j].used
  /\ \A i, j \in DOMAIN allocs :
       i # j /\ allocs[i].size > 0 /\ allocs[j].size > 0 =>
         \/ allocs[i].at + allocs[i].size <= allocs[j].at
         \/ allocs[j].at + allocs[j].size <= allocs[i].at
=============================================================================
