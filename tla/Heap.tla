-------------------------------- MODULE Heap --------------------------------
(***************************************************************************)
(* The first-fit allocator of mm_halow_osal.c over the pool the driver     *)
(* takes from its host.  Pointers are offsets into the pool; a block is    *)
(* known by the offset of its header.                                      *)
(*                                                                         *)
(* The walks of the block list run in an atomic section, so one of them is *)
(* under way at a time; realloc is two of them, and PendSV may come        *)
(* between the two.  A call that is refused before its walk changes        *)
(* nothing and has no action.                                              *)
(***************************************************************************)
EXTENDS Integers

CONSTANTS
  HEAP_SIZE,    \* MM_HALOW_HEAP_SIZE
  ALIGN,        \* MM_HALOW_BLOCK_ALIGN
  HDR,          \* MM_HALOW_BLOCK_HDR
  SIZE_MAX,     \* the largest size_t
  Sizes,        \* the sizes callers ask for
  Counts        \* the item counts callers of calloc ask for

ASSUME HeapAssumption ==
  /\ HEAP_SIZE \in Nat /\ ALIGN \in Nat \ {0} /\ HDR \in Nat \ {0}
  /\ HDR % ALIGN = 0 /\ HDR < HEAP_SIZE
  /\ SIZE_MAX \in Nat /\ HEAP_SIZE + ALIGN <= SIZE_MAX
  /\ Sizes \subseteq 0 .. SIZE_MAX /\ Counts \subseteq 0 .. SIZE_MAX

NULL == -1
Context == {"thread", "irq"}

VARIABLES
  heap_head,    \* mm_halow_heap_head: NULL, or the start of the pool
  block,        \* [header -> its next, size and used]
  walk,         \* the walk of the list under way
  moving,       \* [Context -> the realloc it is in the middle of]
  live          \* [pointer its caller holds -> the bytes it asked for]

vars == <<heap_head, block, walk, moving, live>>

NoWalk == [op |-> "none", at |-> NULL, size |-> 0, want |-> 0, by |-> "thread", old |-> NULL]
NoMove == [old |-> NULL, new |-> NULL]

-----------------------------------------------------------------------------
\* Fault: sizes are not rounded.
FaultRound(n) == n

\* MM_HALOW_BLOCK_ROUND, in size_t.
Round(n) == (((n + ALIGN - 1) % (SIZE_MAX + 1)) \div ALIGN) * ALIGN

DataOf(b) == b + HDR        \* MM_HALOW_BLOCK_DATA
BlockOf(p) == p - HDR       \* MM_HALOW_DATA_BLOCK

\* The context executes outside a walk: PendSV finishes what it is at first.
MayCall(c) ==
  /\ walk.op = "none"
  /\ moving[c] = NoMove
  /\ c = "thread" => moving["irq"] = NoMove

\* mm_halow_osal_init, when the host has the memory.
OsalInit ==
  /\ heap_head = NULL
  /\ heap_head' = 0
  /\ block' = [b \in {0} |-> [next |-> NULL, size |-> HEAP_SIZE - HDR, used |-> FALSE]]
  /\ UNCHANGED <<walk, moving, live>>

\* mm_halow_osal_deinit: what is still held is abandoned.
OsalDeinit ==
  /\ heap_head # NULL
  /\ walk.op = "none" /\ \A c \in Context : moving[c] = NoMove
  /\ heap_head' = NULL
  /\ block' = << >>
  /\ live' = << >>
  /\ UNCHANGED <<walk, moving>>

\* Fault: a size near SIZE_MAX is let through, and rounds to nothing.
FaultMallocBegin(c, size, want, old) ==
  /\ size # 0 /\ heap_head # NULL
  /\ walk' = [op |-> "malloc", at |-> heap_head, size |-> Round(size), want |-> want,
              by |-> c, old |-> old]
  /\ UNCHANGED <<heap_head, block, moving, live>>

\* mm_halow_osal_malloc up to its walk.  The caller believes it asked for want bytes;
\* old is the pointer a realloc wants to move from.
MallocBegin(c, size, want, old) ==
  /\ size # 0 /\ size <= HEAP_SIZE /\ heap_head # NULL
  /\ walk' = [op |-> "malloc", at |-> heap_head, size |-> Round(size), want |-> want,
              by |-> c, old |-> old]
  /\ UNCHANGED <<heap_head, block, moving, live>>

Malloc(c, size) ==
  /\ MayCall(c)
  /\ MallocBegin(c, size, size, NULL)

\* Fault: the product is not checked.
FaultCalloc(c, nitems, size) ==
  /\ MayCall(c)
  /\ MallocBegin(c, (nitems * size) % (SIZE_MAX + 1), nitems * size, NULL)

\* mmosal_calloc_: a product that would wrap is refused.
Calloc(c, nitems, size) ==
  /\ MayCall(c)
  /\ ~(nitems # 0 /\ size > SIZE_MAX \div nitems)
  /\ MallocBegin(c, (nitems * size) % (SIZE_MAX + 1), nitems * size, NULL)

\* Fault: a block that fits exactly is passed over.
FaultMallocSkip ==
  /\ walk.op = "malloc" /\ walk.at # NULL
  /\ block[walk.at].used \/ block[walk.at].size <= walk.size
  /\ walk' = [walk EXCEPT !.at = block[walk.at].next]
  /\ UNCHANGED <<heap_head, block, moving, live>>

\* The list goes on with the next block: this one is used, or too small.
MallocSkip ==
  /\ walk.op = "malloc" /\ walk.at # NULL
  /\ block[walk.at].used \/ block[walk.at].size < walk.size
  /\ walk' = [walk EXCEPT !.at = block[walk.at].next]
  /\ UNCHANGED <<heap_head, block, moving, live>>

\* The remainder can hold a header and something useful.
Splits(b) == block[b].size >= walk.size + HDR + ALIGN

\* The blocks once b has been taken for the walk's size.
Taken(b) ==
  LET rest == b + HDR + walk.size
  IN IF Splits(b)
     THEN [x \in DOMAIN block \cup {rest} |->
             IF x = b THEN [next |-> rest, size |-> walk.size, used |-> TRUE]
             ELSE IF x = rest THEN [next |-> block[b].next,
                                    size |-> block[b].size - walk.size - HDR, used |-> FALSE]
             ELSE block[x]]
     ELSE [block EXCEPT ![b].used = TRUE]

\* The first block that is free and large enough is handed out: to the caller, or to
\* the realloc that will copy to it.
MallocTake ==
  LET b == walk.at
  IN /\ walk.op = "malloc" /\ b # NULL
     /\ ~block[b].used /\ block[b].size >= walk.size
     /\ block' = Taken(b)
     /\ live' = [p \in DOMAIN live \cup {DataOf(b)} |->
                   IF p = DataOf(b) THEN walk.want ELSE live[p]]
     /\ moving' = IF walk.old = NULL THEN moving
                  ELSE [moving EXCEPT ![walk.by] = [old |-> walk.old, new |-> DataOf(b)]]
     /\ walk' = NoWalk
     /\ UNCHANGED heap_head

\* The end of the list: NULL is returned, and a realloc leaves its block alone.
MallocFail ==
  /\ walk.op = "malloc" /\ walk.at = NULL
  /\ walk' = NoWalk
  /\ UNCHANGED <<heap_head, block, moving, live>>

\* mm_halow_osal_free up to its walk.
FreeBegin(c, p) ==
  /\ block' = [block EXCEPT ![BlockOf(p)].used = FALSE]
  /\ live' = [q \in DOMAIN live \ {p} |-> live[q]]
  /\ walk' = [NoWalk EXCEPT !.op = "free", !.at = heap_head, !.by = c]
  /\ UNCHANGED heap_head

\* The pointers a caller may pass: not the ones a realloc is still copying between.
Held == DOMAIN live \ UNION {{moving[c].old, moving[c].new} : c \in Context}

Free(c, p) ==
  /\ MayCall(c)
  /\ FreeBegin(c, p)
  /\ UNCHANGED moving

\* Fault: the walk moves on after a merge, past a third free neighbour.
FaultCoalesce ==
  LET b == walk.at
      n == block[b].next
  IN /\ walk.op = "free" /\ n # NULL
     /\ ~block[b].used /\ ~block[n].used
     /\ block' = [x \in DOMAIN block \ {n} |->
                    IF x = b THEN [next |-> block[n].next, used |-> FALSE,
                                   size |-> block[b].size + HDR + block[n].size]
                    ELSE block[x]]
     /\ walk' = [walk EXCEPT !.at = IF block[n].next = NULL THEN b ELSE block[n].next]
     /\ UNCHANGED <<heap_head, moving, live>>

\* Two free neighbours become one; the walk stays, as the next may be free as well.
Coalesce ==
  LET b == walk.at
      n == block[b].next
  IN /\ walk.op = "free" /\ n # NULL
     /\ ~block[b].used /\ ~block[n].used
     /\ block' = [x \in DOMAIN block \ {n} |->
                    IF x = b THEN [next |-> block[n].next, used |-> FALSE,
                                   size |-> block[b].size + HDR + block[n].size]
                    ELSE block[x]]
     /\ UNCHANGED <<heap_head, walk, moving, live>>

\* Fault: the walk does not move on.
FaultFreeSkip ==
  /\ walk.op = "free" /\ block[walk.at].next # NULL
  /\ block[walk.at].used \/ block[block[walk.at].next].used
  /\ UNCHANGED vars

FreeSkip ==
  LET b == walk.at
      n == block[b].next
  IN /\ walk.op = "free" /\ n # NULL
     /\ block[b].used \/ block[n].used
     /\ walk' = [walk EXCEPT !.at = n]
     /\ UNCHANGED <<heap_head, block, moving, live>>

FreeEnd ==
  /\ walk.op = "free" /\ block[walk.at].next = NULL
  /\ walk' = NoWalk
  /\ UNCHANGED <<heap_head, block, moving, live>>

\* mmosal_realloc_ of a pointer: freed, kept as it is large enough, or a larger block
\* looked for.
Realloc(c, p, size) ==
  /\ MayCall(c)
  /\ \/ size = 0 /\ FreeBegin(c, p) /\ UNCHANGED moving
     \/ /\ size # 0 /\ block[BlockOf(p)].size >= size
        /\ live' = [live EXCEPT ![p] = size]
        /\ UNCHANGED <<heap_head, block, walk, moving>>
     \/ /\ block[BlockOf(p)].size < size
        /\ MallocBegin(c, size, size, p)

\* The old block's bytes are in the new one: the old one is freed.
ReallocMoved(c) ==
  /\ walk.op = "none" /\ moving[c] # NoMove
  /\ c = "thread" => moving["irq"] = NoMove
  /\ FreeBegin(c, moving[c].old)
  /\ moving' = [moving EXCEPT ![c] = NoMove]

-----------------------------------------------------------------------------
Init ==
  /\ heap_head = NULL
  /\ block = << >>
  /\ walk = NoWalk
  /\ moving = [c \in Context |-> NoMove]
  /\ live = << >>

WalkStep == MallocSkip \/ MallocTake \/ MallocFail \/ Coalesce \/ FreeSkip \/ FreeEnd

Call(c) ==
  \/ \E size \in Sizes : Malloc(c, size)
  \/ \E nitems \in Counts, size \in Sizes : Calloc(c, nitems, size)
  \/ \E p \in Held : Free(c, p) \/ \E size \in Sizes : Realloc(c, p, size)

Next ==
  \/ OsalInit \/ OsalDeinit
  \/ \E c \in Context : Call(c) \/ ReallocMoved(c)
  \/ WalkStep

Spec == Init /\ [][Next]_vars

\* A walk runs to its end: it is an atomic section of a running context.
FairSpec == Spec /\ WF_vars(WalkStep)

-----------------------------------------------------------------------------
(* Properties *)

Address == 0 .. HEAP_SIZE
Header == [next : Address \cup {NULL}, size : 1 .. HEAP_SIZE, used : BOOLEAN]
Walk == [op : {"none", "malloc", "free"}, at : Address \cup {NULL}, size : 0 .. SIZE_MAX,
         want : 0 .. SIZE_MAX, by : Context, old : Address \cup {NULL}]
Move == [old : Address \cup {NULL}, new : Address \cup {NULL}]

TypeOK ==
  /\ heap_head \in {NULL, 0}
  /\ DOMAIN block \subseteq Address
  /\ \A b \in DOMAIN block : block[b] \in Header
  /\ walk \in Walk
  /\ moving \in [Context -> Move]
  /\ DOMAIN live \subseteq Address
  /\ \A p \in DOMAIN live : live[p] \in 1 .. SIZE_MAX

BlockEnd(b) == b + HDR + block[b].size

\* The blocks tile the pool: from its start to its end, in the order of the list, with
\* nothing lost between them and nothing twice, at every step of every walk (split and
\* coalesce), and each starts on an aligned offset, so that every pointer handed out is
\* aligned (MM_HALOW_BLOCK_ROUND).
Tiled ==
  heap_head # NULL =>
    /\ heap_head \in DOMAIN block
    /\ \A b \in DOMAIN block :
         /\ b % ALIGN = 0 /\ block[b].size > 0 /\ BlockEnd(b) <= HEAP_SIZE
         /\ block[b].next = IF BlockEnd(b) = HEAP_SIZE THEN NULL ELSE BlockEnd(b)
         /\ block[b].next # NULL => block[b].next \in DOMAIN block
         /\ \A x \in DOMAIN block : x <= b \/ x >= BlockEnd(b)

\* A caller may write every byte it asked for: they are inside its own block, which no
\* other block's header or data reaches into - also when the size asked for, or the
\* product of calloc, is near SIZE_MAX (the guards of osal_malloc and calloc_), and for
\* both blocks while realloc_ copies the whole of the old one into the new one.
HeldIsOwn ==
  /\ \A p \in DOMAIN live :
       /\ BlockOf(p) \in DOMAIN block /\ block[BlockOf(p)].used
       /\ p + live[p] <= HEAP_SIZE
       /\ \A b \in DOMAIN block : b # BlockOf(p) => p + live[p] <= b \/ BlockEnd(b) <= BlockOf(p)
  /\ \A c \in Context : moving[c] # NoMove =>
       /\ {moving[c].old, moving[c].new} \subseteq DOMAIN live
       /\ block[BlockOf(moving[c].old)].size <= block[BlockOf(moving[c].new)].size

\* Nothing leaks: a block in use is held by a caller, and outside a free no two free
\* blocks are neighbours, so that once everything is given back the pool is one block
\* again (osal_free).
NothingLeaks ==
  /\ \A b \in DOMAIN block : block[b].used <=> DataOf(b) \in DOMAIN live
  /\ walk.op # "free" =>
       \A b \in DOMAIN block : ~block[b].used /\ block[b].next # NULL =>
                                  block[block[b].next].used

\* malloc returns NULL only when there is no free block of the size asked for.
FailsOnlyWhenFull ==
  walk.op = "malloc" /\ walk.at = NULL =>
     \A b \in DOMAIN block : block[b].used \/ block[b].size < walk.size

\* A walk of the list comes to an end: the list has no cycle.
WalkEnds == walk.op # "none" ~> walk.op = "none"

\* The allocator keeps its promise: what callers hold are disjoint pieces of the pool.
Promise == INSTANCE Allocator
KeepsPromise == Promise!Spec
=============================================================================
