----------------------------- MODULE HeapProofs -----------------------------
(***************************************************************************)
(* Proofs about the heap (Heap).                                           *)
(***************************************************************************)
EXTENDS Heap, TLAPS

\* Without a pool there is nothing.
PoolUp ==
  heap_head = NULL =>
    DOMAIN block = {} /\ DOMAIN live = {} /\ walk.op = "none" /\ moving = [c \in Context |-> NoMove]

\* What a caller holds is the data of a block in use, which has at least the bytes it
\* asked for.
HeldFits ==
  \A p \in DOMAIN live :
    BlockOf(p) \in DOMAIN block /\ block[BlockOf(p)].used /\ live[p] <= block[BlockOf(p)].size

UsedIsHeld == \A b \in DOMAIN block : block[b].used => DataOf(b) \in DOMAIN live

\* The two blocks of a realloc under way are held, and no other realloc is at them.
MoveOwns ==
  /\ \A c \in Context : moving[c] # NoMove =>
       /\ moving[c].old \in DOMAIN live /\ moving[c].new \in DOMAIN live
       /\ moving[c].old # moving[c].new
       /\ block[BlockOf(moving[c].old)].size <= block[BlockOf(moving[c].new)].size
  /\ moving["thread"] # NoMove /\ moving["irq"] # NoMove =>
       {moving["thread"].old, moving["thread"].new}
         \cap {moving["irq"].old, moving["irq"].new} = {}

\* Where a malloc is, for how much, and for whom.
MallocWalk ==
  walk.op = "malloc" =>
    /\ walk.at # NULL => walk.at \in DOMAIN block
    /\ walk.size % ALIGN = 0 /\ walk.want \in 1 .. walk.size
    /\ walk.old # NULL =>
         /\ walk.old \in DOMAIN live
         /\ block[BlockOf(walk.old)].size < walk.size
         /\ moving[walk.by] = NoMove
         /\ \A c \in Context : walk.old \notin {moving[c].old, moving[c].new}

\* The blocks the walk of a malloc has passed are no use to it.
PassedUnfit ==
  walk.op = "malloc" =>
    \A b \in DOMAIN block :
      walk.at = NULL \/ b < walk.at => block[b].used \/ block[b].size < walk.size

\* The blocks the walk of a free has passed are merged; outside a free all are.
FreeWalk == walk.op = "free" => walk.at \in DOMAIN block

Merged ==
  \A b \in DOMAIN block :
    (walk.op = "free" => b < walk.at) =>
      block[b].used \/ block[b].next = NULL \/ block[block[b].next].used

IInv ==
  /\ TypeOK
  /\ PoolUp
  /\ Tiled
  /\ HeldFits
  /\ UsedIsHeld
  /\ MoveOwns
  /\ MallocWalk
  /\ PassedUnfit
  /\ FreeWalk
  /\ Merged

-----------------------------------------------------------------------------
(* Arithmetic: division, multiples of the alignment, and the rounding of sizes *)

LEMMA ModDef ==
  ASSUME NEW a \in Nat, NEW d \in Nat \ {0}
  PROVE  a % d = a - d * (a \div d) /\ a \div d \in Nat /\ a % d \in 0 .. d - 1
<1>1. a % d = a - d * (a \div d)
  BY Z3
<1>2. a \div d \in Nat
  OBVIOUS
<1>3. a % d \in 0 .. d - 1
  OBVIOUS
<1> QED
  BY <1>1, <1>2, <1>3

LEMMA MultipleMod == ASSUME NEW q \in Nat, NEW d \in Nat \ {0} PROVE (d * q) % d = 0
OBVIOUS

LEMMA SmallMod == ASSUME NEW d \in Nat \ {0}, NEW a \in 0 .. d - 1 PROVE a % d = a
OBVIOUS

LEMMA SumMod ==
  ASSUME NEW d \in Nat \ {0}, NEW a \in Nat, NEW b \in Nat, a % d = 0, b % d = 0
  PROVE  (a + b) % d = 0
<1>1. PICK p \in Nat : a = d * p
  <2>1. a = d * (a \div d) /\ a \div d \in Nat
    BY ModDef
  <2> QED
    BY <2>1
<1>2. PICK q \in Nat : b = d * q
  <2>1. b = d * (b \div d) /\ b \div d \in Nat
    BY ModDef
  <2> QED
    BY <2>1
<1>3. a + b = d * (p + q)
  BY <1>1, <1>2, Z3
<1>4. (d * (p + q)) % d = 0
  BY MultipleMod
<1> QED
  BY <1>3, <1>4

\* MM_HALOW_BLOCK_ROUND of a size the guard of osal_malloc lets through does not wrap:
\* it is a multiple of the alignment, and the next one.
LEMMA RoundUp ==
  ASSUME NEW n \in 1 .. HEAP_SIZE
  PROVE  /\ Round(n) \in n .. n + ALIGN - 1
         /\ Round(n) % ALIGN = 0
<1> USE HeapAssumption
<1> DEFINE m == n + ALIGN - 1
<1>1. m \in Nat /\ m \in 0 .. SIZE_MAX
  OBVIOUS
<1>2. m % (SIZE_MAX + 1) = m
  <2>1. SIZE_MAX + 1 \in Nat \ {0} /\ m \in 0 .. (SIZE_MAX + 1) - 1
    BY <1>1
  <2> HIDE DEF m
  <2> QED
    BY <2>1, SmallMod
<1> DEFINE q == m \div ALIGN
<1>3. q \in Nat /\ m - ALIGN * q \in 0 .. ALIGN - 1
  <2> HIDE DEF m
  <2>1. m % ALIGN = m - ALIGN * q /\ q \in Nat /\ m % ALIGN \in 0 .. ALIGN - 1
    BY <1>1, ModDef
  <2> QED
    BY <2>1
<1>4. Round(n) = q * ALIGN
  BY <1>2 DEF Round
<1>5. (ALIGN * q) % ALIGN = 0
  BY <1>3, MultipleMod
<1> HIDE DEF q
<1>6. q * ALIGN = ALIGN * q /\ ALIGN * q \in Nat
  BY <1>3
<1> QED
  BY <1>3, <1>4, <1>5, <1>6

\* The guard of calloc_ refuses every product that would wrap.
LEMMA CallocProduct ==
  ASSUME NEW n \in Nat, NEW size \in Nat, ~(n # 0 /\ size > SIZE_MAX \div n)
  PROVE  (n * size) % (SIZE_MAX + 1) = n * size /\ n * size \in Nat
<1> USE HeapAssumption
<1>1. n * size \in 0 .. (SIZE_MAX + 1) - 1
  <2>1. CASE n = 0
    BY <2>1
  <2>2. CASE n # 0
    <3> DEFINE q == SIZE_MAX \div n
    <3>1. q \in Nat /\ n * q <= SIZE_MAX /\ size <= q
      BY <2>2, ModDef
    <3> HIDE DEF q
    <3>2. n * size <= n * q
      BY <3>1, Z3
    <3> QED
      BY <3>1, <3>2
  <2> QED
    BY <2>1, <2>2
<1>2. SIZE_MAX + 1 \in Nat \ {0}
  OBVIOUS
<1> QED
  BY <1>1, <1>2, SmallMod

-----------------------------------------------------------------------------
(* What the types and the tiling say of single blocks *)

LEMMA NoneTypes == NoWalk \in Walk /\ NoMove \in Move
BY HeapAssumption DEF NoWalk, Walk, NoMove, Move, Address, NULL, Context

LEMMA BlockFacts ==
  ASSUME TypeOK, NEW b \in DOMAIN block
  PROVE  /\ b \in Nat /\ b <= HEAP_SIZE
         /\ block[b].size \in Nat /\ block[b].size > 0 /\ block[b].size <= HEAP_SIZE
         /\ block[b].used \in BOOLEAN
         /\ BlockEnd(b) \in Nat /\ BlockEnd(b) > b
BY HeapAssumption DEF TypeOK, Header, Address, BlockEnd

\* Two blocks do not overlap.
LEMMA Apart ==
  ASSUME TypeOK, Tiled, heap_head # NULL, NEW b \in DOMAIN block, NEW x \in DOMAIN block, b # x
  PROVE  BlockEnd(x) <= b \/ BlockEnd(b) <= x
<1>1. b \in Nat /\ x \in Nat /\ BlockEnd(b) \in Nat /\ BlockEnd(x) \in Nat
  BY BlockFacts
<1>2. (x <= b \/ x >= BlockEnd(b)) /\ (b <= x \/ b >= BlockEnd(x))
  BY DEF Tiled
<1> QED
  BY <1>1, <1>2

\* Only the block before it leads to a block.
LEMMA OneBefore ==
  ASSUME TypeOK, Tiled, heap_head # NULL, NEW b \in DOMAIN block, NEW x \in DOMAIN block,
         block[b].next # NULL, block[x].next = block[b].next
  PROVE  x = b
<1>1. b \in Nat /\ x \in Nat /\ BlockEnd(b) \in Nat /\ BlockEnd(x) \in Nat
      /\ b < BlockEnd(b) /\ x < BlockEnd(x)
  BY BlockFacts
<1>2. BlockEnd(b) = BlockEnd(x)
  BY DEF Tiled
<1>3. x # b => BlockEnd(x) <= b \/ BlockEnd(b) <= x
  BY Apart
<1> QED
  BY <1>1, <1>2, <1>3

-----------------------------------------------------------------------------
(* One lemma per action *)

LEMMA InitInv == Init => IInv
<1> SUFFICES ASSUME Init PROVE IInv
  OBVIOUS
<1> USE DEF Init
<1>1. DOMAIN block = {} /\ DOMAIN live = {}
  OBVIOUS
<1>2. walk.op = "none"
  BY DEF NoWalk
<1>3. TypeOK
  BY <1>1, NoneTypes DEF TypeOK, NULL
<1>4. \A c \in Context : moving[c] = NoMove
  OBVIOUS
<1> QED
  BY <1>1, <1>2, <1>3, <1>4
     DEF IInv, PoolUp, Tiled, HeldFits, UsedIsHeld, MoveOwns, MallocWalk, PassedUnfit, FreeWalk,
         Merged, Context

LEMMA OsalInitInv == ASSUME IInv, OsalInit PROVE IInv'
<1> USE HeapAssumption DEF IInv, OsalInit
<1>1. /\ DOMAIN block' = {0} /\ block'[0].next = NULL /\ block'[0].size = HEAP_SIZE - HDR
      /\ ~block'[0].used /\ block'[0] \in Header
  BY DEF Header, Address, NULL
<1>2. /\ DOMAIN live' = {} /\ walk'.op = "none" /\ heap_head' # NULL
      /\ \A c \in Context : moving'[c] = NoMove
  BY DEF PoolUp, NULL
<1>3. TypeOK'
  BY <1>1, <1>2 DEF TypeOK, Address, Walk
<1>4. Tiled'
  BY <1>1 DEF Tiled, BlockEnd
<1>5. PoolUp' /\ HeldFits' /\ UsedIsHeld' /\ Merged'
  BY <1>1, <1>2 DEF PoolUp, HeldFits, UsedIsHeld, Merged
<1>6. MoveOwns' /\ MallocWalk' /\ PassedUnfit' /\ FreeWalk'
  BY <1>2 DEF MoveOwns, MallocWalk, PassedUnfit, FreeWalk, Context
<1> QED
  BY <1>3, <1>4, <1>5, <1>6

LEMMA OsalDeinitInv == ASSUME IInv, OsalDeinit PROVE IInv'
<1> USE HeapAssumption DEF IInv, OsalDeinit
<1>1. DOMAIN block' = {} /\ DOMAIN live' = {} /\ walk' = walk /\ heap_head' = NULL /\ moving' = moving
  OBVIOUS
<1>2. moving = [c \in Context |-> NoMove]
  BY DEF TypeOK
<1>3. TypeOK'
  BY <1>1 DEF TypeOK
<1> QED
  BY <1>1, <1>2, <1>3
     DEF PoolUp, Tiled, HeldFits, UsedIsHeld, MoveOwns, MallocWalk, PassedUnfit, FreeWalk,
         Merged, Context

\* A walk of a malloc begins at the start of the list with nothing passed.
LEMMA MallocBeginInv ==
  ASSUME IInv, NEW c \in Context, NEW size \in Nat, NEW old, MayCall(c),
         MallocBegin(c, size, size, old),
         old = NULL \/ (old \in Held /\ block[BlockOf(old)].size < size)
  PROVE  IInv'
<1> USE HeapAssumption DEF IInv, MallocBegin
<1>1. /\ heap_head = 0 /\ walk'.op = "malloc" /\ walk'.at = 0 /\ walk'.want = size /\ walk'.by = c
      /\ walk'.size = Round(size) /\ walk'.old = old
  BY DEF TypeOK
<1>2. Round(size) \in size .. SIZE_MAX /\ Round(size) % ALIGN = 0 /\ size \in 1 .. Round(size)
  BY RoundUp
<1>3. old \in Address \cup {NULL}
  BY DEF Held, TypeOK
<1>4. walk' \in Walk
  BY <1>1, <1>2, <1>3 DEF Walk, Address
<1>5. TypeOK'
  BY <1>4 DEF TypeOK
<1>6. MallocWalk'
  <2>1. 0 \in DOMAIN block
    BY <1>1 DEF Tiled
  <2>2. old # NULL => /\ old \in DOMAIN live /\ block[BlockOf(old)].size < Round(size)
                      /\ \A d \in Context : old \notin {moving[d].old, moving[d].new}
    <3>1. SUFFICES ASSUME old # NULL
                   PROVE  /\ old \in DOMAIN live /\ block[BlockOf(old)].size < Round(size)
                          /\ \A d \in Context : old \notin {moving[d].old, moving[d].new}
      OBVIOUS
    <3>2. old \in DOMAIN live /\ \A d \in Context : old \notin {moving[d].old, moving[d].new}
      BY <3>1 DEF Held
    <3>3. block[BlockOf(old)].size \in Nat
      BY <3>2, BlockFacts DEF HeldFits
    <3> QED
      BY <1>2, <3>1, <3>2, <3>3
  <2> QED
    BY <1>1, <1>2, <2>1, <2>2 DEF MallocWalk, MayCall
<1>7. PassedUnfit'
  BY <1>1, BlockFacts DEF PassedUnfit, NULL
<1>8. PoolUp' /\ FreeWalk'
  BY <1>1 DEF PoolUp, FreeWalk
<1>9. Merged'
  BY <1>1 DEF Merged, MayCall
<1>10. Tiled' /\ HeldFits' /\ UsedIsHeld' /\ MoveOwns'
  BY DEF Tiled, BlockEnd, HeldFits, UsedIsHeld, MoveOwns
<1> QED
  BY <1>5, <1>6, <1>7, <1>8, <1>9, <1>10

LEMMA MallocSkipInv == ASSUME IInv, MallocSkip PROVE IInv'
<1> USE HeapAssumption DEF IInv, MallocSkip
<1> DEFINE b == walk.at
           n == block[b].next
<1>1. b \in DOMAIN block /\ heap_head # NULL
  BY DEF MallocWalk, PoolUp
<1>2. n \in Address \cup {NULL} /\ (n # NULL => n \in DOMAIN block)
  BY <1>1 DEF TypeOK, Header, Tiled
<1>3. /\ walk' \in Walk /\ walk'.op = "malloc" /\ walk'.at = n /\ walk'.size = walk.size
      /\ walk'.want = walk.want /\ walk'.old = walk.old /\ walk'.by = walk.by
  BY <1>2 DEF TypeOK, Walk
<1>4. TypeOK'
  BY <1>3 DEF TypeOK
<1>5. MallocWalk'
  BY <1>2, <1>3 DEF MallocWalk
<1>6. PassedUnfit'
  <2>1. SUFFICES ASSUME NEW x \in DOMAIN block, n = NULL \/ x < n
                 PROVE  block[x].used \/ block[x].size < walk.size
    BY <1>3 DEF PassedUnfit
  <2>2. CASE x = b
    BY <2>2
  <2>3. CASE x # b
    <3>1. BlockEnd(x) <= b \/ BlockEnd(b) <= x
      BY <1>1, <2>3, Apart
    <3>2. n = IF BlockEnd(b) = HEAP_SIZE THEN NULL ELSE BlockEnd(b)
      BY <1>1 DEF Tiled
    <3>3. BlockEnd(x) <= HEAP_SIZE /\ x \in Nat /\ BlockEnd(x) \in Nat /\ x < BlockEnd(x)
          /\ b \in Nat /\ BlockEnd(b) \in Nat
      BY <1>1, BlockFacts DEF Tiled
    <3>4. x < b
      BY <2>1, <3>1, <3>2, <3>3 DEF NULL
    <3> QED
      BY <3>4 DEF PassedUnfit
  <2> QED
    BY <2>2, <2>3
<1>7. PoolUp' /\ FreeWalk' /\ Merged'
  BY <1>3 DEF PoolUp, FreeWalk, Merged
<1>8. Tiled' /\ HeldFits' /\ UsedIsHeld' /\ MoveOwns'
  BY DEF Tiled, BlockEnd, HeldFits, UsedIsHeld, MoveOwns
<1> QED
  BY <1>4, <1>5, <1>6, <1>7, <1>8

\* The walk is over, and no block has changed.
LEMMA WalkOverInv ==
  ASSUME IInv, walk.op = "malloc" \/ block[walk.at].next = NULL, walk' = NoWalk,
         UNCHANGED <<heap_head, block, moving, live>>
  PROVE  IInv'
<1> USE DEF IInv
<1>1. walk'.op = "none"
  BY DEF NoWalk
<1>2. TypeOK'
  BY NoneTypes DEF TypeOK
<1>3. Merged'
  <2>1. SUFFICES ASSUME NEW b \in DOMAIN block
                 PROVE  block[b].used \/ block[b].next = NULL \/ block[block[b].next].used
    BY DEF Merged
  <2>2. CASE walk.op = "free" /\ b # walk.at
    <3>1. walk.at \in DOMAIN block /\ block[walk.at].next = NULL /\ heap_head # NULL
      BY <2>2 DEF FreeWalk, PoolUp
    <3>2. BlockEnd(walk.at) = HEAP_SIZE
      BY <3>1, BlockFacts DEF Tiled, NULL
    <3>3. BlockEnd(b) <= HEAP_SIZE /\ b < BlockEnd(b) /\ b \in Nat /\ BlockEnd(b) \in Nat
          /\ walk.at \in Nat
      BY <3>1, BlockFacts DEF Tiled
    <3>4. b < walk.at
      BY <2>2, <3>1, <3>2, <3>3, Apart, HeapAssumption
    <3> QED
      BY <2>2, <3>4 DEF Merged
  <2>3. CASE walk.op # "free" \/ b = walk.at
    BY <2>3 DEF Merged
  <2> QED
    BY <2>2, <2>3
<1>4. PoolUp' /\ MallocWalk' /\ PassedUnfit' /\ FreeWalk'
  BY <1>1 DEF PoolUp, MallocWalk, PassedUnfit, FreeWalk
<1>5. Tiled' /\ HeldFits' /\ UsedIsHeld' /\ MoveOwns'
  BY DEF Tiled, BlockEnd, HeldFits, UsedIsHeld, MoveOwns
<1> QED
  BY <1>2, <1>3, <1>4, <1>5

LEMMA FreeSkipInv == ASSUME IInv, FreeSkip PROVE IInv'
<1> USE HeapAssumption DEF IInv, FreeSkip
<1> DEFINE b == walk.at
           n == block[b].next
<1>1. b \in DOMAIN block /\ heap_head # NULL
  BY DEF FreeWalk, PoolUp
<1>2. n \in Address /\ n \in DOMAIN block /\ n = BlockEnd(b)
  BY <1>1 DEF TypeOK, Header, Tiled
<1>3. walk' \in Walk /\ walk'.op = "free" /\ walk'.at = n
  BY <1>2 DEF TypeOK, Walk
<1>4. TypeOK'
  BY <1>3 DEF TypeOK
<1>5. Merged'
  <2>1. SUFFICES ASSUME NEW x \in DOMAIN block, x < n
                 PROVE  block[x].used \/ block[x].next = NULL \/ block[block[x].next].used
    BY <1>3 DEF Merged
  <2>2. CASE x = b
    BY <2>2
  <2>3. CASE x # b
    <3>1. BlockEnd(x) <= b \/ BlockEnd(b) <= x
      BY <1>1, <2>3, Apart
    <3>2. x \in Nat /\ BlockEnd(x) \in Nat /\ x < BlockEnd(x) /\ b \in Nat /\ BlockEnd(b) \in Nat
      BY <1>1, BlockFacts
    <3>3. x < b
      BY <1>2, <2>1, <3>1, <3>2
    <3> QED
      BY <3>3 DEF Merged
  <2> QED
    BY <2>2, <2>3
<1>6. PoolUp' /\ FreeWalk' /\ MallocWalk' /\ PassedUnfit'
  BY <1>1, <1>2, <1>3 DEF PoolUp, FreeWalk, MallocWalk, PassedUnfit
<1>7. Tiled' /\ HeldFits' /\ UsedIsHeld' /\ MoveOwns'
  BY DEF Tiled, BlockEnd, HeldFits, UsedIsHeld, MoveOwns
<1> QED
  BY <1>4, <1>5, <1>6, <1>7

\* Two blocks next to each other become one, which ends where the second did.
LEMMA CoalesceInv == ASSUME IInv, Coalesce PROVE IInv'
<1> USE HeapAssumption DEF IInv
<1> DEFINE b == walk.at
           n == block[b].next
<1>1. /\ walk.op = "free" /\ n # NULL /\ ~block[b].used /\ ~block[n].used
      /\ block' = [x \in DOMAIN block \ {n} |->
                     IF x = b THEN [next |-> block[n].next, used |-> FALSE,
                                    size |-> block[b].size + HDR + block[n].size]
                     ELSE block[x]]
      /\ UNCHANGED <<heap_head, walk, moving, live>>
  BY DEF Coalesce
<1>2. b \in DOMAIN block /\ heap_head # NULL /\ heap_head = 0
  BY <1>1 DEF FreeWalk, PoolUp, TypeOK
<1>3. n \in DOMAIN block /\ n = BlockEnd(b) /\ b < n /\ b \in Nat /\ n \in Nat /\ 0 \in DOMAIN block
  BY <1>1, <1>2, BlockFacts DEF Tiled
<1> HIDE DEF b, n
<1>4. /\ DOMAIN block' = DOMAIN block \ {n}
      /\ block'[b].next = block[n].next /\ ~block'[b].used
      /\ block'[b].size = block[b].size + HDR + block[n].size
      /\ \A x \in DOMAIN block \ {b, n} : block'[x] = block[x]
  BY <1>1, <1>2, <1>3
<1>5. BlockEnd(b)' = BlockEnd(n) /\ \A x \in DOMAIN block \ {b, n} : BlockEnd(x)' = BlockEnd(x)
  <2>1. block[b].size \in Nat /\ block[n].size \in Nat
    BY <1>2, <1>3, BlockFacts
  <2>2. BlockEnd(b)' = b + HDR + block'[b].size
    BY <1>1 DEF BlockEnd, b
  <2>3. BlockEnd(b)' = BlockEnd(n)
    BY <1>3, <1>4, <2>1, <2>2 DEF BlockEnd
  <2> QED
    BY <1>4, <2>3 DEF BlockEnd
<1>6. block[n].next = (IF BlockEnd(n) = HEAP_SIZE THEN NULL ELSE BlockEnd(n)) /\ BlockEnd(n) <= HEAP_SIZE
  BY <1>2, <1>3 DEF Tiled
<1>7. BlockEnd(n) \in Nat /\ n < BlockEnd(n)
  BY <1>3, BlockFacts
<1>8. block'[b] \in Header
  <2>1. block[b].size \in Nat /\ block[n].size \in Nat /\ block[b].size > 0
    BY <1>2, <1>3, BlockFacts
  <2>2. block'[b].size \in 1 .. HEAP_SIZE
    BY <1>3, <1>4, <1>6, <1>7, <2>1 DEF BlockEnd
  <2>3. block[n].next \in Address \cup {NULL}
    BY <1>3 DEF TypeOK, Header
  <2>4. block'[b] = [next |-> block[n].next, used |-> FALSE,
                     size |-> block[b].size + HDR + block[n].size]
    BY <1>1, <1>2, <1>3
  <2> QED
    BY <1>4, <2>2, <2>3, <2>4 DEF Header
<1>9. TypeOK'
  BY <1>1, <1>4, <1>8 DEF TypeOK
<1>10. Tiled'
  <2>1. 0 \in DOMAIN block'
    BY <1>3, <1>4
  <2>2. ASSUME NEW x \in DOMAIN block', x # b
        PROVE  /\ x % ALIGN = 0 /\ block'[x].size > 0 /\ BlockEnd(x)' <= HEAP_SIZE
               /\ block'[x].next = IF BlockEnd(x)' = HEAP_SIZE THEN NULL ELSE BlockEnd(x)'
               /\ block'[x].next # NULL => block'[x].next \in DOMAIN block'
               /\ \A y \in DOMAIN block' : y <= x \/ y >= BlockEnd(x)'
    <3>1. x \in DOMAIN block /\ x # n /\ block'[x] = block[x] /\ BlockEnd(x)' = BlockEnd(x)
      BY <1>4, <1>5, <2>2
    <3>2. block[x].next # NULL => block[x].next # n
      BY <1>1, <1>2, <2>2, <3>1, OneBefore DEF n, b
    <3> QED
      BY <1>2, <1>4, <3>1, <3>2 DEF Tiled
  <2>3. /\ b % ALIGN = 0 /\ block'[b].size > 0 /\ BlockEnd(b)' <= HEAP_SIZE
        /\ block'[b].next = IF BlockEnd(b)' = HEAP_SIZE THEN NULL ELSE BlockEnd(b)'
        /\ block'[b].next # NULL => block'[b].next \in DOMAIN block'
    <3>1. b % ALIGN = 0 /\ (block[n].next # NULL => block[n].next \in DOMAIN block)
      BY <1>2, <1>3 DEF Tiled
    <3>2. block[n].next # n
      BY <1>3, <1>6, <1>7 DEF NULL
    <3> QED
      BY <1>4, <1>5, <1>6, <1>8, <3>1, <3>2 DEF Header
  <2>4. \A y \in DOMAIN block' : y <= b \/ y >= BlockEnd(b)'
    <3>1. SUFFICES ASSUME NEW y \in DOMAIN block, y # n, y # b PROVE y <= b \/ y >= BlockEnd(n)
      BY <1>3, <1>4, <1>5
    <3>2. y \in Nat /\ BlockEnd(y) \in Nat /\ y < BlockEnd(y)
      BY <3>1, BlockFacts
    <3>3. (BlockEnd(y) <= b \/ n <= y) /\ (BlockEnd(y) <= n \/ BlockEnd(n) <= y)
      BY <1>2, <1>3, <3>1, Apart
    <3> QED
      BY <1>3, <1>7, <3>2, <3>3
  <2> QED
    BY <1>1, <1>2, <2>1, <2>2, <2>3, <2>4 DEF Tiled, b
<1>11. HeldFits' /\ UsedIsHeld'
  BY <1>1, <1>4, BlockFacts DEF HeldFits, UsedIsHeld, b, n
<1>12. MoveOwns'
  <2>1. \A p \in DOMAIN live : block'[BlockOf(p)] = block[BlockOf(p)]
    BY <1>1, <1>4 DEF HeldFits, b, n
  <2> QED
    BY <1>1, <2>1 DEF MoveOwns, Context
<1>13. Merged'
  <2>1. SUFFICES ASSUME NEW x \in DOMAIN block', x < b
                 PROVE  block'[x].used \/ block'[x].next = NULL \/ block'[block'[x].next].used
    BY <1>1 DEF Merged, b
  <2>2. x \in DOMAIN block /\ x # n /\ x # b /\ block'[x] = block[x]
    BY <1>3, <1>4, <2>1
  <2>3. block[x].used \/ block[x].next = NULL \/ block[block[x].next].used
    BY <1>1, <2>1, <2>2 DEF Merged, b
  <2>4. block[x].next # NULL => block[x].next \in DOMAIN block
    BY <1>2, <2>2 DEF Tiled
  <2> QED
    BY <1>1, <1>4, <2>2, <2>3, <2>4 DEF b, n
<1>14. PoolUp' /\ FreeWalk' /\ MallocWalk' /\ PassedUnfit'
  BY <1>1, <1>2, <1>3, <1>4 DEF PoolUp, FreeWalk, MallocWalk, PassedUnfit, b, n
<1> QED
  BY <1>9, <1>10, <1>11, <1>12, <1>13, <1>14

\* The block a malloc takes is large enough, and nobody's; a remainder becomes a block of
\* its own.
LEMMA MallocTakeInv == ASSUME IInv, MallocTake PROVE IInv'
<1> USE HeapAssumption DEF IInv
<1> DEFINE b == walk.at
           size == walk.size
           rest == b + HDR + size
<1>1. /\ walk.op = "malloc" /\ b # NULL /\ ~block[b].used /\ block[b].size >= size
      /\ block' = Taken(b)
      /\ live' = [p \in DOMAIN live \cup {DataOf(b)} |->
                    IF p = DataOf(b) THEN walk.want ELSE live[p]]
      /\ moving' = IF walk.old = NULL THEN moving
                   ELSE [moving EXCEPT ![walk.by] = [old |-> walk.old, new |-> DataOf(b)]]
      /\ walk' = NoWalk /\ heap_head' = heap_head
  BY DEF MallocTake
<1>2. b \in DOMAIN block /\ heap_head # NULL /\ heap_head = 0 /\ 0 \in DOMAIN block
  BY <1>1 DEF MallocWalk, PoolUp, TypeOK, Tiled
<1>3. /\ b \in Nat /\ block[b].size \in Nat /\ BlockEnd(b) = b + HDR + block[b].size
      /\ BlockEnd(b) <= HEAP_SIZE /\ b % ALIGN = 0
  BY <1>2, BlockFacts DEF BlockEnd, Tiled
<1>4. size \in Nat /\ size > 0 /\ size % ALIGN = 0 /\ walk.want \in 1 .. size
  BY <1>1 DEF MallocWalk, TypeOK, Walk
<1>5. DataOf(b) \notin DOMAIN live /\ DataOf(b) \in Address /\ BlockOf(DataOf(b)) = b
  <2>1. BlockOf(DataOf(b)) = b
    BY <1>3 DEF BlockOf, DataOf
  <2>2. DataOf(b) \in Address
    BY <1>3, <1>4 DEF DataOf, Address
  <2> QED
    BY <1>1, <2>1, <2>2 DEF HeldFits
<1>6. block[b] \in Header /\ rest \in Nat /\ rest > b
  BY <1>2, <1>3, <1>4 DEF TypeOK
<1>7. walk'.op = "none"
  BY <1>1 DEF NoWalk
<1> HIDE DEF b, size, rest
\* The blocks after it, whether the block was split or not.
<1>8. /\ TypeOK' /\ Tiled' /\ Merged'
      /\ DOMAIN block \subseteq DOMAIN block' /\ block'[b].used /\ block'[b].size >= size
      /\ \A x \in DOMAIN block \ {b} : block'[x] = block[x]
      /\ \A x \in DOMAIN block' \ DOMAIN block : ~block'[x].used
  <2>1. /\ DOMAIN live' \subseteq Address
        /\ \A p \in DOMAIN live' : live'[p] \in 1 .. SIZE_MAX
        /\ moving' \in [Context -> Move] /\ walk' \in Walk /\ heap_head' \in {NULL, 0}
    <3>1. walk.want \in 1 .. SIZE_MAX
      BY <1>4 DEF TypeOK, Walk
    <3>2. [old |-> walk.old, new |-> DataOf(b)] \in Move
      BY <1>5 DEF TypeOK, Walk, Move
    <3>3. DOMAIN live' \subseteq Address /\ \A p \in DOMAIN live' : live'[p] \in 1 .. SIZE_MAX
      BY <1>1, <1>5, <3>1 DEF TypeOK
    <3>4. moving' \in [Context -> Move]
      BY <1>1, <3>2 DEF TypeOK
    <3> QED
      BY <1>1, <3>3, <3>4, NoneTypes DEF TypeOK
  <2>2. \A x \in DOMAIN block : block[x].used \/ block[x].next = NULL \/ block[block[x].next].used
    BY <1>1 DEF Merged
  <2>3. CASE Splits(b)
    <3>1. block[b].size >= size + HDR + ALIGN
      BY <2>3 DEF Splits, size
    <3>2. rest \notin DOMAIN block /\ rest < BlockEnd(b) /\ rest \in Address
      <4>1. rest < BlockEnd(b) /\ rest \in Address
        BY <1>3, <1>4, <3>1 DEF rest, Address
      <4>2. rest \in DOMAIN block => rest <= b \/ rest >= BlockEnd(b)
        BY <1>2 DEF Tiled
      <4> QED
        BY <1>3, <1>6, <4>1, <4>2
    <3>3. block' = [x \in DOMAIN block \cup {rest} |->
                      IF x = b THEN [next |-> rest, size |-> size, used |-> TRUE]
                      ELSE IF x = rest THEN [next |-> block[b].next,
                                             size |-> block[b].size - size - HDR, used |-> FALSE]
                      ELSE block[x]]
      BY <1>1, <2>3 DEF Taken, rest, size
    <3>4. /\ DOMAIN block' = DOMAIN block \cup {rest}
          /\ block'[b] = [next |-> rest, size |-> size, used |-> TRUE]
          /\ block'[rest] = [next |-> block[b].next, size |-> block[b].size - size - HDR,
                             used |-> FALSE]
          /\ \A x \in DOMAIN block \ {b} : block'[x] = block[x]
      BY <1>2, <1>6, <3>2, <3>3
    <3>5. block'[b] \in Header /\ block'[rest] \in Header
      <4>1. size \in 1 .. HEAP_SIZE /\ block[b].size - size - HDR \in 1 .. HEAP_SIZE
        BY <1>3, <1>4, <3>1
      <4>2. block[b].next \in Address \cup {NULL}
        BY <1>6 DEF Header
      <4> QED
        BY <3>2, <3>4, <4>1, <4>2 DEF Header
    <3>6. TypeOK'
      <4>1. DOMAIN block' \subseteq Address /\ \A x \in DOMAIN block' : block'[x] \in Header
        BY <3>2, <3>4, <3>5 DEF TypeOK
      <4> QED
        BY <2>1, <4>1 DEF TypeOK
    <3>7. /\ b + HDR + block'[b].size = rest /\ rest + HDR + block'[rest].size = BlockEnd(b)
          /\ block'[b].size > 0 /\ block'[rest].size > 0
      BY <1>3, <1>4, <3>1, <3>4 DEF rest
    <3>8. rest % ALIGN = 0
      <4>1. (b + HDR) % ALIGN = 0 /\ b + HDR \in Nat
        BY <1>3, SumMod
      <4> QED
        BY <1>4, <4>1, SumMod DEF rest
    <3>9. Tiled'
      <4> DEFINE End(x) == x + HDR + block'[x].size
      <4>1. \A x \in DOMAIN block \ {b} : End(x) = BlockEnd(x)
        BY <3>4 DEF BlockEnd
      <4>2. End(b) = rest /\ End(rest) = BlockEnd(b)
        BY <3>7
      <4> HIDE DEF End
      <4>3. ASSUME NEW x \in DOMAIN block \ {b}
            PROVE  /\ x % ALIGN = 0 /\ block'[x].size > 0 /\ End(x) <= HEAP_SIZE
                   /\ block'[x].next = IF End(x) = HEAP_SIZE THEN NULL ELSE End(x)
                   /\ block'[x].next # NULL => block'[x].next \in DOMAIN block'
                   /\ \A y \in DOMAIN block' : y <= x \/ y >= End(x)
        <5>1. rest <= x \/ rest >= BlockEnd(x)
          <6>1. x \in Nat /\ BlockEnd(x) \in Nat /\ BlockEnd(b) \in Nat
            BY <1>2, BlockFacts
          <6>2. BlockEnd(x) <= b \/ BlockEnd(b) <= x
            BY <1>2, <4>3, Apart
          <6> QED
            BY <1>3, <1>6, <3>2, <6>1, <6>2
        <5> QED
          BY <1>2, <3>4, <4>1, <5>1 DEF Tiled
      <4>4. ASSUME NEW y \in DOMAIN block, y # b PROVE (y <= b \/ y >= rest) /\ (y <= rest \/ y >= BlockEnd(b))
        <5>1. y \in Nat /\ BlockEnd(y) \in Nat /\ y < BlockEnd(y) /\ BlockEnd(b) \in Nat
          BY <1>2, BlockFacts
        <5>2. BlockEnd(y) <= b \/ BlockEnd(b) <= y
          BY <1>2, <4>4, Apart
        <5> QED
          BY <1>3, <1>6, <3>2, <5>1, <5>2
      <4>5. /\ b % ALIGN = 0 /\ block'[b].size > 0 /\ End(b) <= HEAP_SIZE
            /\ block'[b].next = IF End(b) = HEAP_SIZE THEN NULL ELSE End(b)
            /\ block'[b].next # NULL => block'[b].next \in DOMAIN block'
            /\ \A y \in DOMAIN block' : y <= b \/ y >= End(b)
        BY <1>3, <1>6, <3>2, <3>4, <3>7, <4>2, <4>4
      <4>6. /\ rest % ALIGN = 0 /\ block'[rest].size > 0 /\ End(rest) <= HEAP_SIZE
            /\ block'[rest].next = IF End(rest) = HEAP_SIZE THEN NULL ELSE End(rest)
            /\ block'[rest].next # NULL => block'[rest].next \in DOMAIN block'
            /\ \A y \in DOMAIN block' : y <= rest \/ y >= End(rest)
        <5>1. block[b].next = (IF BlockEnd(b) = HEAP_SIZE THEN NULL ELSE BlockEnd(b))
              /\ (block[b].next # NULL => block[b].next \in DOMAIN block)
          BY <1>2 DEF Tiled
        <5> QED
          BY <1>3, <1>6, <3>4, <3>7, <3>8, <4>2, <4>4, <5>1
      <4>7. \A x \in DOMAIN block' : BlockEnd(x)' = End(x)
        BY DEF BlockEnd, End
      <4>8. heap_head' \in DOMAIN block'
        BY <1>1, <1>2, <3>4
      <4>9. ASSUME NEW x \in DOMAIN block'
            PROVE  /\ x % ALIGN = 0 /\ block'[x].size > 0 /\ End(x) <= HEAP_SIZE
                   /\ block'[x].next = IF End(x) = HEAP_SIZE THEN NULL ELSE End(x)
                   /\ block'[x].next # NULL => block'[x].next \in DOMAIN block'
                   /\ \A y \in DOMAIN block' : y <= x \/ y >= End(x)
        BY <3>4, <4>3, <4>5, <4>6
      <4> QED
        BY <4>7, <4>8, <4>9 DEF Tiled
    <3>10. Merged'
      <4>1. block[b].next = NULL \/ (block[b].next \in DOMAIN block /\ block[block[b].next].used)
        BY <1>1, <1>2, <2>2 DEF Tiled, b
      <4>2. block'[b].used /\ block'[rest].next = block[b].next
        BY <3>4
      <4>3. ASSUME NEW x \in DOMAIN block \ {b}
            PROVE  block'[x].used \/ block'[x].next = NULL \/ block'[block'[x].next].used
        <5>1. block[x].next # NULL => block[x].next \in DOMAIN block
          BY <1>2 DEF Tiled
        <5> QED
          BY <2>2, <3>4, <4>2, <5>1
      <4>4. block'[rest].next = NULL \/ block'[block'[rest].next].used
        BY <1>1, <3>4, <4>1, <4>2 DEF b
      <4> QED
        BY <3>4, <4>2, <4>3, <4>4 DEF Merged
    <3> QED
      BY <1>4, <3>4, <3>6, <3>9, <3>10
  <2>4. CASE ~Splits(b)
    <3>1. block' = [block EXCEPT ![b].used = TRUE]
      BY <1>1, <2>4 DEF Taken
    <3>2. /\ DOMAIN block' = DOMAIN block
          /\ block'[b] \in Header /\ block'[b].used /\ block'[b].size = block[b].size
          /\ block'[b].next = block[b].next
          /\ \A x \in DOMAIN block \ {b} : block'[x] = block[x]
      BY <1>2, <1>6, <3>1 DEF Header
    <3>3. TypeOK'
      BY <2>1, <3>2 DEF TypeOK
    <3>4. \A x \in DOMAIN block : /\ BlockEnd(x)' = BlockEnd(x) /\ block'[x].next = block[x].next
                                  /\ block'[x].size = block[x].size
      BY <3>2 DEF BlockEnd
    <3>5. Tiled'
      BY <1>1, <1>2, <3>2, <3>4 DEF Tiled
    <3>6. Merged'
      <4>1. \A x \in DOMAIN block : block[x].used => block'[x].used
        BY <3>2
      <4>2. \A x \in DOMAIN block : block[x].next # NULL => block[x].next \in DOMAIN block
        BY <1>2 DEF Tiled
      <4> QED
        BY <2>2, <3>2, <3>4, <4>1, <4>2 DEF Merged
    <3> QED
      BY <1>1, <3>2, <3>3, <3>5, <3>6 DEF b, size
  <2> QED
    BY <2>3, <2>4
<1>9. HeldFits'
  <2>1. SUFFICES ASSUME NEW p \in DOMAIN live'
                 PROVE  /\ BlockOf(p) \in DOMAIN block' /\ block'[BlockOf(p)].used
                        /\ live'[p] <= block'[BlockOf(p)].size
    BY DEF HeldFits, BlockOf
  <2>2. CASE p = DataOf(b)
    <3>1. live'[p] = walk.want /\ block'[b].size \in Nat
      BY <1>1, <1>2, <1>8, <2>2 DEF TypeOK, Header
    <3> QED
      BY <1>2, <1>4, <1>5, <1>8, <2>2, <3>1
  <2>3. CASE p # DataOf(b)
    <3>1. p \in DOMAIN live /\ live'[p] = live[p]
      BY <1>1, <2>1, <2>3
    <3>2. BlockOf(p) # b /\ BlockOf(p) \in DOMAIN block
      BY <1>1, <3>1 DEF HeldFits, b
    <3> QED
      BY <1>8, <3>1, <3>2 DEF HeldFits
  <2> QED
    BY <2>2, <2>3
<1>10. UsedIsHeld'
  BY <1>1, <1>8 DEF UsedIsHeld, DataOf
<1>11. MoveOwns'
  <2>1. /\ DOMAIN live \subseteq DOMAIN live' /\ DataOf(b) \in DOMAIN live'
        /\ \A p \in DOMAIN live : block'[BlockOf(p)] = block[BlockOf(p)]
    BY <1>1, <1>8 DEF HeldFits, b
  <2>2. CASE walk.old = NULL
    BY <1>1, <2>1, <2>2 DEF MoveOwns, Context
  <2>3. CASE walk.old # NULL
    <3>1. /\ walk.by \in Context /\ walk.old \in DOMAIN live
          /\ block[BlockOf(walk.old)].size < size
          /\ \A c \in Context : walk.old \notin {moving[c].old, moving[c].new}
      BY <1>1, <2>3 DEF MallocWalk, TypeOK, Walk, size
    <3>2. /\ moving'[walk.by] = [old |-> walk.old, new |-> DataOf(b)]
          /\ \A c \in Context \ {walk.by} : moving'[c] = moving[c]
      BY <1>1, <2>3, <3>1 DEF TypeOK
    <3>3. block'[BlockOf(walk.old)].size <= block'[BlockOf(DataOf(b))].size
      <4>1. block[BlockOf(walk.old)].size \in Nat
        BY <3>1, BlockFacts DEF HeldFits
      <4>2. block'[b].size \in Nat
        BY <1>2, <1>8 DEF TypeOK, Header
      <4> QED
        BY <1>4, <1>5, <1>8, <2>1, <3>1, <4>1, <4>2
    <3>4. ASSUME NEW c \in Context, moving'[c] # NoMove
          PROVE  /\ moving'[c].old \in DOMAIN live' /\ moving'[c].new \in DOMAIN live'
                 /\ moving'[c].old # moving'[c].new
                 /\ block'[BlockOf(moving'[c].old)].size <= block'[BlockOf(moving'[c].new)].size
      <4>1. CASE c = walk.by
        BY <1>5, <2>1, <3>1, <3>2, <3>3, <4>1
      <4>2. CASE c # walk.by
        BY <2>1, <3>2, <3>4, <4>2 DEF MoveOwns
      <4> QED
        BY <4>1, <4>2
    <3>5. ASSUME moving'["thread"] # NoMove, moving'["irq"] # NoMove
          PROVE  {moving'["thread"].old, moving'["thread"].new}
                   \cap {moving'["irq"].old, moving'["irq"].new} = {}
      <4>1. ASSUME NEW c \in Context \ {walk.by}, moving[c] # NoMove
            PROVE  {moving[c].old, moving[c].new} \cap {walk.old, DataOf(b)} = {}
        BY <1>5, <3>1, <4>1 DEF MoveOwns
      <4> QED
        BY <3>1, <3>2, <3>5, <4>1 DEF Context
    <3> QED
      BY <3>4, <3>5 DEF MoveOwns, BlockOf
  <2> QED
    BY <2>2, <2>3
<1>12. PoolUp' /\ MallocWalk' /\ PassedUnfit' /\ FreeWalk'
  BY <1>1, <1>2, <1>7 DEF PoolUp, MallocWalk, PassedUnfit, FreeWalk
<1> QED
  BY <1>8, <1>9, <1>10, <1>11, <1>12

\* A pointer that no other realloc is at is given back: its block is free, and the walk
\* that merges it begins.
LEMMA FreeBeginInv ==
  ASSUME IInv, NEW c \in Context, NEW p \in DOMAIN live, walk.op = "none", FreeBegin(c, p),
         moving' \in [Context -> Move],
         \A d \in Context : moving'[d] # NoMove =>
           moving'[d] = moving[d] /\ p \notin {moving[d].old, moving[d].new}
  PROVE  IInv'
<1> USE HeapAssumption DEF IInv
<1> DEFINE b == BlockOf(p)
<1>1. /\ block' = [block EXCEPT ![b].used = FALSE]
      /\ live' = [q \in DOMAIN live \ {p} |-> live[q]]
      /\ walk' = [NoWalk EXCEPT !.op = "free", !.at = heap_head, !.by = c]
      /\ heap_head' = heap_head
  BY DEF FreeBegin
<1>2. b \in DOMAIN block /\ heap_head # NULL /\ heap_head = 0 /\ 0 \in DOMAIN block
  BY DEF HeldFits, PoolUp, TypeOK, Tiled
<1>3. p \in Nat /\ \A q \in DOMAIN live : q \in Nat /\ (BlockOf(q) = b => q = p)
  BY DEF TypeOK, Address, BlockOf
<1>4. DataOf(b) = p
  BY <1>3 DEF DataOf, BlockOf
<1> HIDE DEF b
<1>5. /\ DOMAIN block' = DOMAIN block
      /\ block'[b] \in Header /\ ~block'[b].used /\ block'[b].size = block[b].size
      /\ block'[b].next = block[b].next
      /\ \A x \in DOMAIN block \ {b} : block'[x] = block[x]
  <2>1. block[b] \in Header
    BY <1>2 DEF TypeOK
  <2> QED
    BY <1>1, <1>2, <2>1 DEF Header
<1>6. walk' \in Walk /\ walk'.op = "free" /\ walk'.at = 0
  <2>1. walk' \in Walk
    <3>1. heap_head \in Address
      BY <1>2 DEF Address
    <3> QED
      BY <1>1, <3>1, NoneTypes DEF Walk
  <2>2. walk'.op = "free" /\ walk'.at = 0
    BY <1>1, <1>2 DEF NoWalk
  <2> QED
    BY <2>1, <2>2
<1>7. DOMAIN live' = DOMAIN live \ {p} /\ \A q \in DOMAIN live' : live'[q] = live[q]
  BY <1>1
<1>8. \A q \in DOMAIN live' : BlockOf(q) \in DOMAIN block /\ block'[BlockOf(q)] = block[BlockOf(q)]
  BY <1>3, <1>5, <1>7 DEF HeldFits
<1>9. TypeOK'
  BY <1>1, <1>5, <1>6, <1>7 DEF TypeOK
<1>10. Tiled'
  <2>1. \A x \in DOMAIN block : /\ BlockEnd(x)' = BlockEnd(x) /\ block'[x].next = block[x].next
                                /\ block'[x].size = block[x].size
    BY <1>5 DEF BlockEnd
  <2> QED
    BY <1>1, <1>2, <1>5, <2>1 DEF Tiled
<1>11. HeldFits'
  BY <1>5, <1>7, <1>8 DEF HeldFits, BlockOf
<1>12. UsedIsHeld'
  <2>1. SUFFICES ASSUME NEW x \in DOMAIN block, x # b, block[x].used PROVE DataOf(x) \in DOMAIN live'
    BY <1>5 DEF UsedIsHeld, DataOf
  <2>2. x \in Nat /\ b \in Nat
    BY <1>2, BlockFacts
  <2>3. DataOf(x) # p
    BY <1>4, <2>1, <2>2 DEF DataOf
  <2> QED
    BY <1>7, <2>1, <2>3 DEF UsedIsHeld
<1>13. MoveOwns'
  <2>1. ASSUME NEW d \in Context, moving'[d] # NoMove
        PROVE  /\ moving'[d].old \in DOMAIN live' /\ moving'[d].new \in DOMAIN live'
               /\ moving'[d].old # moving'[d].new
               /\ block'[BlockOf(moving'[d].old)].size <= block'[BlockOf(moving'[d].new)].size
    BY <1>7, <1>8, <2>1 DEF MoveOwns
  <2>2. ASSUME moving'["thread"] # NoMove, moving'["irq"] # NoMove
        PROVE  {moving'["thread"].old, moving'["thread"].new}
                 \cap {moving'["irq"].old, moving'["irq"].new} = {}
    BY <2>2 DEF MoveOwns, Context
  <2> QED
    BY <2>1, <2>2 DEF MoveOwns, BlockOf
<1>14. Merged'
  BY <1>5, <1>6, BlockFacts DEF Merged
<1>15. PoolUp' /\ MallocWalk' /\ PassedUnfit' /\ FreeWalk'
  BY <1>1, <1>2, <1>5, <1>6 DEF PoolUp, MallocWalk, PassedUnfit, FreeWalk
<1> QED
  BY <1>9, <1>10, <1>11, <1>12, <1>13, <1>14, <1>15

LEMMA ReallocInv ==
  ASSUME IInv, NEW c \in Context, NEW p \in Held, NEW size \in Sizes, Realloc(c, p, size)
  PROVE  IInv'
<1> USE HeapAssumption
<1>1. p \in DOMAIN live /\ \A d \in Context : p \notin {moving[d].old, moving[d].new}
  BY DEF Held
<1>2. MayCall(c) /\ walk.op = "none" /\ moving \in [Context -> Move] /\ size \in Nat
  BY DEF Realloc, MayCall, IInv, TypeOK
<1>3. CASE size = 0 /\ FreeBegin(c, p) /\ UNCHANGED moving
  BY <1>1, <1>2, <1>3, FreeBeginInv
<1>4. CASE /\ size # 0 /\ block[BlockOf(p)].size >= size
           /\ live' = [live EXCEPT ![p] = size]
           /\ UNCHANGED <<heap_head, block, walk, moving>>
  <2> USE DEF IInv
  <2>1. DOMAIN live' = DOMAIN live /\ \A q \in DOMAIN live : live'[q] = IF q = p THEN size ELSE live[q]
    BY <1>1, <1>4
  <2>2. size \in 1 .. SIZE_MAX
    BY <1>4
  <2>3. TypeOK'
    BY <1>4, <2>1, <2>2 DEF TypeOK
  <2>4. HeldFits'
    BY <1>4, <2>1 DEF HeldFits, BlockOf
  <2>5. Tiled' /\ UsedIsHeld' /\ Merged'
    BY <1>4, <2>1 DEF Tiled, BlockEnd, UsedIsHeld, Merged
  <2>6. PoolUp' /\ MoveOwns' /\ MallocWalk' /\ PassedUnfit' /\ FreeWalk'
    BY <1>2, <1>4, <2>1 DEF PoolUp, MoveOwns, MallocWalk, PassedUnfit, FreeWalk
  <2> QED
    BY <2>3, <2>4, <2>5, <2>6
<1>5. CASE block[BlockOf(p)].size < size /\ MallocBegin(c, size, size, p)
  BY <1>2, <1>5, MallocBeginInv
<1> QED
  BY <1>3, <1>4, <1>5 DEF Realloc

LEMMA ReallocMovedInv == ASSUME IInv, NEW c \in Context, ReallocMoved(c) PROVE IInv'
<1>1. /\ walk.op = "none" /\ moving[c] # NoMove /\ FreeBegin(c, moving[c].old)
      /\ moving' = [moving EXCEPT ![c] = NoMove] /\ moving \in [Context -> Move]
  BY DEF ReallocMoved, IInv, TypeOK
<1>2. moving[c].old \in DOMAIN live
  BY <1>1 DEF IInv, MoveOwns
<1>3. moving' \in [Context -> Move]
  BY <1>1, NoneTypes
<1>4. ASSUME NEW d \in Context, moving'[d] # NoMove
      PROVE  moving'[d] = moving[d] /\ moving[c].old \notin {moving[d].old, moving[d].new}
  <2>1. d # c /\ moving'[d] = moving[d]
    BY <1>1, <1>4
  <2> QED
    BY <1>1, <1>4, <2>1 DEF IInv, MoveOwns, Context
<1> QED
  BY <1>1, <1>2, <1>3, <1>4, FreeBeginInv

LEMMA CallInv == ASSUME IInv, NEW c \in Context, Call(c) PROVE IInv'
<1> USE HeapAssumption
<1>1. ASSUME NEW size \in Sizes, Malloc(c, size) PROVE IInv'
  BY <1>1, MallocBeginInv DEF Malloc
<1>2. ASSUME NEW nitems \in Counts, NEW size \in Sizes, Calloc(c, nitems, size) PROVE IInv'
  <2>1. nitems \in Nat /\ size \in Nat
    OBVIOUS
  <2>2. (nitems * size) % (SIZE_MAX + 1) = nitems * size /\ nitems * size \in Nat
    BY <1>2, <2>1, CallocProduct DEF Calloc
  <2>3. MayCall(c) /\ MallocBegin(c, nitems * size, nitems * size, NULL)
    BY <1>2, <2>2 DEF Calloc
  <2> QED
    BY <2>2, <2>3, MallocBeginInv
<1>3. ASSUME NEW p \in Held, Free(c, p) PROVE IInv'
  <2>1. p \in DOMAIN live /\ \A d \in Context : p \notin {moving[d].old, moving[d].new}
    BY DEF Held
  <2>2. walk.op = "none" /\ FreeBegin(c, p) /\ moving' = moving /\ moving \in [Context -> Move]
    BY <1>3 DEF Free, MayCall, IInv, TypeOK
  <2> QED
    BY <2>1, <2>2, FreeBeginInv
<1>4. ASSUME NEW p \in Held, NEW size \in Sizes, Realloc(c, p, size) PROVE IInv'
  BY <1>4, ReallocInv
<1> QED
  BY <1>1, <1>2, <1>3, <1>4 DEF Call

LEMMA WalkStepInv == ASSUME IInv, WalkStep PROVE IInv'
<1>1. CASE MallocFail
  BY <1>1, WalkOverInv DEF MallocFail
<1>2. CASE FreeEnd
  BY <1>2, WalkOverInv DEF FreeEnd
<1> QED
  BY <1>1, <1>2, MallocSkipInv, MallocTakeInv, CoalesceInv, FreeSkipInv DEF WalkStep

LEMMA NextInv == IInv /\ [Next]_vars => IInv'
<1> SUFFICES ASSUME IInv, [Next]_vars PROVE IInv'
  OBVIOUS
<1>1. CASE UNCHANGED vars
  BY <1>1 DEF vars, IInv, TypeOK, PoolUp, Tiled, BlockEnd, HeldFits, UsedIsHeld, MoveOwns,
     MallocWalk,
     PassedUnfit, FreeWalk, Merged
<1>2. ASSUME NEW c \in Context, Call(c) \/ ReallocMoved(c) PROVE IInv'
  BY <1>2, CallInv, ReallocMovedInv
<1> QED
  BY <1>1, <1>2, OsalInitInv, OsalDeinitInv, WalkStepInv DEF Next

LEMMA Invariant == Spec => []IInv
BY InitInv, NextInv, PTL DEF Spec

-----------------------------------------------------------------------------
(* What the invariant says of callers *)

LEMMA HeldApart ==
  ASSUME IInv, NEW p \in DOMAIN live
  PROVE  /\ p \in Nat /\ live[p] \in Nat /\ live[p] > 0 /\ p + live[p] <= HEAP_SIZE
         /\ BlockOf(p) \in DOMAIN block
         /\ \A b \in DOMAIN block : b # BlockOf(p) => p + live[p] <= b \/ BlockEnd(b) <= BlockOf(p)
<1> USE HeapAssumption DEF IInv
<1>1. heap_head # NULL /\ p \in Nat /\ live[p] \in Nat /\ live[p] > 0
  BY DEF PoolUp, TypeOK, Address
<1>2. BlockOf(p) \in DOMAIN block /\ live[p] <= block[BlockOf(p)].size
  BY DEF HeldFits
<1>3. p + live[p] <= BlockEnd(BlockOf(p)) /\ BlockEnd(BlockOf(p)) \in Nat
  <2>1. block[BlockOf(p)].size \in Nat /\ BlockEnd(BlockOf(p)) \in Nat
    BY <1>2, BlockFacts
  <2>2. BlockEnd(BlockOf(p)) = p + block[BlockOf(p)].size
    BY <1>1, <2>1 DEF BlockEnd, BlockOf
  <2> QED
    BY <1>1, <1>2, <2>1, <2>2
<1>4. BlockEnd(BlockOf(p)) <= HEAP_SIZE
  BY <1>1, <1>2 DEF Tiled
<1>5. ASSUME NEW b \in DOMAIN block, b # BlockOf(p)
      PROVE  p + live[p] <= b \/ BlockEnd(b) <= BlockOf(p)
  <2>1. b \in Nat /\ BlockEnd(b) \in Nat
    BY BlockFacts
  <2>2. BlockEnd(b) <= BlockOf(p) \/ BlockEnd(BlockOf(p)) <= b
    BY <1>1, <1>2, <1>5, Apart
  <2> QED
    BY <1>1, <1>3, <2>1, <2>2
<1> QED
  BY <1>1, <1>2, <1>3, <1>4, <1>5

\* What a caller is handed, or keeps with another size, is vacant.
LEMMA FitsInBlock ==
  ASSUME IInv, NEW b \in DOMAIN block, NEW n \in Nat, n > 0, n <= block[b].size
  PROVE  /\ Promise!Fits(DataOf(b), n) /\ DataOf(b) \in 0 .. HEAP_SIZE /\ n \in 1 .. HEAP_SIZE
         /\ Promise!Vacant(DataOf(b), n)
<1> USE HeapAssumption
<1>1. heap_head # NULL /\ b \in Nat /\ block[b].size \in Nat /\ BlockEnd(b) <= HEAP_SIZE
  BY BlockFacts DEF IInv, PoolUp, Tiled
<1>2. Promise!Fits(DataOf(b), n) /\ DataOf(b) \in 0 .. HEAP_SIZE /\ n \in 1 .. HEAP_SIZE
  BY <1>1 DEF Promise!Fits, DataOf, BlockEnd
<1>3. ASSUME NEW q \in DOMAIN live, q # DataOf(b) PROVE DataOf(b) + n <= q \/ q + live[q] <= DataOf(b)
  <2>1. q \in Nat /\ live[q] \in Nat
    BY HeldApart
  <2>2. b # BlockOf(q)
    BY <1>1, <1>3, <2>1 DEF BlockOf, DataOf
  <2>3. q + live[q] <= b \/ BlockEnd(b) <= BlockOf(q)
    BY <2>2, HeldApart
  <2> QED
    BY <1>1, <2>1, <2>3 DEF BlockEnd, BlockOf, DataOf
<1> QED
  BY <1>2, <1>3 DEF Promise!Vacant, Promise!Disjoint

-----------------------------------------------------------------------------
(* The theorems *)

\* The variables keep their types.
THEOREM TypeCorrect == Spec => []TypeOK
<1>1. IInv => TypeOK
  BY DEF IInv
<1> QED
  BY <1>1, Invariant, PTL

\* For every pool, alignment and header size, and whatever sizes are asked for, the blocks
\* tile the pool at every step of every walk (mm_halow_osal_malloc, mm_halow_osal_free).
THEOREM PoolIsTiled == Spec => []Tiled
<1>1. IInv => Tiled
  BY DEF IInv
<1> QED
  BY <1>1, Invariant, PTL

\* No size near SIZE_MAX and no product of calloc_ gets a caller fewer bytes than it asked
\* for, and no realloc_ copies more than its new block holds.
THEOREM CallersOwnTheirBytes == Spec => []HeldIsOwn
<1>1. IInv => HeldIsOwn
  <2> SUFFICES ASSUME IInv PROVE HeldIsOwn
    OBVIOUS
  <2>1. \A p \in DOMAIN live : BlockOf(p) \in DOMAIN block /\ block[BlockOf(p)].used
    BY DEF IInv, HeldFits
  <2>2. \A c \in Context : moving[c] # NoMove =>
          /\ {moving[c].old, moving[c].new} \subseteq DOMAIN live
          /\ block[BlockOf(moving[c].old)].size <= block[BlockOf(moving[c].new)].size
    BY DEF IInv, MoveOwns
  <2> QED
    BY <2>1, <2>2, HeldApart DEF HeldIsOwn
<1> QED
  BY <1>1, Invariant, PTL

\* Every block in use has a caller that will free it, and a free leaves no two free
\* neighbours (mm_halow_osal_free).
THEOREM NothingIsLeaked == Spec => []NothingLeaks
<1>1. IInv => NothingLeaks
  <2> SUFFICES ASSUME IInv PROVE NothingLeaks
    OBVIOUS
  <2>1. ASSUME NEW b \in DOMAIN block, DataOf(b) \in DOMAIN live PROVE block[b].used
    <3>1. BlockOf(DataOf(b)) = b
      BY BlockFacts, HeapAssumption DEF IInv, BlockOf, DataOf
    <3> QED
      BY <2>1, <3>1 DEF IInv, HeldFits
  <2>2. \A b \in DOMAIN block : block[b].used <=> DataOf(b) \in DOMAIN live
    BY <2>1 DEF IInv, UsedIsHeld
  <2>3. walk.op # "free" =>
          \A b \in DOMAIN block : ~block[b].used /\ block[b].next # NULL => block[block[b].next].used
    BY DEF IInv, Merged
  <2> QED
    BY <2>2, <2>3 DEF NothingLeaks
<1> QED
  BY <1>1, Invariant, PTL

\* First fit looks at every block before it gives up (mm_halow_osal_malloc).
THEOREM FailureIsHonest == Spec => []FailsOnlyWhenFull
<1>1. IInv => FailsOnlyWhenFull
  BY DEF IInv, PassedUnfit, FailsOnlyWhenFull
<1> QED
  BY <1>1, Invariant, PTL

\* The heap implements what morselib is promised: taking a block is Acquire, a realloc in
\* place Resize, the start of a free GiveBack, deinit Abandon, and no other step, of a walk
\* or of a split, is seen by a caller.
THEOREM HeapKeepsPromise == Spec => KeepsPromise
<1>1. Init => Promise!Init
  BY DEF Init, Promise!Init
<1>2. IInv /\ [Next]_vars => [Promise!Next]_live
  <2> SUFFICES ASSUME IInv, [Next]_vars PROVE Promise!Next \/ UNCHANGED live
    OBVIOUS
  <2> USE HeapAssumption
  <2>1. CASE OsalDeinit
    BY <2>1 DEF OsalDeinit, Promise!Next, Promise!Abandon
  <2>2. CASE MallocTake
    <3>1. walk.at \in DOMAIN block /\ ~block[walk.at].used /\ block[walk.at].size >= walk.size
          /\ walk.want \in 1 .. walk.size /\ walk.size \in Nat /\ block[walk.at].size \in Nat
      BY <2>2, BlockFacts DEF MallocTake, IInv, MallocWalk, TypeOK, Walk
    <3>2. walk.want \in Nat /\ walk.want > 0 /\ walk.want <= block[walk.at].size
      BY <3>1
    <3>3. DataOf(walk.at) \notin DOMAIN live
      <4>1. BlockOf(DataOf(walk.at)) = walk.at
        BY <3>1, BlockFacts DEF IInv, BlockOf, DataOf
      <4> QED
        BY <3>1, <4>1 DEF IInv, HeldFits
    <3>4. Promise!Acquire(DataOf(walk.at), walk.want)
      BY <2>2, <3>1, <3>2, <3>3, FitsInBlock DEF MallocTake, Promise!Acquire
    <3> QED
      BY <3>1, <3>2, <3>4, FitsInBlock DEF Promise!Next
  <2>3. ASSUME NEW c \in Context, NEW p \in DOMAIN live, FreeBegin(c, p) PROVE Promise!Next
    BY <2>3 DEF FreeBegin, Promise!Next, Promise!GiveBack
  <2>4. ASSUME NEW c \in Context, Call(c) PROVE Promise!Next \/ UNCHANGED live
    <3>1. ASSUME NEW p \in Held, NEW size \in Sizes, Realloc(c, p, size)
          PROVE  Promise!Next \/ UNCHANGED live
      <4>1. p \in DOMAIN live /\ BlockOf(p) \in DOMAIN block /\ size \in Nat /\ p \in Nat
        BY HeldApart DEF Held
      <4>2. CASE FreeBegin(c, p)
        BY <2>3, <4>1, <4>2
      <4>3. CASE /\ size # 0 /\ block[BlockOf(p)].size >= size
                 /\ live' = [live EXCEPT ![p] = size]
        <5>1. DataOf(BlockOf(p)) = p
          BY <4>1 DEF DataOf, BlockOf
        <5>2. size > 0 /\ size <= block[BlockOf(p)].size
          BY <4>1, <4>3, BlockFacts DEF IInv
        <5>3. Promise!Resize(p, size)
          BY <4>1, <4>3, <5>1, <5>2, FitsInBlock DEF Promise!Resize
        <5> QED
          BY <4>1, <5>1, <5>2, <5>3, FitsInBlock DEF Promise!Next
      <4>4. CASE MallocBegin(c, size, size, p)
        BY <4>4 DEF MallocBegin
      <4> QED
        BY <3>1, <4>2, <4>3, <4>4 DEF Realloc
    <3>2. ASSUME NEW p \in Held, Free(c, p) PROVE Promise!Next
      BY <2>3, <3>2 DEF Free, Held
    <3> QED
      BY <2>4, <3>1, <3>2 DEF Call, Malloc, Calloc, MallocBegin
  <2>5. ASSUME NEW c \in Context, ReallocMoved(c) PROVE Promise!Next
    <3>1. moving[c].old \in DOMAIN live
      BY <2>5 DEF ReallocMoved, IInv, MoveOwns
    <3> QED
      BY <2>3, <2>5, <3>1 DEF ReallocMoved
  <2>6. CASE UNCHANGED vars \/ OsalInit \/ MallocSkip \/ MallocFail \/ Coalesce \/ FreeSkip \/ FreeEnd
    BY <2>6 DEF vars, OsalInit, MallocSkip, MallocFail, Coalesce, FreeSkip, FreeEnd
  <2> QED
    BY <2>1, <2>2, <2>4, <2>5, <2>6 DEF Next, WalkStep
<1> QED
  BY <1>1, <1>2, Invariant, PTL DEF Spec, KeepsPromise, Promise!Spec
=============================================================================
