------------------------------- MODULE PktMem -------------------------------
(***************************************************************************)
(* The packet memory of mm_halow_pktmem.c: data packets counted against a  *)
(* bound, command packets from a reserved pool, and the flow control of    *)
(* the transmit path.                                                      *)
(*                                                                         *)
(* The counters are atomics and the lists are behind critical sections,    *)
(* but a call is a sequence of such steps: PendSV preempts the thread      *)
(* between any two of them, and runs to completion.  Packets are counted;  *)
(* a call whose size is refused changes nothing and has no action.         *)
(***************************************************************************)
EXTENDS Integers

CONSTANTS
  TX_BLOCKS,    \* MM_HALOW_TX_BLOCKS
  RX_BLOCKS,    \* MM_HALOW_RX_BLOCKS
  N_BLOCKS,     \* MM_HALOW_TX_COMMAND_N_BLOCKS and MM_HALOW_RX_COMMAND_N_BLOCKS
  TRIES         \* how often deinit looks for the packets to come home

ASSUME PktMemAssumption ==
  /\ TX_BLOCKS \in Nat /\ TX_BLOCKS >= 3
  /\ RX_BLOCKS \in Nat /\ RX_BLOCKS >= 2
  /\ N_BLOCKS \in Nat \ {0} /\ TRIES \in Nat \ {0}

PAUSE_THRESHOLD == TX_BLOCKS - 1
UNPAUSE_THRESHOLD == TX_BLOCKS - 2

Context == {"thread", "irq"}
Way == {"tx", "rx"}
Blocks(w) == IF w = "tx" THEN TX_BLOCKS ELSE RX_BLOCKS

VARIABLES
  data_allocated,   \* [Way -> pktmem.tx_data_allocated, pktmem.rx_data_allocated]
  tx_data_paused,   \* pktmem.tx_data_paused
  command_free,     \* [Way -> length of the free list of the reserved pool]
  command_pool,     \* [Way -> the reserved pool: "none", "held", or "freed" under its users]
  running,          \* between init and deinit
  call,             \* [Context -> the call it is in, and where]
  data,             \* [Way -> data packets in somebody's hands]
  command,          \* [Way -> packets of the reserved pool in somebody's hands]
  told              \* what the data path was told last: paused or not

vars == <<data_allocated, tx_data_paused, command_free, command_pool, running, call,
          data, command, told>>
counts == <<data_allocated, tx_data_paused, command_free, command_pool>>
packets == <<data, command>>

Idle == [at |-> "idle", way |-> "tx", mine |-> FALSE, tries |-> 0]

\* PendSV when it is active, the thread when it is not.
Executing(c) == c = "irq" \/ call["irq"] = Idle
At(c, place) == Executing(c) /\ call[c].at = place
Goto(c, place) == call' = [call EXCEPT ![c].at = place]
Return(c) == call' = [call EXCEPT ![c] = Idle]

-----------------------------------------------------------------------------
(* Init and deinit *)

\* mmhal_wlan_pktmem_init: a pool the heap cannot supply is done without.
PktmemInit ==
  /\ At("thread", "idle") /\ ~running
  /\ \E supplied \in SUBSET Way :
       /\ command_pool' = [w \in Way |-> IF w \in supplied THEN "held" ELSE "none"]
       /\ command_free' = [w \in Way |-> IF w \in supplied THEN N_BLOCKS ELSE 0]
  /\ data_allocated' = [w \in Way |-> 0]
  /\ tx_data_paused' = FALSE
  /\ told' = FALSE
  /\ running' = TRUE
  /\ data' = [w \in Way |-> 0]
  /\ command' = [w \in Way |-> 0]
  /\ UNCHANGED call

DeinitBegin ==
  /\ At("thread", "idle") /\ running
  /\ running' = FALSE
  /\ call' = [call EXCEPT !["thread"] = [Idle EXCEPT !.at = "drain"]]
  /\ UNCHANGED <<counts, packets, told>>

\* Fault: the reserved pools are not looked at.
FaultDrained == \A w \in Way : data_allocated[w] = 0

\* Every packet is home.
Drained ==
  \A w \in Way : /\ data_allocated[w] = 0
                 /\ command_pool[w] = "none" \/ command_free[w] = N_BLOCKS

\* The thread finds a packet out and sleeps: others run meanwhile.
DeinitSleep ==
  /\ At("thread", "drain") /\ ~Drained
  /\ call["thread"].tries < TRIES
  /\ call' = [call EXCEPT !["thread"].tries = @ + 1]
  /\ UNCHANGED <<counts, running, packets, told>>

\* Drained, and the pools are given back; or out of patience, without another look, and
\* they are left where they are.  Everything is zeroed either way.
DeinitEnd ==
  /\ At("thread", "drain")
  /\ \/ /\ Drained /\ call["thread"].tries < TRIES
        /\ command_pool' = [w \in Way |-> IF command_pool[w] = "held" THEN "freed" ELSE "none"]
     \/ /\ call["thread"].tries = TRIES
        /\ command_pool' = [w \in Way |-> "none"]
  /\ data_allocated' = [w \in Way |-> 0]
  /\ tx_data_paused' = FALSE
  /\ command_free' = [w \in Way |-> 0]
  /\ Return("thread")
  /\ UNCHANGED <<running, packets, told>>

-----------------------------------------------------------------------------
(* mmhal_wlan_alloc_mmpkt_for_tx and mmhal_wlan_alloc_mmpkt_for_rx *)

\* morselib allocates between init and deinit.
AllocData(c, w) ==
  /\ At(c, "idle") /\ running
  /\ call' = [call EXCEPT ![c] = [Idle EXCEPT !.at = "count", !.way = w]]
  /\ UNCHANGED <<counts, running, packets, told>>

\* A command: from the reserved pool if it has a block and the packet fits; a block
\* too small for it is handed back.  Otherwise a transmit command counts as data, and
\* a receive command comes from the heap uncounted.
AllocCommand(c, w) ==
  LET fallback == IF w = "tx" THEN [Idle EXCEPT !.at = "count"] ELSE Idle
  IN /\ At(c, "idle") /\ running
     /\ \/ /\ command_free[w] > 0
           /\ command_free' = [command_free EXCEPT ![w] = @ - 1]
           /\ command' = [command EXCEPT ![w] = @ + 1]
           /\ call' = [call EXCEPT ![c] = [Idle EXCEPT !.at = "fit", !.way = w]]
        \/ /\ command_free[w] = 0
           /\ call' = [call EXCEPT ![c] = fallback]
           /\ UNCHANGED <<command_free, command>>
     /\ UNCHANGED <<data_allocated, tx_data_paused, command_pool, running, data, told>>

\* Fault: a block that is too small is not handed back.
FaultFit(c) ==
  /\ At(c, "fit")
  /\ \/ Return(c) /\ UNCHANGED command
     \/ /\ command' = [command EXCEPT ![call[c].way] = @ - 1]
        /\ IF call[c].way = "tx" THEN Goto(c, "count") ELSE Return(c)
  /\ UNCHANGED <<counts, running, data, told>>

\* mmpkt_init_buf on the reserved block.
Fit(c) ==
  LET w == call[c].way
  IN /\ At(c, "fit")
     /\ \/ Return(c) /\ UNCHANGED <<command_free, command>>
        \/ /\ command_free' = [command_free EXCEPT ![w] = @ + 1]
           /\ command' = [command EXCEPT ![w] = @ - 1]
           /\ IF w = "tx" THEN Goto(c, "count") ELSE Return(c)
     /\ UNCHANGED <<data_allocated, tx_data_paused, command_pool, running, data, told>>

\* atomic_fetch_add: the packet is counted first and the bound looked at then.
Count(c) ==
  LET w == call[c].way
  IN /\ At(c, "count")
     /\ data_allocated' = [data_allocated EXCEPT ![w] = @ + 1]
     /\ Goto(c, IF data_allocated[w] >= Blocks(w) THEN "undo" ELSE "heap")
     /\ UNCHANGED <<tx_data_paused, command_free, command_pool, running, packets, told>>

\* mmpkt_alloc_on_heap, which may fail.
HeapAlloc(c) ==
  /\ At(c, "heap")
  /\ \/ /\ data' = [data EXCEPT ![call[c].way] = @ + 1]
        /\ IF call[c].way = "tx"
           THEN call' = [call EXCEPT ![c].at = "flow", ![c].mine = TRUE] ELSE Return(c)
     \/ Goto(c, "undo") /\ UNCHANGED data
  /\ UNCHANGED <<counts, running, command, told>>

\* Fault: an allocation that comes to nothing stays counted.
FaultUndo(c) ==
  /\ At(c, "undo")
  /\ Return(c)
  /\ UNCHANGED <<counts, running, packets, told>>

\* The count is taken back and NULL returned.
Undo(c) ==
  /\ At(c, "undo")
  /\ data_allocated' = [data_allocated EXCEPT ![call[c].way] = @ - 1]
  /\ Return(c)
  /\ UNCHANGED <<tx_data_paused, command_free, command_pool, running, packets, told>>

FlowCheck(c) ==
  /\ At(c, "flow")
  /\ IF data_allocated["tx"] > PAUSE_THRESHOLD THEN Goto(c, "pause") ELSE Return(c)
  /\ UNCHANGED <<counts, running, packets, told>>

\* atomic_exchange: whoever changes the flag tells the data path.
Pause(c) ==
  /\ At(c, "pause")
  /\ tx_data_paused' = TRUE
  /\ IF tx_data_paused THEN Return(c) ELSE Goto(c, "tell")
  /\ UNCHANGED <<data_allocated, command_free, command_pool, running, packets, told>>

\* tx_flow_control_cb, which asks mmhal_wlan_pktmem_tx_flow_control_state.
Tell(c) ==
  /\ At(c, "tell")
  /\ told' = tx_data_paused
  /\ Return(c)
  /\ UNCHANGED <<counts, running, packets>>

-----------------------------------------------------------------------------
(* The free_mmpkt of each kind of packet.  A packet still out when deinit has given up *)
(* is not freed any more: the heap it is in goes away with the driver.                 *)

InUse == running \/ call["thread"].at = "drain"

\* Packets an allocation under way has not returned yet.
Unreturned(c, w) == IF call[c].mine /\ call[c].way = w THEN 1 ELSE 0
Unfitted(c, w) == IF call[c].at = "fit" /\ call[c].way = w THEN 1 ELSE 0

FreeCommand(c, w) ==
  /\ At(c, "idle") /\ InUse
  /\ command[w] > Unfitted("thread", w)
  /\ command' = [command EXCEPT ![w] = @ - 1]
  /\ command_free' = [command_free EXCEPT ![w] = @ + 1]
  /\ UNCHANGED <<data_allocated, tx_data_paused, command_pool, running, call, data, told>>

FreeData(c, w) ==
  /\ At(c, "idle") /\ InUse
  /\ data[w] > Unreturned("thread", w)
  /\ data' = [data EXCEPT ![w] = @ - 1]
  /\ data_allocated' = [data_allocated EXCEPT ![w] = @ - 1]
  /\ call' = IF w = "tx" THEN [call EXCEPT ![c].at = "freed"] ELSE call
  /\ UNCHANGED <<tx_data_paused, command_free, command_pool, running, command, told>>

\* Fault: resumed one packet later.
FaultFreeCheck(c) ==
  /\ At(c, "freed")
  /\ IF data_allocated["tx"] + 1 < UNPAUSE_THRESHOLD THEN Goto(c, "unpause") ELSE Return(c)
  /\ UNCHANGED <<counts, running, packets, told>>

FreeCheck(c) ==
  /\ At(c, "freed")
  /\ IF data_allocated["tx"] < UNPAUSE_THRESHOLD THEN Goto(c, "unpause") ELSE Return(c)
  /\ UNCHANGED <<counts, running, packets, told>>

\* Fault: the data path is not told that it may go on.
FaultUnpause(c) ==
  /\ At(c, "unpause")
  /\ tx_data_paused' = FALSE
  /\ Return(c)
  /\ UNCHANGED <<data_allocated, command_free, command_pool, running, packets, told>>

Unpause(c) ==
  /\ At(c, "unpause")
  /\ tx_data_paused' = FALSE
  /\ IF tx_data_paused THEN Goto(c, "tell") ELSE Return(c)
  /\ UNCHANGED <<data_allocated, command_free, command_pool, running, packets, told>>

-----------------------------------------------------------------------------
Init ==
  /\ data_allocated = [w \in Way |-> 0]
  /\ tx_data_paused = FALSE
  /\ command_free = [w \in Way |-> 0]
  /\ command_pool = [w \in Way |-> "none"]
  /\ running = FALSE
  /\ call = [c \in Context |-> Idle]
  /\ data = [w \in Way |-> 0]
  /\ command = [w \in Way |-> 0]
  /\ told = FALSE

\* The steps of a call once it has begun.
CallStep(c) ==
  \/ Fit(c) \/ Count(c) \/ HeapAlloc(c) \/ Undo(c) \/ FlowCheck(c) \/ Pause(c) \/ Tell(c)
  \/ FreeCheck(c) \/ Unpause(c)

Next ==
  \/ PktmemInit \/ DeinitBegin \/ DeinitSleep \/ DeinitEnd
  \/ \E c \in Context, w \in Way :
       AllocData(c, w) \/ AllocCommand(c, w) \/ FreeCommand(c, w) \/ FreeData(c, w)
  \/ \E c \in Context : CallStep(c)

Spec == Init /\ [][Next]_vars

-----------------------------------------------------------------------------
(* Properties *)

Places == {"idle", "drain", "fit", "count", "heap", "undo", "flow", "pause", "tell", "freed", "unpause"}

CallType == [at : Places, way : Way, mine : BOOLEAN, tries : 0 .. TRIES]

TypeOK ==
  /\ data_allocated \in [Way -> Int]
  /\ tx_data_paused \in BOOLEAN
  /\ command_free \in [Way -> 0 .. N_BLOCKS]
  /\ command_pool \in [Way -> {"none", "held", "freed"}]
  /\ running \in BOOLEAN
  /\ call \in [Context -> CallType]
  /\ call["irq"].at # "drain"
  /\ data \in [Way -> Nat]
  /\ command \in [Way -> 0 .. N_BLOCKS]
  /\ told \in BOOLEAN

\* A context has counted a packet it does not have (yet).
Counted(c, w) == IF call[c].way = w /\ call[c].at \in {"heap", "undo"} THEN 1 ELSE 0

\* The counters count the packets that are out and the allocations under way, and
\* nothing else: no path of an allocation that fails leaves a packet counted for ever,
\* which would shrink the transmit window for good (alloc_for_tx, alloc_for_rx).  And
\* "these are what actually bound the driver's memory use": never more packets out than
\* the bound, though a refused allocation counts itself for a moment.
CountExact ==
  InUse => \A w \in Way :
             /\ data_allocated[w] = data[w] + Counted("thread", w) + Counted("irq", w)
             /\ data[w] <= Blocks(w)

\* Every block of a reserved pool is on its free list or out, so commands keep their
\* reserve however many packets did not fit (pool_alloc).
ReserveWhole ==
  InUse => \A w \in Way : command_pool[w] = "held" => command_free[w] + command[w] = N_BLOCKS

\* The memory of the reserved pools goes back only when nobody has a packet in it
\* (pktmem_deinit).
NotFreedUnderUse == \A w \in Way : command_pool[w] = "freed" => command[w] = 0

\* The data path is always told the last change of the flow control: unless a callback
\* is still to come, what it was told is what the state is (the two atomic_exchange).
FlowControlTold ==
  InUse /\ (\A c \in Context : call[c].at # "tell") => told = tx_data_paused

\* "Transmission is paused when all but one of the TX allocations are in use, and resumed
\* once it drops back below the second threshold": when no call is under way, a paused
\* data path has a packet out whose return will resume it.  An allocation that fails
\* takes its count back without looking at the threshold (mmhal_wlan_alloc_mmpkt_for_tx).
PausedResumes ==
  running /\ (\A c \in Context : call[c] = Idle) /\ tx_data_paused => data["tx"] > 0
=============================================================================
