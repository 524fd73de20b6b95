---------------------------- MODULE PktMemProofs ----------------------------
(***************************************************************************)
(* Proofs about the packet memory (PktMem).                                *)
(***************************************************************************)
EXTENDS PktMem, TLAPS

\* Where a transmit allocation has its packet but has not returned it.
Delivering == {"flow", "pause", "tell"}

\* What the record of a call says at each place; PendSV never drains, and nobody is in a
\* call while the packet memory is down.
CallShape ==
  /\ \A c \in Context :
       /\ call[c].at = "idle" => call[c] = Idle
       /\ call[c].at \in {"flow", "pause"} => call[c].mine
       /\ call[c].mine => call[c].at \in Delivering /\ call[c].way = "tx"
  /\ running => call["thread"].at # "drain"
  /\ ~InUse => \A c \in Context : call[c] = Idle

\* A packet that an allocation under way holds is among those that are out: nobody else
\* can have freed it.
OwnOut ==
  /\ \A c \in Context : call[c].mine => data["tx"] > 0
  /\ \A w \in Way : Unfitted("thread", w) + Unfitted("irq", w) <= command[w]

\* An allocation that the bound let through has its place under the bound until the heap
\* has answered.
Admitted(c, w) == IF call[c].way = w /\ call[c].at = "heap" THEN 1 ELSE 0

BoundKept ==
  InUse => \A w \in Way : data[w] + Admitted("thread", w) + Admitted("irq", w) <= Blocks(w)

\* A way without a pool has nothing on its list and nothing out.
PoolExact ==
  InUse => \A w \in Way :
             /\ command_pool[w] # "freed"
             /\ command_pool[w] = "none" => command_free[w] = 0 /\ command[w] = 0

\* While the data path is paused, a packet is out or a context is about to look at the
\* threshold.
ResumeComing ==
  tx_data_paused => data["tx"] > 0 \/ \E c \in Context : call[c].at \in {"freed", "unpause"}

\* Everything but the resumption, which needs the second threshold above one.
IInv ==
  /\ TypeOK
  /\ CallShape
  /\ OwnOut
  /\ BoundKept
  /\ PoolExact
  /\ CountExact
  /\ ReserveWhole
  /\ NotFreedUnderUse
  /\ FlowControlTold

-----------------------------------------------------------------------------
(* Updates of a call *)

LEMMA IdleType == Idle \in CallType
BY PktMemAssumption DEF Idle, CallType, Places, Way

LEMMA BegunType ==
  \A p \in Places, w \in Way : /\ [Idle EXCEPT !.at = p] \in CallType
                              /\ [Idle EXCEPT !.at = p, !.way = w] \in CallType
BY IdleType DEF CallType

\* Goto moves a context and leaves the rest of its call, and the other context, alone.
LEMMA GotoFields ==
  ASSUME call \in [Context -> CallType], NEW c \in Context, NEW p \in Places, Goto(c, p)
  PROVE  /\ call' \in [Context -> CallType]
         /\ call'[c].at = p
         /\ call'[c].way = call[c].way
         /\ call'[c].mine = call[c].mine
         /\ \A d \in Context \ {c} : call'[d] = call[d]
BY DEF Goto, CallType

LEMMA ReturnFields ==
  ASSUME call \in [Context -> CallType], NEW c \in Context, Return(c)
  PROVE  /\ call' \in [Context -> CallType]
         /\ call'[c] = Idle
         /\ \A d \in Context \ {c} : call'[d] = call[d]
BY IdleType DEF Return

-----------------------------------------------------------------------------
(* One lemma per action *)

LEMMA InitInv == Init => IInv
<1> SUFFICES ASSUME Init PROVE IInv
  OBVIOUS
<1> USE PktMemAssumption DEF Init, Idle, InUse, Context, Way
<1>1. TypeOK
  <2>1. call \in [Context -> CallType]
    BY IdleType
  <2>2. command_free \in [Way -> 0 .. N_BLOCKS] /\ command \in [Way -> 0 .. N_BLOCKS]
    OBVIOUS
  <2>3. data \in [Way -> Nat] /\ data_allocated \in [Way -> Int]
    OBVIOUS
  <2>4. tx_data_paused \in BOOLEAN /\ told \in BOOLEAN /\ running \in BOOLEAN
    OBVIOUS
  <2>5. command_pool \in [Way -> {"none", "held", "freed"}] /\ call["irq"].at # "drain"
    OBVIOUS
  <2> QED
    BY <2>1, <2>2, <2>3, <2>4, <2>5 DEF TypeOK
<1>2. CallShape
  BY DEF CallShape
<1>3. OwnOut
  BY DEF OwnOut, Unfitted
<1>4. ~InUse /\ NotFreedUnderUse
  BY DEF NotFreedUnderUse
<1> QED
  BY <1>1, <1>2, <1>3, <1>4
     DEF IInv, BoundKept, PoolExact, CountExact, ReserveWhole, FlowControlTold

LEMMA CountInv == ASSUME IInv, NEW c \in Context, Count(c) PROVE IInv'
<1> USE PktMemAssumption DEF IInv, Count, counts, packets, Executing, At, InUse, Context, Way, Idle
<1>1. call \in [Context -> CallType]
  BY DEF TypeOK
<1>2. PICK p \in {"undo", "heap"} : Goto(c, p) /\ (p = "heap" <=> data_allocated[call[c].way] < Blocks(call[c].way))
  BY DEF TypeOK, CallType, Blocks
<1>3. /\ call' \in [Context -> CallType] /\ call'[c].at = p
      /\ call'[c].way = call[c].way /\ call'[c].mine = call[c].mine
      /\ \A d \in Context \ {c} : call'[d] = call[d]
  BY <1>1, <1>2, GotoFields DEF Places
<1>4. call[c].way \in Way /\ InUse /\ ~call[c].mine
  BY <1>1 DEF CallType, CallShape, Delivering
<1>5. TypeOK'
  BY <1>1, <1>2, <1>3, <1>4 DEF TypeOK
<1>6. CallShape'
  BY <1>1, <1>2, <1>3, <1>4 DEF CallShape, Delivering, TypeOK
<1>7. OwnOut'
  BY <1>1, <1>2, <1>3, <1>4 DEF OwnOut, Unfitted, TypeOK
<1>8. BoundKept'
  BY <1>1, <1>2, <1>3, <1>4 DEF BoundKept, Admitted, Blocks, CountExact, Counted, TypeOK
<1>9. PoolExact'
  BY <1>1, <1>2, <1>3, <1>4 DEF PoolExact, TypeOK
<1>10. CountExact'
  BY <1>1, <1>2, <1>3, <1>4 DEF CountExact, Counted, TypeOK
<1>11. ReserveWhole'
  BY <1>1, <1>2, <1>3, <1>4 DEF ReserveWhole, TypeOK
<1>12. NotFreedUnderUse'
  BY <1>1, <1>2, <1>3, <1>4 DEF NotFreedUnderUse, TypeOK
<1>13. FlowControlTold'
  BY <1>1, <1>2, <1>3, <1>4 DEF FlowControlTold, TypeOK
<1> QED
  BY <1>5, <1>6, <1>7, <1>8, <1>9, <1>10, <1>11, <1>12, <1>13

LEMMA FitInv == ASSUME IInv, NEW c \in Context, Fit(c) PROVE IInv'
<1> USE PktMemAssumption DEF IInv, Fit, counts, packets, Executing, At, InUse, Context, Way, Idle
<1>1. call \in [Context -> CallType]
  BY DEF TypeOK
<1>2. call[c].way \in Way /\ InUse /\ ~call[c].mine
  BY <1>1 DEF CallType, CallShape, Delivering
<1>3. command[call[c].way] > 0 /\ command_pool[call[c].way] = "held"
      /\ command_free[call[c].way] + command[call[c].way] = N_BLOCKS
  BY <1>1, <1>2 DEF OwnOut, Unfitted, PoolExact, ReserveWhole, TypeOK
<1>4. /\ call' \in [Context -> CallType] /\ \A d \in Context \ {c} : call'[d] = call[d]
      /\ \/ call'[c] = Idle
         \/ call'[c].at = "count" /\ call'[c].way = call[c].way /\ call'[c].mine = call[c].mine /\ call[c].way = "tx"
  BY <1>1, GotoFields, ReturnFields DEF Places, TypeOK, CallType
<1>5. TypeOK'
  BY <1>1, <1>2, <1>3, <1>4 DEF TypeOK
<1>6. CallShape'
  BY <1>1, <1>2, <1>3, <1>4 DEF CallShape, Delivering, TypeOK
<1>7. OwnOut'
  BY <1>1, <1>2, <1>3, <1>4 DEF OwnOut, Unfitted, TypeOK
<1>8. BoundKept'
  BY <1>1, <1>2, <1>3, <1>4 DEF BoundKept, Admitted, TypeOK
<1>9. PoolExact'
  BY <1>1, <1>2, <1>3, <1>4 DEF PoolExact, TypeOK
<1>10. CountExact'
  BY <1>1, <1>2, <1>3, <1>4 DEF CountExact, Counted, TypeOK
<1>11. ReserveWhole'
  BY <1>1, <1>2, <1>3, <1>4 DEF ReserveWhole, TypeOK
<1>12. NotFreedUnderUse'
  BY <1>1, <1>2, <1>3, <1>4 DEF NotFreedUnderUse, TypeOK
<1>13. FlowControlTold'
  BY <1>1, <1>2, <1>3, <1>4 DEF FlowControlTold, TypeOK
<1> QED
  BY <1>5, <1>6, <1>7, <1>8, <1>9, <1>10, <1>11, <1>12, <1>13

LEMMA HeapAllocInv == ASSUME IInv, NEW c \in Context, HeapAlloc(c) PROVE IInv'
<1> USE PktMemAssumption DEF IInv, HeapAlloc, counts, packets, Executing, At, InUse, Context, Way, Idle
<1>1. call \in [Context -> CallType]
  BY DEF TypeOK
<1>2. call[c].way \in Way /\ InUse /\ ~call[c].mine
  BY <1>1 DEF CallType, CallShape, Delivering
<1>3. /\ call' \in [Context -> CallType] /\ \A d \in Context \ {c} : call'[d] = call[d]
      /\ \/ call'[c] = Idle /\ data' = [data EXCEPT ![call[c].way] = @ + 1] /\ call[c].way = "rx"
         \/ /\ data' = [data EXCEPT !["tx"] = @ + 1] /\ call[c].way = "tx"
            /\ call'[c].at = "flow" /\ call'[c].way = "tx" /\ call'[c].mine
         \/ call'[c].at = "undo" /\ call'[c].way = call[c].way /\ ~call'[c].mine /\ data' = data
  <2>1. CASE data' = [data EXCEPT ![call[c].way] = @ + 1] /\ call[c].way # "tx" /\ Return(c)
    BY <1>1, <1>2, <2>1, ReturnFields
  <2>2. CASE Goto(c, "undo") /\ UNCHANGED data
    BY <1>1, <1>2, <2>2, GotoFields DEF Places
  <2>3. CASE /\ data' = [data EXCEPT ![call[c].way] = @ + 1] /\ call[c].way = "tx"
             /\ call' = [call EXCEPT ![c].at = "flow", ![c].mine = TRUE]
    BY <1>1, <1>2, <2>3 DEF CallType, Places
  <2> QED
    BY <1>2, <2>1, <2>2, <2>3
<1>4. TypeOK'
  BY <1>1, <1>2, <1>3 DEF TypeOK
<1>5. CallShape'
  BY <1>1, <1>2, <1>3 DEF CallShape, Delivering, TypeOK
<1>6. OwnOut'
  BY <1>1, <1>2, <1>3 DEF OwnOut, Unfitted, TypeOK
<1>7. BoundKept'
  BY <1>1, <1>2, <1>3 DEF BoundKept, Admitted, Blocks, TypeOK
<1>8. PoolExact'
  BY <1>1, <1>2, <1>3 DEF PoolExact, TypeOK
<1>9. CountExact'
  BY <1>1, <1>2, <1>3 DEF CountExact, Counted, BoundKept, Admitted, Blocks, TypeOK
<1>10. ReserveWhole'
  BY <1>1, <1>2, <1>3 DEF ReserveWhole, TypeOK
<1>11. NotFreedUnderUse'
  BY <1>1, <1>2, <1>3 DEF NotFreedUnderUse, TypeOK
<1>12. FlowControlTold'
  BY <1>1, <1>2, <1>3 DEF FlowControlTold, TypeOK
<1> QED
  BY <1>4, <1>5, <1>6, <1>7, <1>8, <1>9, <1>10, <1>11, <1>12

LEMMA UndoInv == ASSUME IInv, NEW c \in Context, Undo(c) PROVE IInv'
<1> USE PktMemAssumption DEF IInv, Undo, counts, packets, Executing, At, InUse, Context, Way, Idle
<1>1. call \in [Context -> CallType]
  BY DEF TypeOK
<1>2. call[c].way \in Way /\ InUse /\ ~call[c].mine
  BY <1>1 DEF CallType, CallShape, Delivering
<1>3. /\ call' \in [Context -> CallType] /\ call'[c] = Idle
      /\ \A d \in Context \ {c} : call'[d] = call[d]
  BY <1>1, ReturnFields
<1>4. TypeOK'
  BY <1>1, <1>2, <1>3 DEF TypeOK
<1>5. CallShape'
  BY <1>1, <1>2, <1>3 DEF CallShape, Delivering, TypeOK
<1>6. OwnOut'
  BY <1>1, <1>2, <1>3 DEF OwnOut, Unfitted, TypeOK
<1>7. BoundKept'
  BY <1>1, <1>2, <1>3 DEF BoundKept, Admitted, TypeOK
<1>8. PoolExact'
  BY <1>1, <1>2, <1>3 DEF PoolExact, TypeOK
<1>9. CountExact'
  BY <1>1, <1>2, <1>3 DEF CountExact, Counted, TypeOK
<1>10. ReserveWhole'
  BY <1>1, <1>2, <1>3 DEF ReserveWhole, TypeOK
<1>11. NotFreedUnderUse'
  BY <1>1, <1>2, <1>3 DEF NotFreedUnderUse, TypeOK
<1>12. FlowControlTold'
  BY <1>1, <1>2, <1>3 DEF FlowControlTold, TypeOK
<1> QED
  BY <1>4, <1>5, <1>6, <1>7, <1>8, <1>9, <1>10, <1>11, <1>12

LEMMA FlowCheckInv == ASSUME IInv, NEW c \in Context, FlowCheck(c) PROVE IInv'
<1> USE PktMemAssumption DEF IInv, FlowCheck, counts, packets, Executing, At, InUse, Context, Way, Idle
<1>1. call \in [Context -> CallType]
  BY DEF TypeOK
<1>2. call[c].way \in Way /\ InUse
  BY <1>1 DEF CallType, CallShape
<1>3. /\ call' \in [Context -> CallType] /\ \A d \in Context \ {c} : call'[d] = call[d]
      /\ \/ call'[c] = Idle
         \/ call'[c].at = "pause" /\ call'[c].way = call[c].way /\ call'[c].mine = call[c].mine
  BY <1>1, GotoFields, ReturnFields DEF Places, TypeOK, CallType
<1>4. TypeOK'
  BY <1>1, <1>2, <1>3 DEF TypeOK
<1>5. CallShape'
  BY <1>1, <1>2, <1>3 DEF CallShape, Delivering, TypeOK
<1>6. OwnOut'
  BY <1>1, <1>2, <1>3 DEF OwnOut, Unfitted, TypeOK
<1>7. BoundKept'
  BY <1>1, <1>2, <1>3 DEF BoundKept, Admitted, TypeOK
<1>8. PoolExact'
  BY <1>1, <1>2, <1>3 DEF PoolExact, TypeOK
<1>9. CountExact'
  BY <1>1, <1>2, <1>3 DEF CountExact, Counted, TypeOK
<1>10. ReserveWhole'
  BY <1>1, <1>2, <1>3 DEF ReserveWhole, TypeOK
<1>11. NotFreedUnderUse'
  BY <1>1, <1>2, <1>3 DEF NotFreedUnderUse, TypeOK
<1>12. FlowControlTold'
  BY <1>1, <1>2, <1>3 DEF FlowControlTold, TypeOK
<1> QED
  BY <1>4, <1>5, <1>6, <1>7, <1>8, <1>9, <1>10, <1>11, <1>12

LEMMA PauseInv == ASSUME IInv, NEW c \in Context, Pause(c) PROVE IInv'
<1> USE PktMemAssumption DEF IInv, Pause, counts, packets, Executing, At, InUse, Context, Way, Idle
<1>1. call \in [Context -> CallType]
  BY DEF TypeOK
<1>2. call[c].way \in Way /\ InUse
  BY <1>1 DEF CallType, CallShape
<1>3. /\ call' \in [Context -> CallType] /\ \A d \in Context \ {c} : call'[d] = call[d]
      /\ \/ call'[c] = Idle /\ tx_data_paused
         \/ call'[c].at = "tell" /\ call'[c].way = call[c].way /\ call'[c].mine = call[c].mine /\ ~tx_data_paused
  BY <1>1, GotoFields, ReturnFields DEF Places, TypeOK, CallType
<1>4. TypeOK'
  BY <1>1, <1>2, <1>3 DEF TypeOK
<1>5. CallShape'
  BY <1>1, <1>2, <1>3 DEF CallShape, Delivering, TypeOK
<1>6. OwnOut'
  BY <1>1, <1>2, <1>3 DEF OwnOut, Unfitted, TypeOK
<1>7. BoundKept'
  BY <1>1, <1>2, <1>3 DEF BoundKept, Admitted, TypeOK
<1>8. PoolExact'
  BY <1>1, <1>2, <1>3 DEF PoolExact, TypeOK
<1>9. CountExact'
  BY <1>1, <1>2, <1>3 DEF CountExact, Counted, TypeOK
<1>10. ReserveWhole'
  BY <1>1, <1>2, <1>3 DEF ReserveWhole, TypeOK
<1>11. NotFreedUnderUse'
  BY <1>1, <1>2, <1>3 DEF NotFreedUnderUse, TypeOK
<1>12. FlowControlTold'
  BY <1>1, <1>2, <1>3 DEF FlowControlTold, TypeOK
<1> QED
  BY <1>4, <1>5, <1>6, <1>7, <1>8, <1>9, <1>10, <1>11, <1>12

LEMMA TellInv == ASSUME IInv, NEW c \in Context, Tell(c) PROVE IInv'
<1> USE PktMemAssumption DEF IInv, Tell, counts, packets, Executing, At, InUse, Context, Way, Idle
<1>1. call \in [Context -> CallType]
  BY DEF TypeOK
<1>2. call[c].way \in Way /\ InUse
  BY <1>1 DEF CallType, CallShape
<1>3. /\ call' \in [Context -> CallType] /\ call'[c] = Idle
      /\ \A d \in Context \ {c} : call'[d] = call[d]
  BY <1>1, ReturnFields
<1>4. TypeOK'
  BY <1>1, <1>2, <1>3 DEF TypeOK
<1>5. CallShape'
  BY <1>1, <1>2, <1>3 DEF CallShape, Delivering, TypeOK
<1>6. OwnOut'
  BY <1>1, <1>2, <1>3 DEF OwnOut, Unfitted, TypeOK
<1>7. BoundKept'
  BY <1>1, <1>2, <1>3 DEF BoundKept, Admitted, TypeOK
<1>8. PoolExact'
  BY <1>1, <1>2, <1>3 DEF PoolExact, TypeOK
<1>9. CountExact'
  BY <1>1, <1>2, <1>3 DEF CountExact, Counted, TypeOK
<1>10. ReserveWhole'
  BY <1>1, <1>2, <1>3 DEF ReserveWhole, TypeOK
<1>11. NotFreedUnderUse'
  BY <1>1, <1>2, <1>3 DEF NotFreedUnderUse, TypeOK
<1>12. FlowControlTold'
  BY <1>1, <1>2, <1>3 DEF FlowControlTold, TypeOK
<1> QED
  BY <1>4, <1>5, <1>6, <1>7, <1>8, <1>9, <1>10, <1>11, <1>12

LEMMA FreeCheckInv == ASSUME IInv, NEW c \in Context, FreeCheck(c) PROVE IInv'
<1> USE PktMemAssumption DEF IInv, FreeCheck, counts, packets, Executing, At, InUse, Context, Way, Idle
<1>1. call \in [Context -> CallType]
  BY DEF TypeOK
<1>2. call[c].way \in Way /\ InUse /\ ~call[c].mine
  BY <1>1 DEF CallType, CallShape, Delivering
<1>3. /\ call' \in [Context -> CallType] /\ \A d \in Context \ {c} : call'[d] = call[d]
      /\ \/ call'[c] = Idle
         \/ call'[c].at = "unpause" /\ call'[c].way = call[c].way /\ call'[c].mine = call[c].mine
  BY <1>1, GotoFields, ReturnFields DEF Places, TypeOK, CallType
<1>4. TypeOK'
  BY <1>1, <1>2, <1>3 DEF TypeOK
<1>5. CallShape'
  BY <1>1, <1>2, <1>3 DEF CallShape, Delivering, TypeOK
<1>6. OwnOut'
  BY <1>1, <1>2, <1>3 DEF OwnOut, Unfitted, TypeOK
<1>7. BoundKept'
  BY <1>1, <1>2, <1>3 DEF BoundKept, Admitted, TypeOK
<1>8. PoolExact'
  BY <1>1, <1>2, <1>3 DEF PoolExact, TypeOK
<1>9. CountExact'
  BY <1>1, <1>2, <1>3 DEF CountExact, Counted, TypeOK
<1>10. ReserveWhole'
  BY <1>1, <1>2, <1>3 DEF ReserveWhole, TypeOK
<1>11. NotFreedUnderUse'
  BY <1>1, <1>2, <1>3 DEF NotFreedUnderUse, TypeOK
<1>12. FlowControlTold'
  BY <1>1, <1>2, <1>3 DEF FlowControlTold, TypeOK
<1> QED
  BY <1>4, <1>5, <1>6, <1>7, <1>8, <1>9, <1>10, <1>11, <1>12

LEMMA UnpauseInv == ASSUME IInv, NEW c \in Context, Unpause(c) PROVE IInv'
<1> USE PktMemAssumption DEF IInv, Unpause, counts, packets, Executing, At, InUse, Context, Way, Idle
<1>1. call \in [Context -> CallType]
  BY DEF TypeOK
<1>2. call[c].way \in Way /\ InUse /\ ~call[c].mine
  BY <1>1 DEF CallType, CallShape, Delivering
<1>3. /\ call' \in [Context -> CallType] /\ \A d \in Context \ {c} : call'[d] = call[d]
      /\ \/ call'[c] = Idle /\ ~tx_data_paused
         \/ call'[c].at = "tell" /\ call'[c].way = call[c].way /\ call'[c].mine = call[c].mine /\ tx_data_paused
  BY <1>1, GotoFields, ReturnFields DEF Places, TypeOK, CallType
<1>4. TypeOK'
  <2>1. tx_data_paused' \in BOOLEAN
    OBVIOUS
  <2> QED
    BY <1>3, <2>1 DEF TypeOK
<1>5. CallShape'
  BY <1>1, <1>2, <1>3 DEF CallShape, Delivering, TypeOK
<1>6. OwnOut'
  BY <1>1, <1>2, <1>3 DEF OwnOut, Unfitted, TypeOK
<1>7. BoundKept'
  BY <1>1, <1>2, <1>3 DEF BoundKept, Admitted, TypeOK
<1>8. PoolExact'
  BY <1>1, <1>2, <1>3 DEF PoolExact, TypeOK
<1>9. CountExact'
  BY <1>1, <1>2, <1>3 DEF CountExact, Counted, TypeOK
<1>10. ReserveWhole'
  BY <1>1, <1>2, <1>3 DEF ReserveWhole, TypeOK
<1>11. NotFreedUnderUse'
  BY <1>1, <1>2, <1>3 DEF NotFreedUnderUse, TypeOK
<1>12. FlowControlTold'
  BY <1>1, <1>2, <1>3 DEF FlowControlTold, TypeOK
<1> QED
  BY <1>4, <1>5, <1>6, <1>7, <1>8, <1>9, <1>10, <1>11, <1>12

LEMMA FreeCommandInv == ASSUME IInv, NEW c \in Context, NEW w \in Way, FreeCommand(c, w) PROVE IInv'
<1> USE PktMemAssumption DEF IInv, FreeCommand, counts, packets, Executing, At, InUse, Context, Way, Idle
<1>1. call \in [Context -> CallType]
  BY DEF TypeOK
<1>2. command[w] > 0 /\ command_pool[w] = "held" /\ command_free[w] + command[w] = N_BLOCKS
  BY <1>1 DEF Unfitted, PoolExact, ReserveWhole, TypeOK
<1>3. call[c] = Idle
  BY DEF CallShape
<1>4. TypeOK'
  BY <1>1, <1>2, <1>3 DEF TypeOK
<1>5. CallShape'
  BY <1>1, <1>2, <1>3 DEF CallShape, Delivering, TypeOK
<1>6. OwnOut'
  BY <1>1, <1>2, <1>3 DEF OwnOut, Unfitted, TypeOK
<1>7. BoundKept'
  BY <1>1, <1>2, <1>3 DEF BoundKept, Admitted, TypeOK
<1>8. PoolExact'
  BY <1>1, <1>2, <1>3 DEF PoolExact, TypeOK
<1>9. CountExact'
  BY <1>1, <1>2, <1>3 DEF CountExact, Counted, TypeOK
<1>10. ReserveWhole'
  BY <1>1, <1>2, <1>3 DEF ReserveWhole, TypeOK
<1>11. NotFreedUnderUse'
  BY <1>1, <1>2, <1>3 DEF NotFreedUnderUse, TypeOK
<1>12. FlowControlTold'
  BY <1>1, <1>2, <1>3 DEF FlowControlTold, TypeOK
<1> QED
  BY <1>4, <1>5, <1>6, <1>7, <1>8, <1>9, <1>10, <1>11, <1>12

LEMMA FreeDataInv == ASSUME IInv, NEW c \in Context, NEW w \in Way, FreeData(c, w) PROVE IInv'
<1> USE PktMemAssumption DEF IInv, FreeData, counts, packets, Executing, At, InUse, Context, Way, Idle
<1>1. call \in [Context -> CallType]
  BY DEF TypeOK
<1>2. data[w] > Unreturned("thread", w) /\ data[w] > 0
  BY <1>1 DEF Unreturned, TypeOK
<1>3. call[c] = Idle
  BY DEF CallShape
<1>4. /\ call' \in [Context -> CallType] /\ \A d \in Context \ {c} : call'[d] = call[d]
      /\ \/ call' = call /\ w = "rx"
         \/ call'[c].at = "freed" /\ call'[c].way = "tx" /\ ~call'[c].mine /\ w = "tx"
  BY <1>1, <1>3 DEF Places, CallType
<1>5. TypeOK'
  BY <1>1, <1>2, <1>3, <1>4 DEF TypeOK
<1>6. CallShape'
  BY <1>1, <1>2, <1>3, <1>4 DEF CallShape, Delivering, TypeOK
<1>7. OwnOut'
  BY <1>1, <1>2, <1>3, <1>4 DEF OwnOut, Unfitted, Unreturned, CallShape, TypeOK
<1>8. BoundKept'
  BY <1>1, <1>2, <1>3, <1>4 DEF BoundKept, Admitted, CountExact, Counted, Blocks, TypeOK
<1>9. PoolExact'
  BY <1>1, <1>2, <1>3, <1>4 DEF PoolExact, TypeOK
<1>10. CountExact'
  BY <1>1, <1>2, <1>3, <1>4 DEF CountExact, Counted, Blocks, TypeOK
<1>11. ReserveWhole'
  BY <1>1, <1>2, <1>3, <1>4 DEF ReserveWhole, TypeOK
<1>12. NotFreedUnderUse'
  BY <1>1, <1>2, <1>3, <1>4 DEF NotFreedUnderUse, TypeOK
<1>13. FlowControlTold'
  BY <1>1, <1>2, <1>3, <1>4 DEF FlowControlTold, TypeOK
<1> QED
  BY <1>5, <1>6, <1>7, <1>8, <1>9, <1>10, <1>11, <1>12, <1>13

LEMMA AllocDataInv == ASSUME IInv, NEW c \in Context, NEW w \in Way, AllocData(c, w) PROVE IInv'
<1> USE PktMemAssumption DEF IInv, AllocData, counts, packets, Executing, At, InUse, Context, Way, Idle
<1>1. call \in [Context -> CallType]
  BY DEF TypeOK
<1>2. call[c] = Idle
  BY DEF CallShape
<1>3. /\ call' \in [Context -> CallType] /\ \A d \in Context \ {c} : call'[d] = call[d]
      /\ call'[c].at = "count" /\ call'[c].way = w /\ ~call'[c].mine
  BY <1>1, IdleType DEF Places, CallType
<1>4. TypeOK'
  BY <1>1, <1>2, <1>3 DEF TypeOK
<1>5. CallShape'
  BY <1>1, <1>2, <1>3 DEF CallShape, Delivering, TypeOK
<1>6. OwnOut'
  BY <1>1, <1>2, <1>3 DEF OwnOut, Unfitted, TypeOK
<1>7. BoundKept'
  BY <1>1, <1>2, <1>3 DEF BoundKept, Admitted, TypeOK
<1>8. PoolExact'
  BY <1>1, <1>2, <1>3 DEF PoolExact, TypeOK
<1>9. CountExact'
  BY <1>1, <1>2, <1>3 DEF CountExact, Counted, TypeOK
<1>10. ReserveWhole'
  BY <1>1, <1>2, <1>3 DEF ReserveWhole, TypeOK
<1>11. NotFreedUnderUse'
  BY <1>1, <1>2, <1>3 DEF NotFreedUnderUse, TypeOK
<1>12. FlowControlTold'
  BY <1>1, <1>2, <1>3 DEF FlowControlTold, TypeOK
<1> QED
  BY <1>4, <1>5, <1>6, <1>7, <1>8, <1>9, <1>10, <1>11, <1>12

LEMMA AllocCommandInv == ASSUME IInv, NEW c \in Context, NEW w \in Way, AllocCommand(c, w) PROVE IInv'
<1> USE PktMemAssumption DEF IInv, AllocCommand, counts, packets, Executing, At, InUse, Context, Way, Idle
<1>1. call \in [Context -> CallType]
  BY DEF TypeOK
<1>2. call[c] = Idle
  BY DEF CallShape
<1>3. /\ call' \in [Context -> CallType] /\ \A d \in Context \ {c} : call'[d] = call[d]
      /\ ~call'[c].mine
      /\ \/ /\ call'[c].at = "fit" /\ call'[c].way = w /\ command_free[w] > 0
            /\ command_free' = [command_free EXCEPT ![w] = @ - 1]
            /\ command' = [command EXCEPT ![w] = @ + 1]
         \/ call'[c].at = "count" /\ command_free' = command_free /\ command' = command
         \/ call'[c] = Idle /\ command_free' = command_free /\ command' = command
  <2>1. CASE command_free[w] > 0
    <3>1. call' = [call EXCEPT ![c] = [Idle EXCEPT !.at = "fit", !.way = w]]
      BY <2>1
    <3>2. [Idle EXCEPT !.at = "fit", !.way = w] \in CallType
      BY BegunType DEF Places
    <3> QED
      BY <1>1, <2>1, <3>1, <3>2
  <2>2. CASE command_free[w] = 0
    <3>1. [Idle EXCEPT !.at = "count"] \in CallType
      BY BegunType DEF Places
    <3>2. CASE w = "tx"
      BY <1>1, <2>2, <3>1, <3>2
    <3>3. CASE w # "tx"
      <4>1. Return(c) /\ command_free' = command_free /\ command' = command
        BY <2>2, <3>3 DEF Return
      <4> QED
        BY <1>1, <4>1, ReturnFields
    <3> QED
      BY <3>2, <3>3
  <2> QED
    BY <2>1, <2>2 DEF TypeOK
<1>4. command_free[w] > 0 => command_pool[w] = "held" /\ command_free[w] + command[w] = N_BLOCKS
  BY DEF PoolExact, ReserveWhole, TypeOK
<1>5. TypeOK'
  BY <1>1, <1>2, <1>3, <1>4 DEF TypeOK
<1>6. CallShape'
  BY <1>1, <1>2, <1>3, <1>4 DEF CallShape, Delivering, TypeOK
<1>7. OwnOut'
  BY <1>1, <1>2, <1>3, <1>4 DEF OwnOut, Unfitted, TypeOK
<1>8. BoundKept'
  BY <1>1, <1>2, <1>3, <1>4 DEF BoundKept, Admitted, TypeOK
<1>9. PoolExact'
  BY <1>1, <1>2, <1>3, <1>4 DEF PoolExact, TypeOK
<1>10. CountExact'
  BY <1>1, <1>2, <1>3, <1>4 DEF CountExact, Counted, TypeOK
<1>11. ReserveWhole'
  BY <1>1, <1>2, <1>3, <1>4 DEF ReserveWhole, TypeOK
<1>12. NotFreedUnderUse'
  BY <1>1, <1>2, <1>3, <1>4 DEF NotFreedUnderUse, TypeOK
<1>13. FlowControlTold'
  BY <1>1, <1>2, <1>3, <1>4 DEF FlowControlTold, TypeOK
<1> QED
  BY <1>5, <1>6, <1>7, <1>8, <1>9, <1>10, <1>11, <1>12, <1>13

LEMMA PktmemInitInv == ASSUME IInv, PktmemInit PROVE IInv'
<1> USE PktMemAssumption DEF PktmemInit, Executing, At, InUse, Context, Way, Idle
<1>1. PICK supplied \in SUBSET Way :
        /\ command_pool' = [w \in Way |-> IF w \in supplied THEN "held" ELSE "none"]
        /\ command_free' = [w \in Way |-> IF w \in supplied THEN N_BLOCKS ELSE 0]
  OBVIOUS
<1>2. call["thread"] = Idle /\ call["irq"] = Idle /\ call' = call
  BY DEF IInv, CallShape
<1>3. TypeOK'
  <2>1. /\ command_free' \in [Way -> 0 .. N_BLOCKS] /\ command' \in [Way -> 0 .. N_BLOCKS]
        /\ data' \in [Way -> Nat] /\ data_allocated' \in [Way -> Int]
    BY <1>1
  <2>2. command_pool' \in [Way -> {"none", "held", "freed"}]
    BY <1>1
  <2>3. tx_data_paused' \in BOOLEAN /\ told' \in BOOLEAN /\ running' \in BOOLEAN
    OBVIOUS
  <2>4. call' \in [Context -> CallType] /\ call'["irq"].at # "drain"
    BY <1>2 DEF IInv, TypeOK
  <2> QED
    BY <2>1, <2>2, <2>3, <2>4 DEF TypeOK
<1>4. CallShape' /\ OwnOut'
  BY <1>2 DEF CallShape, OwnOut, Unfitted
<1>5. BoundKept' /\ CountExact'
  BY <1>2 DEF BoundKept, CountExact, Admitted, Counted, Blocks
<1>6. PoolExact' /\ ReserveWhole' /\ NotFreedUnderUse'
  BY <1>1 DEF PoolExact, ReserveWhole, NotFreedUnderUse
<1>7. FlowControlTold'
  BY DEF FlowControlTold
<1> QED
  BY <1>3, <1>4, <1>5, <1>6, <1>7 DEF IInv

LEMMA DeinitBeginInv == ASSUME IInv, DeinitBegin PROVE IInv'
<1> USE PktMemAssumption DEF IInv, DeinitBegin, counts, packets, Executing, At, InUse, Context, Way, Idle
<1>1. call["thread"] = Idle /\ call["irq"] = Idle
  BY DEF CallShape
<1>2. /\ call' \in [Context -> CallType] /\ call'["irq"] = Idle
      /\ call'["thread"].at = "drain" /\ ~call'["thread"].mine
  <2>1. [Idle EXCEPT !.at = "drain"] \in CallType
    BY BegunType DEF Places
  <2> QED
    BY <1>1, <2>1 DEF TypeOK
<1>3. TypeOK'
  <2>1. running' \in BOOLEAN
    OBVIOUS
  <2> QED
    BY <1>2, <2>1 DEF TypeOK
<1>4. CallShape' /\ OwnOut'
  BY <1>1, <1>2 DEF CallShape, OwnOut, Unfitted, Delivering
<1>5. BoundKept' /\ CountExact'
  BY <1>1, <1>2 DEF BoundKept, CountExact, Admitted, Counted
<1>6. PoolExact' /\ ReserveWhole' /\ NotFreedUnderUse' /\ FlowControlTold'
  BY <1>1, <1>2 DEF PoolExact, ReserveWhole, NotFreedUnderUse, FlowControlTold
<1> QED
  BY <1>3, <1>4, <1>5, <1>6

LEMMA DeinitSleepInv == ASSUME IInv, DeinitSleep PROVE IInv'
<1> USE PktMemAssumption DEF IInv, DeinitSleep, counts, packets, Executing, At, InUse, Context, Way, Idle
<1>1. call["thread"].at = "drain" /\ call["irq"] = Idle /\ ~call["thread"].mine
  BY DEF CallShape, Delivering
<1>2. /\ call' \in [Context -> CallType] /\ call'["irq"] = Idle
      /\ call'["thread"].at = "drain" /\ ~call'["thread"].mine
  BY <1>1 DEF TypeOK, CallType
<1>3. TypeOK'
  BY <1>2 DEF TypeOK
<1>4. CallShape' /\ OwnOut'
  BY <1>1, <1>2 DEF CallShape, OwnOut, Unfitted, Delivering
<1>5. BoundKept' /\ CountExact'
  BY <1>1, <1>2 DEF BoundKept, CountExact, Admitted, Counted
<1>6. PoolExact' /\ ReserveWhole' /\ NotFreedUnderUse' /\ FlowControlTold'
  BY <1>1, <1>2 DEF PoolExact, ReserveWhole, NotFreedUnderUse, FlowControlTold
<1> QED
  BY <1>3, <1>4, <1>5, <1>6

\* Drained, every pool that is held has all its blocks on its list, and so none out.
LEMMA DeinitEndInv == ASSUME IInv, DeinitEnd PROVE IInv'
<1> USE PktMemAssumption DEF IInv, DeinitEnd, packets, Executing, At, InUse, Context, Way
<1>1. /\ call' \in [Context -> CallType] /\ call'["thread"] = Idle /\ call'["irq"] = Idle
      /\ ~running
  BY ReturnFields DEF TypeOK, CallShape
<1>2. TypeOK'
  <2>1. command_pool' \in [Way -> {"none", "held", "freed"}]
    OBVIOUS
  <2>2. command_free' \in [Way -> 0 .. N_BLOCKS] /\ data_allocated' \in [Way -> Int]
    OBVIOUS
  <2>3. tx_data_paused' \in BOOLEAN
    OBVIOUS
  <2>4. call'["irq"].at # "drain"
    BY <1>1 DEF Idle
  <2> QED
    BY <1>1, <2>1, <2>2, <2>3, <2>4 DEF TypeOK
<1>3. ~InUse'
  BY <1>1 DEF Idle
<1>4. CallShape' /\ OwnOut'
  BY <1>1, <1>3 DEF CallShape, OwnOut, Unfitted, Idle, TypeOK
<1>5. NotFreedUnderUse'
  BY DEF NotFreedUnderUse, PoolExact, ReserveWhole, Drained, TypeOK
<1> QED
  BY <1>2, <1>3, <1>4, <1>5
     DEF BoundKept, PoolExact, CountExact, ReserveWhole, FlowControlTold

LEMMA NextInv == IInv /\ [Next]_vars => IInv'
<1> SUFFICES ASSUME IInv, [Next]_vars PROVE IInv'
  OBVIOUS
<1>1. CASE UNCHANGED vars
  BY <1>1 DEF vars, IInv, TypeOK, CallShape, OwnOut, BoundKept, PoolExact, CountExact, ReserveWhole,
     NotFreedUnderUse, FlowControlTold, InUse, Unfitted, Admitted, Counted
<1>2. ASSUME NEW c \in Context, CallStep(c) PROVE IInv'
  BY <1>2, FitInv, CountInv, HeapAllocInv, UndoInv, FlowCheckInv, PauseInv, TellInv, FreeCheckInv,
     UnpauseInv DEF CallStep
<1>3. ASSUME NEW c \in Context, NEW w \in Way,
             AllocData(c, w) \/ AllocCommand(c, w) \/ FreeCommand(c, w) \/ FreeData(c, w)
      PROVE  IInv'
  BY <1>3, AllocDataInv, AllocCommandInv, FreeCommandInv, FreeDataInv
<1> QED
  BY <1>1, <1>2, <1>3, PktmemInitInv, DeinitBeginInv, DeinitSleepInv, DeinitEndInv DEF Next

LEMMA Invariant == Spec => []IInv
BY InitInv, NextInv, PTL DEF Spec

-----------------------------------------------------------------------------
(* With the second threshold above one, a paused data path is resumed *)

LEMMA ResumeStep ==
  ASSUME UNPAUSE_THRESHOLD > 1, IInv, ResumeComing, [Next]_vars
  PROVE  ResumeComing'
<1> USE PktMemAssumption DEF IInv, Executing, At, Context, Way
<1>1. call \in [Context -> CallType]
  BY DEF TypeOK
<1>2. CASE UNCHANGED vars
  BY <1>2 DEF vars, ResumeComing
<1>3. CASE PktmemInit \/ DeinitEnd
  BY <1>3 DEF PktmemInit, DeinitEnd, ResumeComing
<1>4. CASE DeinitBegin
  BY <1>4 DEF DeinitBegin, counts, packets, ResumeComing, Idle
<1>5. CASE DeinitSleep
  BY <1>1, <1>5 DEF DeinitSleep, counts, packets, ResumeComing, CallType
<1>6. ASSUME NEW c \in Context, NEW w \in Way, AllocData(c, w) \/ AllocCommand(c, w)
      PROVE  ResumeComing'
  BY <1>1, <1>6 DEF AllocData, AllocCommand, counts, packets, ResumeComing
<1>7. ASSUME NEW c \in Context, NEW w \in Way, FreeCommand(c, w) PROVE ResumeComing'
  BY <1>7 DEF FreeCommand, ResumeComing
\* The context that frees the last packet goes on to look at the threshold.
<1>8. ASSUME NEW c \in Context, NEW w \in Way, FreeData(c, w) PROVE ResumeComing'
  BY <1>1, <1>8 DEF FreeData, ResumeComing, TypeOK, CallType
<1>9. ASSUME NEW c \in Context, CallStep(c) PROVE ResumeComing'
  <2>1. InUse /\ call[c].way \in Way
    BY <1>1, <1>9 DEF CallStep, Fit, Count, HeapAlloc, Undo, FlowCheck, Pause, Tell, FreeCheck,
       Unpause, CallShape, CallType, Idle
  <2>2. CASE Fit(c) \/ Count(c) \/ Undo(c) \/ FlowCheck(c) \/ Tell(c)
    <3>1. \A d \in Context : call[d].at \in {"freed", "unpause"} => call'[d] = call[d]
      BY <1>1, <2>2 DEF Fit, Count, Undo, FlowCheck, Tell, Goto, Return
    <3>2. tx_data_paused' = tx_data_paused /\ data' = data
      BY <2>2 DEF Fit, Count, Undo, FlowCheck, Tell, counts, packets
    <3> QED
      BY <3>1, <3>2 DEF ResumeComing
  <2>3. CASE HeapAlloc(c)
    <3>1. \A d \in Context : call[d].at \in {"freed", "unpause"} => call'[d] = call[d]
      BY <1>1, <2>3 DEF HeapAlloc, Goto, Return
    <3>2. tx_data_paused' = tx_data_paused /\ (data["tx"] > 0 => data'["tx"] > 0)
      BY <2>1, <2>3 DEF HeapAlloc, counts, TypeOK
    <3> QED
      BY <3>1, <3>2 DEF ResumeComing
  \* Whoever pauses still has a packet that nobody can have freed.
  <2>4. CASE Pause(c)
    BY <2>4 DEF Pause, packets, CallShape, OwnOut, ResumeComing
  \* The last packet is gone, so at most the other context's attempt is still counted.
  <2>5. CASE FreeCheck(c)
    <3>1. CASE data["tx"] > 0
      BY <2>5, <3>1 DEF FreeCheck, packets, ResumeComing
    <3>2. CASE data["tx"] = 0
      <4>1. data_allocated["tx"] = Counted("thread", "tx") + Counted("irq", "tx")
        BY <2>1, <3>2 DEF CountExact, Counted
      <4>2. data_allocated["tx"] <= 1
        BY <2>5, <4>1 DEF FreeCheck, Counted
      <4>3. Goto(c, "unpause")
        BY <2>5, <4>2 DEF FreeCheck, TypeOK, UNPAUSE_THRESHOLD
      <4> QED
        BY <1>1, <4>3, GotoFields DEF ResumeComing, Places
    <3> QED
      BY <3>1, <3>2 DEF TypeOK
  <2>6. CASE Unpause(c)
    BY <2>6 DEF Unpause, ResumeComing
  <2> QED
    BY <1>9, <2>2, <2>3, <2>4, <2>5, <2>6 DEF CallStep
<1> QED
  BY <1>2, <1>3, <1>4, <1>5, <1>6, <1>7, <1>8, <1>9 DEF Next

-----------------------------------------------------------------------------
(* The theorems *)

\* The variables keep their types: no list of a reserved pool outgrows the pool, and no
\* count of packets out goes below zero.
THEOREM TypeCorrect == Spec => []TypeOK
<1>1. IInv => TypeOK
  BY DEF IInv
<1> QED
  BY <1>1, Invariant, PTL

\* For every size of the two windows, the counters are exact and the bound on the packets
\* that are out holds, whichever allocations fail and wherever PendSV cuts in
\* (mmhal_wlan_alloc_mmpkt_for_tx, mmhal_wlan_alloc_mmpkt_for_rx).
THEOREM CountIsExact == Spec => []CountExact
<1>1. IInv => CountExact
  BY DEF IInv
<1> QED
  BY <1>1, Invariant, PTL

\* No block of a reserved pool is ever lost or on its list twice (pool_alloc, pool_free).
THEOREM ReserveIsWhole == Spec => []ReserveWhole
<1>1. IInv => ReserveWhole
  BY DEF IInv
<1> QED
  BY <1>1, Invariant, PTL

\* Deinit gives a pool back only when nobody has a packet in it, however long it waited.
THEOREM PoolsOutliveUsers == Spec => []NotFreedUnderUse
<1>1. IInv => NotFreedUnderUse
  BY DEF IInv
<1> QED
  BY <1>1, Invariant, PTL

\* The two atomic exchanges tell the data path every change of the flow control.
THEOREM FlowControlIsTold == Spec => []FlowControlTold
<1>1. IInv => FlowControlTold
  BY DEF IInv
<1> QED
  BY <1>1, Invariant, PTL

\* A paused data path always has a packet out whose return resumes it, if the second
\* threshold is above one: of the pools mm_halow_pktmem.c:60 accepts only that of three
\* transmit blocks is left out, where an allocation that fails can hide the return of the
\* last packet from the threshold, as MCPktMemThree.cfg shows.
THEOREM PausedIsResumed == Spec => [](UNPAUSE_THRESHOLD > 1 => PausedResumes)
<1> DEFINE Coming == UNPAUSE_THRESHOLD > 1 => ResumeComing
<1>1. Init => Coming
  BY DEF Init, ResumeComing
<1>2. IInv /\ Coming /\ [Next]_vars => Coming'
  BY ResumeStep
<1>3. IInv /\ Coming => (UNPAUSE_THRESHOLD > 1 => PausedResumes)
  BY DEF IInv, ResumeComing, PausedResumes, Idle
<1> QED
  BY <1>1, <1>2, <1>3, Invariant, PTL DEF Spec
=============================================================================
