-------------------------------- MODULE Fifo --------------------------------
(* What mmosal_queue_push and mmosal_queue_pop promise: items leave in the *)
(* order they came, and there are never more than num_items of them.       *)
EXTENDS Integers, Sequences

CONSTANTS Item, num_items

VARIABLE buffer

Init == buffer = <<>>

Push(item) == Len(buffer) < num_items /\ buffer' = Append(buffer, item)

Pop == buffer # <<>> /\ buffer' = Tail(buffer)

Spec == Init /\ [][Pop \/ \E item \in Item : Push(item)]_buffer
=============================================================================
