-------------------------- MODULE MCPriorityQueue --------------------------
(* Model values for PriorityQueue: two high items, two normal, one low,    *)
(* two workers.  The high buffer holds two items, so FIFO order within a  *)
(* tier matters; the normal buffer holds one, so ErrQueueFull happens.    *)
EXTENDS PriorityQueue, TLC

CONSTANTS h1, h2, n1, n2, l1, c1, c2

MCItems      == {h1, h2, n1, n2, l1}
MCPriorityOf == (h1 :> "high") @@ (h2 :> "high") @@ (n1 :> "normal") @@ (n2 :> "normal") @@ (l1 :> "low")
MCCapacity   == [t \in Tiers |-> IF t = "high" THEN 2 ELSE 1]
MCConsumers  == {c1, c2}
=============================================================================
