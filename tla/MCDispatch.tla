---------------------------- MODULE MCDispatch ----------------------------
(* Model values and small instances of Dispatch for TLC: two notification *)
(* rows (one requested for immediate delivery, one with a scheduled_at),  *)
(* one or two workers, and buffers small enough for ErrQueueFull.          *)
EXTENDS Dispatch, TLC

CONSTANTS n1, n2, w1, w2

MCNotifications == {n1, n2}
MCWorkers       == {w1, w2}
MCOneWorker     == {w1}
MCPriorityOf    == (n1 :> "high") @@ (n2 :> "normal")
\* both rows in one tier, so a row can find its tier's buffer full
MCSameTier      == (n1 :> "normal") @@ (n2 :> "normal")
MCScheduled     == {n2}
MCCancelRequests == {n1, n2}
MCCancelFirst   == {n1}
MCNoCancel      == {}
MCCapacity      == [t \in Priorities |-> 1]
MCWideCapacity  == [t \in Priorities |-> 3]
WorkerSymmetry  == Permutations(MCWorkers)
=============================================================================
