----------------------------- MODULE MCIntake -----------------------------
(* Model values for Intake: two POSTs with one idempotency key and one    *)
(* without; a batch of two children, one scheduled, a batch of none and a *)
(* batch over the limit; a one-slot queue so that ErrQueueFull happens.  *)
EXTENDS Intake, TLC

CONSTANTS r1, r2, r3, k1, b1, b2, b3

MCCreateReqs == {r1, r2, r3}
MCKeyOf      == (r1 :> k1) @@ (r2 :> k1) @@ (r3 :> NoKey)
MCBatchReqs  == {b1, b2, b3}
MCBatchSize  == (b1 :> 2) @@ (b2 :> 0) @@ (b3 :> 3)
MCScheduled  == {<<b1, 2>>}
MCOneBatch   == {b1}
MCOneCreate  == {r3}
MCNoReads    == {}
MCNoCreates  == {}
MCSymmetry   == Permutations({r1, r2})

(* The rejected batches b2 and b3 take one step that reads and writes    *)
(* only their own bpc and bres, so it commutes with every other step:    *)
(* exploring only the orders in which they answer first loses nothing.   *)
MCRejectedFirst ==
    (\E b \in {b2, b3} : bpc[b] # "done")
        => /\ \A r \in CreateReqs : cpc[r] = "lookup"
           /\ bpc[b1] = "validate" /\ gpc[b1] = "readBatch"
=============================================================================
