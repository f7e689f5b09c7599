---------------------------- MODULE MCDelivery ----------------------------
(* A small instance of Delivery for TLC: two rows of one channel, two     *)
(* workers sharing its limiter, one token per second, and the backoff list *)
(* and retry interval scaled down from 5 s, 30 s, 120 s and 10 s.          *)
EXTENDS Delivery, TLC

CONSTANTS r1, r2, w1, w2

MCRows    == {r1, r2}
MCWorkers == {w1, w2}
MCBackoff == <<1, 2, 3>>
WorkerSymmetry == Permutations(MCWorkers)
=============================================================================
