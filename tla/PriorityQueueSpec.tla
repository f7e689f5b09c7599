-------------------------- MODULE PriorityQueueSpec --------------------------
(***************************************************************************)
(* What the priority queue promises its producers and consumers (spec     *)
(* 4.1): three bounded FIFO tiers; enqueue never blocks and refuses an    *)
(* item when its tier is full; a ready consumer atomically takes the head *)
(* of a non-empty tier, and with Strict it must take the high tier's head *)
(* whenever the high tier is non-empty.  After cancellation a consumer    *)
(* holding nothing may stop.                                               *)
(***************************************************************************)
EXTENDS Naturals, Sequences

CONSTANTS Items, PriorityOf, Capacity, Consumers, Strict

Tiers  == {"high", "normal", "low"}
Nobody == "none"

VARIABLES queue, offered, held, closed, stopped

absVars == <<queue, offered, held, closed, stopped>>

Init ==
    /\ queue = [t \in Tiers |-> <<>>]
    /\ offered = {}
    /\ held = [c \in Consumers |-> Nobody]
    /\ closed = FALSE
    /\ stopped = {}

Enqueue(i) ==
    /\ i \notin offered
    /\ offered' = offered \cup {i}
    /\ IF Len(queue[PriorityOf[i]]) < Capacity[PriorityOf[i]]
          THEN queue' = [queue EXCEPT ![PriorityOf[i]] = Append(@, i)]
          ELSE UNCHANGED queue
    /\ UNCHANGED <<held, closed, stopped>>

(* The tiers a ready consumer may be served from.                          *)
Eligible ==
    IF Strict /\ queue["high"] # <<>>
       THEN {"high"}
       ELSE {t \in Tiers : queue[t] # <<>>}

Dequeue(c) ==
    /\ c \notin stopped
    /\ held[c] = Nobody
    /\ \E t \in Eligible :
         /\ held' = [held EXCEPT ![c] = Head(queue[t])]
         /\ queue' = [queue EXCEPT ![t] = Tail(@)]
    /\ UNCHANGED <<offered, closed, stopped>>

Release(c) ==
    /\ held[c] # Nobody
    /\ held' = [held EXCEPT ![c] = Nobody]
    /\ UNCHANGED <<queue, offered, closed, stopped>>

Close ==
    /\ ~closed
    /\ closed' = TRUE
    /\ UNCHANGED <<queue, offered, held, stopped>>

Stop(c) ==
    /\ closed
    /\ c \notin stopped
    /\ held[c] = Nobody
    /\ stopped' = stopped \cup {c}
    /\ UNCHANGED <<queue, offered, held, closed>>

Next ==
    \/ \E i \in Items : Enqueue(i)
    \/ \E c \in Consumers : Dequeue(c) \/ Release(c) \/ Stop(c)
    \/ Close

Spec == Init /\ [][Next]_absVars
=============================================================================
