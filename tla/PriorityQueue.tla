--------------------------- MODULE PriorityQueue ---------------------------
(***************************************************************************)
(* The in-memory priority queue of internal/queue (src/unnamed/part_002)  *)
(* with its producers and consumers.  Each item is offered once by its    *)
(* own producer goroutine (an HTTP handler or a poller); Enqueue is one   *)
(* non-blocking channel send.  Each consumer is a worker goroutine        *)
(* looping on Dequeue: step 1 is a non-blocking receive on the high       *)
(* channel, step 2 a blocking select over the three channels and          *)
(* ctx.Done(), from which Go picks uniformly among the ready cases.  The  *)
(* two steps are separate atomic actions: a producer may run between      *)
(* them.  A consumer then processes the item (Worker.process, abstracted) *)
(* and loops.                                                              *)
(***************************************************************************)
EXTENDS Naturals, Sequences, FiniteSets

CONSTANTS
    Items,       \* the items offered, one producer each
    PriorityOf,  \* Items -> {"high", "normal", "low"}
    Capacity,    \* tier -> channel buffer size
    Consumers    \* worker goroutines

Tiers  == {"high", "normal", "low"}
Nobody == "none"

VARIABLES
    queue,     \* tier -> sequence of items buffered in that channel
    offered,   \* items whose Enqueue has run (accepted or ErrQueueFull)
    cpc,       \* consumer -> "step1" | "step2" | "busy" | "exit"
    held,      \* consumer -> item being processed, or Nobody
    closed,    \* the worker context has been cancelled
    taken      \* ghost: items some consumer has received

vars == <<queue, offered, cpc, held, closed, taken>>

TypeOK ==
    /\ queue \in [Tiers -> Seq(Items)]
    /\ \A t \in Tiers : Len(queue[t]) <= Capacity[t]
    /\ offered \subseteq Items
    /\ cpc \in [Consumers -> {"step1", "step2", "busy", "exit"}]
    /\ held \in [Consumers -> Items \cup {Nobody}]
    /\ closed \in BOOLEAN
    /\ taken \subseteq Items

Init ==
    /\ queue = [t \in Tiers |-> <<>>]
    /\ offered = {}
    /\ cpc = [c \in Consumers |-> "step1"]
    /\ held = [c \in Consumers |-> Nobody]
    /\ closed = FALSE
    /\ taken = {}

(* Enqueue: a select with a send case and a default per priority; a full  *)
(* buffer takes the default and returns ErrQueueFull, dropping the item.  *)
Enqueue(i) ==
    /\ i \notin offered
    /\ offered' = offered \cup {i}
    /\ IF Len(queue[PriorityOf[i]]) < Capacity[PriorityOf[i]]
          THEN queue' = [queue EXCEPT ![PriorityOf[i]] = Append(@, i)]
          ELSE UNCHANGED queue
    /\ UNCHANGED <<cpc, held, closed, taken>>

(* Receive the head of tier t into consumer c.                             *)
Receive(c, t) ==
    /\ queue[t] # <<>>
    /\ held' = [held EXCEPT ![c] = Head(queue[t])]
    /\ queue' = [queue EXCEPT ![t] = Tail(@)]
    /\ taken' = taken \cup {Head(queue[t])}
    /\ cpc' = [cpc EXCEPT ![c] = "busy"]

(* Dequeue step 1: non-blocking receive on high, else fall through.        *)
DequeueHigh(c) ==
    /\ cpc[c] = "step1"
    /\ IF queue["high"] # <<>>
          THEN Receive(c, "high")
          ELSE /\ cpc' = [cpc EXCEPT ![c] = "step2"]
               /\ UNCHANGED <<queue, held, taken>>
    /\ UNCHANGED <<offered, closed>>

(* Mutant: step 2 with a default case that returns false when all three  *)
(* channels are empty, instead of blocking until ctx.Done().              *)
DequeueSelectDefault(c) ==
    /\ cpc[c] = "step2"
    /\ \/ \E t \in Tiers : Receive(c, t)
       \/ /\ closed \/ \A t \in Tiers : queue[t] = <<>>
          /\ cpc' = [cpc EXCEPT ![c] = "exit"]
          /\ UNCHANGED <<queue, held, taken>>
    /\ UNCHANGED <<offered, closed>>

(* Mutant: step 2 with the case on the low channel left out.              *)
DequeueSelectNoLow(c) ==
    /\ cpc[c] = "step2"
    /\ \/ \E t \in {"high", "normal"} : Receive(c, t)
       \/ /\ closed
          /\ cpc' = [cpc EXCEPT ![c] = "exit"]
          /\ UNCHANGED <<queue, held, taken>>
    /\ UNCHANGED <<offered, closed>>

(* Dequeue step 2: the blocking select.  Any ready case may be chosen,    *)
(* ctx.Done() included, which returns false and ends Worker.Run.          *)
DequeueSelect(c) ==
    /\ cpc[c] = "step2"
    /\ \/ \E t \in Tiers : Receive(c, t)
       \/ /\ closed
          /\ cpc' = [cpc EXCEPT ![c] = "exit"]
          /\ UNCHANGED <<queue, held, taken>>
    /\ UNCHANGED <<offered, closed>>

(* Worker.Run: process the item, then loop to Dequeue; process itself     *)
(* never touches the queue.                                                *)
Process(c) ==
    /\ cpc[c] = "busy"
    /\ cpc' = [cpc EXCEPT ![c] = "step1"]
    /\ held' = [held EXCEPT ![c] = Nobody]
    /\ UNCHANGED <<queue, offered, closed, taken>>

(* cancelWorkers() in main.                                                *)
Cancel ==
    /\ ~closed
    /\ closed' = TRUE
    /\ UNCHANGED <<queue, offered, cpc, held, taken>>

ConsumerStep(c) == DequeueHigh(c) \/ DequeueSelect(c) \/ Process(c)

Next ==
    \/ \E i \in Items : Enqueue(i)
    \/ \E c \in Consumers : ConsumerStep(c)
    \/ Cancel

Spec == Init /\ [][Next]_vars

(* Each worker goroutine is scheduled whenever it can move.                *)
FairSpec == Spec /\ \A c \in Consumers : WF_vars(ConsumerStep(c))

-----------------------------------------------------------------------------
(* Refinement mappings.  A consumer holds an item exactly while busy and   *)
(* has stopped once its Dequeue returned false.                            *)
absHeld    == [c \in Consumers |-> IF cpc[c] = "busy" THEN held[c] ELSE Nobody]
absStopped == {c \in Consumers : cpc[c] = "exit"}

Fifo   == INSTANCE PriorityQueueSpec
            WITH held <- absHeld, stopped <- absStopped, Strict <- FALSE
Strict == INSTANCE PriorityQueueSpec
            WITH held <- absHeld, stopped <- absStopped, Strict <- TRUE

(* The channels implement three bounded FIFO tiers: every Dequeue returns *)
(* the head of some non-empty tier, nothing is lost, duplicated or        *)
(* reordered within a tier, and a worker stops only after cancellation.   *)
QueueRefinesFifo == Fifo!Spec

(* The priority contract of spec 4.1 and of the comment on PriorityQueue: *)
(* a consumer never receives a normal or low item while the high tier is  *)
(* non-empty.                                                              *)
QueueRefinesStrict == Strict!Spec

(* Every item the queue accepts is eventually received by some worker,    *)
(* unless the worker context is cancelled (the select's fair wait never   *)
(* starves a tier while workers keep coming back to Dequeue).             *)
AcceptedItemsTaken ==
    \A i \in Items :
        (\E t \in Tiers : \E k \in 1..Len(queue[t]) : queue[t][k] = i)
            ~> (i \in taken \/ closed)
=============================================================================
