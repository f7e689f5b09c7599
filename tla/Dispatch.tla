------------------------------ MODULE Dispatch ------------------------------
(***************************************************************************)
(* The dispatch engine of the notification service: the notification rows *)
(* in the store, the three-tier in-memory priority queue, the intake path *)
(* of NotificationService (Create, enqueue, Cancel), the worker pool, the *)
(* retry poller and the scheduled poller, and graceful shutdown/restart.  *)
(*                                                                         *)
(* Every repository call is one atomic step (each is a single SQL          *)
(* statement); every actor interleaves with the others between two calls. *)
(* Timestamps are abstracted to whether they have passed: nextRetry[n] is *)
(* "none" (NULL), "pending" (in the future) or "due"; schedDue[n] says    *)
(* whether scheduled_at has passed.                                        *)
(***************************************************************************)
EXTENDS Naturals, Sequences, FiniteSets

CONSTANTS
    Notifications,  \* ids of notification rows (model values)
    Workers,        \* worker goroutines of the pool
    PriorityOf,     \* [Notifications -> Priorities], the request's priority
    Scheduled,      \* notifications created with a scheduled_at
    CancelRequests, \* notifications a client sends one DELETE for
    MaxRetries,     \* max_retries of every row (3 in buildNotification)
    Capacity,       \* [Priorities -> Nat \ {0}], buffer size of each tier
    RepoMayFail,    \* TRUE: a repository call may return an error
    MayShutdown,    \* TRUE: SIGTERM may arrive, followed by a restart
    AttemptBound    \* state bound: the ghost counts saturate at this value

Priorities == {"high", "normal", "low"}
Pollers    == {"retry", "scheduler"}
NoItem     == "none"

ASSUME /\ PriorityOf \in [Notifications -> Priorities]
       /\ Scheduled \subseteq Notifications
       /\ CancelRequests \subseteq Notifications
       /\ MaxRetries \in Nat
       /\ Capacity \in [Priorities -> Nat \ {0}]
       /\ RepoMayFail \in BOOLEAN /\ MayShutdown \in BOOLEAN
       /\ AttemptBound \in Nat

VARIABLES
    status,      \* notifications.status, "absent" before the INSERT
    retryCount,  \* notifications.retry_count
    nextRetry,   \* notifications.next_retry_at: "none", "pending", "due"
    schedDue,    \* scheduled_at <= NOW()
    queue,       \* [Priorities -> Seq(Notifications)], the buffered channels
    ipc,         \* Create handler of each notification's POST
    cpc,         \* Cancel handler of each notification's DELETE
    wpc,         \* control point of each worker
    witem,       \* notification id the worker dequeued
    wrc,         \* retry_count of the worker's fetched copy of the row
    ppc,         \* control point of each poller
    plist,       \* rows returned by the poller's due-query, not yet handled
    pcur,        \* row the poller enqueued and is about to mark queued
    phase,       \* "serving", "draining" (HTTP shut down), "stopped" (ctx cancelled)
    failures,    \* ghost: provider errors observed per notification
    deliveries,  \* ghost: provider acceptances per notification
    cancelAcked  \* ghost: notifications whose DELETE returned 204

repo    == <<status, retryCount, nextRetry, schedDue>>
actors  == <<ipc, cpc, wpc, witem, wrc, ppc, plist, pcur, phase>>
ghost   == <<failures, deliveries, cancelAcked>>
vars    == <<repo, queue, actors, ghost>>

Statuses == {"absent", "pending", "queued", "processing", "sent", "failed",
             "cancelled", "scheduled"}

TypeOK ==
    /\ status \in [Notifications -> Statuses]
    /\ retryCount \in [Notifications -> 0..MaxRetries]
    /\ nextRetry \in [Notifications -> {"none", "pending", "due"}]
    /\ schedDue \in [Notifications -> BOOLEAN]
    /\ \A t \in Priorities : queue[t] \in Seq(Notifications) /\ Len(queue[t]) <= Capacity[t]
    /\ ipc \in [Notifications -> {"idle", "enqueue", "mark", "done"}]
    /\ cpc \in [Notifications -> {"idle", "write", "done"}]
    /\ wpc \in [Workers -> {"idle", "select", "fetch", "processing", "wait",
                            "send", "marksent", "handlefailure", "exit"}]
    /\ witem \in [Workers -> Notifications \cup {NoItem}]
    /\ wrc \in [Workers -> 0..MaxRetries]
    /\ ppc \in [Pollers -> {"idle", "loop", "mark"}]
    /\ plist \in [Pollers -> SUBSET Notifications]
    /\ pcur \in [Pollers -> Notifications \cup {NoItem}]
    /\ phase \in {"serving", "draining", "stopped"}
    /\ failures \in [Notifications -> 0..AttemptBound]
    /\ deliveries \in [Notifications -> 0..AttemptBound]
    /\ cancelAcked \subseteq Notifications

-----------------------------------------------------------------------------
(* Cancellation state of the worker context and of the HTTP server.        *)
running   == phase # "stopped"
accepting == phase = "serving"

(* A repository call made with the workers' context fails when that       *)
(* context is cancelled (pgx returns ctx.Err()) or on a database error.   *)
WorkerCallFails == RepoMayFail \/ ~running

(* PriorityQueue.Enqueue: non-blocking send on the tier's channel.         *)
CanEnqueue(n) == Len(queue[PriorityOf[n]]) < Capacity[PriorityOf[n]]
Enqueued(n)   == [queue EXCEPT ![PriorityOf[n]] = Append(@, n)]

(* Mutations of the due-queries: a WHERE clause without its status       *)
(* filter, and the retry budget compared off by one.                       *)
DueRetriesAnyStatus ==
    {n \in Notifications : retryCount[n] < MaxRetries /\ nextRetry[n] = "due"}
DueRetriesOffByOne ==
    {n \in Notifications : /\ status[n] = "failed"
                           /\ retryCount[n] + 1 < MaxRetries
                           /\ nextRetry[n] = "due"}
DueScheduledAnyStatus == {n \in Notifications : n \in Scheduled /\ schedDue[n]}

(* FindDueRetries and FindDueScheduled: the WHERE clauses of the queries.  *)
DueRetries ==
    {n \in Notifications : /\ status[n] = "failed"
                           /\ retryCount[n] < MaxRetries
                           /\ nextRetry[n] = "due"}
DueScheduled ==
    {n \in Notifications : status[n] = "scheduled" /\ schedDue[n]}
DueRows(p) == IF p = "retry" THEN DueRetries ELSE DueScheduled

(* Service.Cancel: the statuses its switch lets through to repo.Cancel.    *)
Cancellable == {"pending", "queued", "scheduled", "failed"}

Init ==
    /\ status = [n \in Notifications |-> "absent"]
    /\ retryCount = [n \in Notifications |-> 0]
    /\ nextRetry = [n \in Notifications |-> "none"]
    /\ schedDue = [n \in Notifications |-> FALSE]
    /\ queue = [t \in Priorities |-> <<>>]
    /\ ipc = [n \in Notifications |-> "idle"]
    /\ cpc = [n \in Notifications |-> "idle"]
    /\ wpc = [w \in Workers |-> "idle"]
    /\ witem = [w \in Workers |-> NoItem]
    /\ wrc = [w \in Workers |-> 0]
    /\ ppc = [p \in Pollers |-> "idle"]
    /\ plist = [p \in Pollers |-> {}]
    /\ pcur = [p \in Pollers |-> NoItem]
    /\ phase = "serving"
    /\ failures = [n \in Notifications |-> 0]
    /\ deliveries = [n \in Notifications |-> 0]
    /\ cancelAcked = {}

-----------------------------------------------------------------------------
(***************************************************************************)
(* Intake: NotificationService.Create, without an idempotency key.        *)
(* buildNotification + repo.Create insert the row as "scheduled" when     *)
(* scheduled_at is set, else "pending"; an insert error ends the request. *)
(***************************************************************************)
InitialStatus(n) == IF n \in Scheduled THEN "scheduled" ELSE "pending"

Create(n) ==
    /\ accepting
    /\ ipc[n] = "idle"
    /\ \/ /\ status' = [status EXCEPT ![n] = InitialStatus(n)]
          /\ ipc' = [ipc EXCEPT ![n] = IF n \in Scheduled THEN "done" ELSE "enqueue"]
       \/ /\ RepoMayFail
          /\ ipc' = [ipc EXCEPT ![n] = "done"]
          /\ UNCHANGED status
    /\ UNCHANGED <<retryCount, nextRetry, schedDue, queue, cpc, wpc, witem, wrc,
                   ppc, plist, pcur, phase, ghost>>

(* service.enqueue, first half: q.Enqueue; on ErrQueueFull the row stays  *)
(* pending and the request returns.                                        *)
IntakeEnqueue(n) ==
    /\ ipc[n] = "enqueue"
    /\ \/ /\ CanEnqueue(n)
          /\ queue' = Enqueued(n)
          /\ ipc' = [ipc EXCEPT ![n] = "mark"]
       \/ /\ ~CanEnqueue(n)
          /\ ipc' = [ipc EXCEPT ![n] = "done"]
          /\ UNCHANGED queue
    /\ UNCHANGED <<repo, cpc, wpc, witem, wrc, ppc, plist, pcur, phase, ghost>>

(* service.enqueue, second half: the blind UpdateStatus(id, queued).       *)
IntakeMarkQueued(n) ==
    /\ ipc[n] = "mark"
    /\ \/ status' = [status EXCEPT ![n] = "queued"]
       \/ RepoMayFail /\ UNCHANGED status
    /\ ipc' = [ipc EXCEPT ![n] = "done"]
    /\ UNCHANGED <<retryCount, nextRetry, schedDue, queue, cpc, wpc, witem, wrc,
                   ppc, plist, pcur, phase, ghost>>

(***************************************************************************)
(* NotificationService.Cancel: GetByID, the switch on the status read,    *)
(* then (as a separate statement) the unconditional repo.Cancel.           *)
(***************************************************************************)
CancelRead(n) ==
    /\ accepting
    /\ n \in CancelRequests
    /\ cpc[n] = "idle"
    /\ \/ cpc' = [cpc EXCEPT ![n] = IF status[n] \in Cancellable THEN "write" ELSE "done"]
       \/ RepoMayFail /\ cpc' = [cpc EXCEPT ![n] = "done"]
    /\ UNCHANGED <<repo, queue, ipc, wpc, witem, wrc, ppc, plist, pcur, phase, ghost>>

CancelWrite(n) ==
    /\ cpc[n] = "write"
    /\ \/ /\ status' = [status EXCEPT ![n] = "cancelled"]
          /\ cancelAcked' = cancelAcked \cup {n}
       \/ RepoMayFail /\ UNCHANGED <<status, cancelAcked>>
    /\ cpc' = [cpc EXCEPT ![n] = "done"]
    /\ UNCHANGED <<retryCount, nextRetry, schedDue, queue, ipc, wpc, witem, wrc,
                   ppc, plist, pcur, phase, failures, deliveries>>

-----------------------------------------------------------------------------
(***************************************************************************)
(* Worker.Run and PriorityQueue.Dequeue.  Step 1 is a non-blocking receive *)
(* on the high tier, made whatever the context; step 2 is a select over   *)
(* the three tiers and ctx.Done(), which Go resolves at random among the  *)
(* ready cases.                                                            *)
(***************************************************************************)
Take(w, t) ==
    /\ queue[t] # <<>>
    /\ witem' = [witem EXCEPT ![w] = Head(queue[t])]
    /\ queue' = [queue EXCEPT ![t] = Tail(@)]
    /\ wpc' = [wpc EXCEPT ![w] = "fetch"]

DequeueHigh(w) ==
    /\ wpc[w] = "idle"
    /\ \/ Take(w, "high")
       \/ /\ queue["high"] = <<>>
          /\ wpc' = [wpc EXCEPT ![w] = "select"]
          /\ UNCHANGED <<queue, witem>>
    /\ UNCHANGED <<repo, ipc, cpc, wrc, ppc, plist, pcur, phase, ghost>>

(* Mutation: the worker loop continues instead of returning on !ok.       *)
DequeueSelectNoReturn(w) ==
    /\ wpc[w] = "select"
    /\ \/ \E t \in Priorities : Take(w, t)
       \/ /\ ~running
          /\ wpc' = [wpc EXCEPT ![w] = "idle"]
          /\ UNCHANGED <<queue, witem>>
    /\ UNCHANGED <<repo, ipc, cpc, wrc, ppc, plist, pcur, phase, ghost>>

DequeueSelect(w) ==
    /\ wpc[w] = "select"
    /\ \/ \E t \in Priorities : Take(w, t)
       \/ /\ ~running
          /\ wpc' = [wpc EXCEPT ![w] = "exit"]
          /\ UNCHANGED <<queue, witem>>
    /\ UNCHANGED <<repo, ipc, cpc, wrc, ppc, plist, pcur, phase, ghost>>

(* Worker.process: GetByID, then skip a row read as cancelled.  On a       *)
(* failed call or a skip the item is dropped and the worker dequeues.      *)
Fetch(w) ==
    LET n == witem[w] IN
    /\ wpc[w] = "fetch"
    /\ \/ /\ running
          /\ status[n] # "cancelled"
          /\ wrc' = [wrc EXCEPT ![w] = retryCount[n]]
          /\ wpc' = [wpc EXCEPT ![w] = "processing"]
       \/ /\ running
          /\ status[n] = "cancelled"
          /\ wpc' = [wpc EXCEPT ![w] = "idle"]
          /\ UNCHANGED wrc
       \/ /\ WorkerCallFails
          /\ wpc' = [wpc EXCEPT ![w] = "idle"]
          /\ UNCHANGED wrc
    /\ UNCHANGED <<repo, queue, ipc, cpc, witem, ppc, plist, pcur, phase, ghost>>

(* Worker.process: the blind UpdateStatus(id, processing).                 *)
MarkProcessing(w) ==
    /\ wpc[w] = "processing"
    /\ \/ /\ running
          /\ status' = [status EXCEPT ![witem[w]] = "processing"]
          /\ wpc' = [wpc EXCEPT ![w] = "wait"]
       \/ /\ WorkerCallFails
          /\ wpc' = [wpc EXCEPT ![w] = "idle"]
          /\ UNCHANGED status
    /\ UNCHANGED <<retryCount, nextRetry, schedDue, queue, ipc, cpc, witem, wrc,
                   ppc, plist, pcur, phase, ghost>>

(* ChannelLimiters.Wait: rate.Limiter.Wait returns ctx.Err() once the      *)
(* context is cancelled, and process returns leaving the row processing.  *)
LimiterWait(w) ==
    /\ wpc[w] = "wait"
    /\ wpc' = [wpc EXCEPT ![w] = IF running THEN "send" ELSE "idle"]
    /\ UNCHANGED <<repo, queue, ipc, cpc, witem, wrc, ppc, plist, pcur, phase, ghost>>

(* Ghost counters stop at AttemptBound: a scheduled row whose status     *)
(* write keeps failing is re-sent without end, and the properties compare *)
(* the counts only with values below the bound.                            *)
Bump(c) == IF c < AttemptBound THEN c + 1 ELSE c

(* Provider.Send: accepted (202) only while the context is live; any      *)
(* error (transport, status, decode, cancelled context) is a failure.     *)
Send(w) ==
    LET n == witem[w] IN
    /\ wpc[w] = "send"
    /\ \/ /\ running
          /\ deliveries' = [deliveries EXCEPT ![n] = Bump(@)]
          /\ wpc' = [wpc EXCEPT ![w] = "marksent"]
          /\ UNCHANGED failures
       \/ /\ failures' = [failures EXCEPT ![n] = Bump(@)]
          /\ wpc' = [wpc EXCEPT ![w] = "handlefailure"]
          /\ UNCHANGED deliveries
    /\ UNCHANGED <<repo, queue, ipc, cpc, witem, wrc, ppc, plist, pcur, phase,
                   cancelAcked>>

(* Worker.process: MarkSent after an accepted send.  The batch counter    *)
(* refresh is not part of this module (no batches here).                   *)
MarkSent(w) ==
    /\ wpc[w] = "marksent"
    /\ \/ running /\ status' = [status EXCEPT ![witem[w]] = "sent"]
       \/ WorkerCallFails /\ UNCHANGED status
    /\ wpc' = [wpc EXCEPT ![w] = "idle"]
    /\ UNCHANGED <<retryCount, nextRetry, schedDue, queue, ipc, cpc, witem, wrc,
                   ppc, plist, pcur, phase, ghost>>

(* Mutation of handleFailure: ScheduleRetry passed n.RetryCount instead  *)
(* of n.RetryCount + 1.                                                    *)
HandleFailureNoIncrement(w) ==
    LET n == witem[w] IN
    /\ wpc[w] = "handlefailure"
    /\ \/ /\ running
          /\ wrc[w] >= MaxRetries
          /\ status' = [status EXCEPT ![n] = "failed"]
          /\ nextRetry' = [nextRetry EXCEPT ![n] = "none"]
          /\ UNCHANGED retryCount
       \/ /\ running
          /\ wrc[w] < MaxRetries
          /\ status' = [status EXCEPT ![n] = "failed"]
          /\ retryCount' = [retryCount EXCEPT ![n] = wrc[w]]
          /\ nextRetry' = [nextRetry EXCEPT ![n] = "pending"]
       \/ WorkerCallFails /\ UNCHANGED <<status, retryCount, nextRetry>>
    /\ wpc' = [wpc EXCEPT ![w] = "idle"]
    /\ UNCHANGED <<schedDue, queue, ipc, cpc, witem, wrc, ppc, plist, pcur, phase, ghost>>

(* Worker.handleFailure, deciding on the retry_count of the copy fetched  *)
(* before the send: MarkFailed when the budget is spent, else             *)
(* ScheduleRetry(retry_count + 1, now + backoff) with a future timestamp. *)
HandleFailure(w) ==
    LET n == witem[w] IN
    /\ wpc[w] = "handlefailure"
    /\ \/ /\ running
          /\ wrc[w] >= MaxRetries
          /\ status' = [status EXCEPT ![n] = "failed"]
          /\ nextRetry' = [nextRetry EXCEPT ![n] = "none"]
          /\ UNCHANGED retryCount
       \/ /\ running
          /\ wrc[w] < MaxRetries
          /\ status' = [status EXCEPT ![n] = "failed"]
          /\ retryCount' = [retryCount EXCEPT ![n] = wrc[w] + 1]
          /\ nextRetry' = [nextRetry EXCEPT ![n] = "pending"]
       \/ WorkerCallFails /\ UNCHANGED <<status, retryCount, nextRetry>>
    /\ wpc' = [wpc EXCEPT ![w] = "idle"]
    /\ UNCHANGED <<schedDue, queue, ipc, cpc, witem, wrc, ppc, plist, pcur, phase, ghost>>

-----------------------------------------------------------------------------
(***************************************************************************)
(* RetryWorker and SchedulerWorker: the same loop over a different        *)
(* due-query.  On each tick the query runs (an error skips the tick); for *)
(* each returned row, in no particular order, Enqueue (ErrQueueFull skips *)
(* the row) and then a blind UpdateStatus(id, queued).  The loop finishes *)
(* the rows already read even after the context is cancelled.              *)
(***************************************************************************)
PollTick(p) ==
    /\ running
    /\ ppc[p] = "idle"
    /\ \/ plist' = [plist EXCEPT ![p] = DueRows(p)]
       \/ RepoMayFail /\ UNCHANGED plist
    /\ ppc' = [ppc EXCEPT ![p] = "loop"]
    /\ UNCHANGED <<repo, queue, ipc, cpc, wpc, witem, wrc, pcur, phase, ghost>>

PollEnqueue(p) ==
    /\ ppc[p] = "loop"
    /\ \/ /\ plist[p] = {}
          /\ ppc' = [ppc EXCEPT ![p] = "idle"]
          /\ UNCHANGED <<queue, plist, pcur>>
       \/ \E n \in plist[p] :
            /\ plist' = [plist EXCEPT ![p] = @ \ {n}]
            /\ \/ /\ CanEnqueue(n)
                  /\ queue' = Enqueued(n)
                  /\ pcur' = [pcur EXCEPT ![p] = n]
                  /\ ppc' = [ppc EXCEPT ![p] = "mark"]
               \/ /\ ~CanEnqueue(n)
                  /\ UNCHANGED <<queue, pcur, ppc>>
    /\ UNCHANGED <<repo, ipc, cpc, wpc, witem, wrc, phase, ghost>>

PollMarkQueued(p) ==
    /\ ppc[p] = "mark"
    /\ \/ running /\ status' = [status EXCEPT ![pcur[p]] = "queued"]
       \/ WorkerCallFails /\ UNCHANGED status
    /\ ppc' = [ppc EXCEPT ![p] = "loop"]
    /\ pcur' = [pcur EXCEPT ![p] = NoItem]
    /\ UNCHANGED <<retryCount, nextRetry, schedDue, queue, ipc, cpc, wpc, witem,
                   wrc, plist, phase, ghost>>

(***************************************************************************)
(* Wall-clock time passing a row's next_retry_at or scheduled_at.          *)
(***************************************************************************)
RetryTimePasses(n) ==
    /\ nextRetry[n] = "pending"
    /\ nextRetry' = [nextRetry EXCEPT ![n] = "due"]
    /\ UNCHANGED <<status, retryCount, schedDue, queue, actors, ghost>>

ScheduledTimePasses(n) ==
    /\ n \in Scheduled
    /\ status[n] # "absent"
    /\ ~schedDue[n]
    /\ schedDue' = [schedDue EXCEPT ![n] = TRUE]
    /\ UNCHANGED <<status, retryCount, nextRetry, queue, actors, ghost>>

(***************************************************************************)
(* main: on SIGTERM, srv.Shutdown stops intake (in-flight handlers run on *)
(* until they finish or the timeout expires), then cancelWorkers() and    *)
(* pool.Wait().  When every worker has returned the process exits; a new  *)
(* process starts with an empty queue and the rows as persisted.           *)
(***************************************************************************)
StopHTTP ==
    /\ MayShutdown
    /\ phase = "serving"
    /\ phase' = "draining"
    /\ UNCHANGED <<repo, queue, ipc, cpc, wpc, witem, wrc, ppc, plist, pcur, ghost>>

(* srv.Shutdown returns once in-flight handlers are done; the model       *)
(* assumes they finish within SHUTDOWN_TIMEOUT.                            *)
HandlersDrained ==
    /\ \A n \in Notifications : ipc[n] \in {"idle", "done"}
    /\ \A n \in Notifications : cpc[n] \in {"idle", "done"}

CancelWorkers ==
    /\ phase = "draining"
    /\ HandlersDrained
    /\ phase' = "stopped"
    /\ UNCHANGED <<repo, queue, ipc, cpc, wpc, witem, wrc, ppc, plist, pcur, ghost>>

Restart ==
    /\ phase = "stopped"
    /\ \A w \in Workers : wpc[w] = "exit"
    /\ phase' = "serving"
    /\ queue' = [t \in Priorities |-> <<>>]
    /\ ipc' = [n \in Notifications |-> IF ipc[n] = "idle" THEN "idle" ELSE "done"]
    /\ cpc' = [n \in Notifications |-> IF cpc[n] = "idle" THEN "idle" ELSE "done"]
    /\ wpc' = [w \in Workers |-> "idle"]
    /\ witem' = [w \in Workers |-> NoItem]
    /\ ppc' = [p \in Pollers |-> "idle"]
    /\ plist' = [p \in Pollers |-> {}]
    /\ pcur' = [p \in Pollers |-> NoItem]
    /\ UNCHANGED <<repo, wrc, ghost>>

-----------------------------------------------------------------------------
WorkerStep(w) ==
    \/ DequeueHigh(w) \/ DequeueSelect(w) \/ Fetch(w) \/ MarkProcessing(w)
    \/ LimiterWait(w) \/ Send(w) \/ MarkSent(w) \/ HandleFailure(w)

Next ==
    \/ \E n \in Notifications :
         \/ Create(n) \/ IntakeEnqueue(n) \/ IntakeMarkQueued(n)
         \/ CancelRead(n) \/ CancelWrite(n)
         \/ RetryTimePasses(n) \/ ScheduledTimePasses(n)
    \/ \E w \in Workers : WorkerStep(w)
    \/ \E p \in Pollers : PollTick(p) \/ PollEnqueue(p) \/ PollMarkQueued(p)
    \/ StopHTTP \/ CancelWorkers \/ Restart

Spec == Init /\ [][Next]_vars

(* Goroutines that are runnable get scheduled, tickers keep firing, time  *)
(* passes and main proceeds once the HTTP server is shut down.  Clients   *)
(* sending requests, SIGTERM and the restart are not assumed to happen.   *)
Fairness ==
    /\ \A w \in Workers : WF_vars(WorkerStep(w))
    /\ \A p \in Pollers : WF_vars(PollTick(p)) /\ WF_vars(PollEnqueue(p))
                          /\ WF_vars(PollMarkQueued(p))
    /\ \A n \in Notifications : /\ WF_vars(IntakeEnqueue(n))
                                /\ WF_vars(IntakeMarkQueued(n))
                                /\ WF_vars(CancelWrite(n))
                                /\ WF_vars(RetryTimePasses(n))
                                /\ WF_vars(ScheduledTimePasses(n))
    /\ WF_vars(CancelWorkers)

FairSpec == Spec /\ Fairness

-----------------------------------------------------------------------------
(***************************************************************************)
(* Properties.                                                             *)
(***************************************************************************)
InFlight == {"fetch", "processing", "wait", "send", "marksent", "handlefailure"}

(* Copies of n in the queue's buffers plus workers currently handling n.   *)
Copies(n) ==
    Cardinality({x \in UNION {{t} \X DOMAIN queue[t] : t \in Priorities} :
                    queue[x[1]][x[2]] = n})
    + Cardinality({w \in Workers : wpc[w] \in InFlight /\ witem[w] = n})

(* Terminal per the status state machine: sent, cancelled, or failed with *)
(* the retry budget spent.  Readmittable: a poller will enqueue it again. *)
Terminal(n) ==
    \/ status[n] \in {"sent", "cancelled"}
    \/ status[n] = "failed" /\ retryCount[n] >= MaxRetries
Readmittable(n) ==
    \/ status[n] = "scheduled"
    \/ status[n] = "failed" /\ retryCount[n] < MaxRetries

(* The provider accepts each notification at most once: neither a poller  *)
(* re-admitting a row nor a late status write may put an already          *)
(* delivered notification back in front of a worker.                      *)
AtMostOnceDelivery == \A n \in Notifications : deliveries[n] <= 1

(* A notification is never in the queue twice, nor in the queue while a   *)
(* worker is handling it, nor handled by two workers at once: the due-    *)
(* queries of the two pollers and the intake path never re-admit a row    *)
(* that is already on its way to the provider.                             *)
NoDoubleDispatch == \A n \in Notifications : Copies(n) <= 1

(* retry_count counts the provider failures of the row: it lags behind    *)
(* them by at most the one failure a worker is still handling.  Stale     *)
(* copies of the row used by handleFailure would make it fall behind.     *)
RetryCountTracksFailures ==
    \A n \in Notifications : retryCount[n] <= failures[n]
                             /\ failures[n] <= retryCount[n] + 1

(* Spec 8.7: a failed row with retries left, or a scheduled row, is       *)
(* eventually taken out of that status by the poller that owns it (or by  *)
(* a cancel), unless the workers' context is cancelled first.              *)
DueRowsReadmitted ==
    \A n \in Notifications :
        /\ (status[n] = "failed" /\ retryCount[n] < MaxRetries)
              ~> (status[n] # "failed" \/ ~running)
        /\ (status[n] = "scheduled") ~> (status[n] # "scheduled" \/ ~running)

(* Graceful shutdown completes: once the workers' context is cancelled,   *)
(* every worker eventually returns from Run, so pool.Wait() returns.       *)
ShutdownCompletes ==
    (phase = "stopped") ~> (\A w \in Workers : wpc[w] = "exit")

(* Spec 8.4: once Cancel has returned success, the notification is never  *)
(* handed to the provider again.                                           *)
CancelStopsDispatch ==
    [][\A n \in cancelAcked :
         failures'[n] + deliveries'[n] = failures[n] + deliveries[n]]_vars

(* Spec 8.8: when graceful shutdown has completed, every row is terminal   *)
(* or in a status from which a poller re-admits it after the restart.     *)
NoWorkLostOnShutdown ==
    (phase = "stopped" /\ \A w \in Workers : wpc[w] = "exit")
        => \A n \in Notifications : status[n] = "absent" \/ Terminal(n) \/ Readmittable(n)

(* Spec 4.5 and scenario 5: a row is permanently failed only after         *)
(* max_retries retries, i.e. max_retries + 1 provider failures.            *)
RetryBudgetSpent ==
    \A n \in Notifications :
        (status[n] = "failed" /\ retryCount[n] >= MaxRetries) => failures[n] = MaxRetries + 1

=============================================================================
