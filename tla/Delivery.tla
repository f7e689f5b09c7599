------------------------------ MODULE Delivery ------------------------------
(***************************************************************************)
(* The send path of one channel over discrete time: Worker.process from   *)
(* the dequeue to the settle, the channel's token bucket                   *)
(* (ChannelLimiters), WebhookProvider.Send with its client timeout,        *)
(* handleFailure's backoff, and the RetryWorker's ticker and due-query.    *)
(*                                                                         *)
(* Time moves in steps of one second (Tick).  Every timestamp is kept      *)
(* relative to now, as a countdown that stops at 0 ("<= NOW()"), so the   *)
(* state space is finite without a bound on the clock.  The row lifecycle *)
(* races of the status writes, cancels and shutdown are the subject of    *)
(* Dispatch; here the repository does not fail, but the status writes of  *)
(* intake and of the retry poll that follow an Enqueue are steps of their  *)
(* own, as in the code.                                                    *)
(***************************************************************************)
EXTENDS Naturals, Sequences, SequencesExt

CONSTANTS
    Rows,           \* notifications of one channel, created and enqueued by intake
    Workers,        \* worker goroutines of the pool
    RatePerSec,     \* RATE_LIMIT_PER_CHANNEL
    Backoff,        \* RETRY_BACKOFF_1..3 in seconds, a non-empty sequence
    MaxRetries,     \* max_retries of every row
    RetryInterval,  \* RETRY_INTERVAL in seconds
    Capacity,       \* buffer size of the rows' priority tier
    ReplyMayBeLost, \* the provider may accept a request whose reply the client never gets
    AttemptBound,   \* state bound: the ghost counts saturate at this value
    Null            \* model value: next_retry_at IS NULL, or no item

ASSUME /\ RatePerSec \in Nat \ {0}
       /\ Backoff \in Seq(Nat \ {0}) /\ Backoff # <<>>
       /\ MaxRetries \in Nat /\ RetryInterval \in Nat \ {0}
       /\ Capacity >= Cardinality(Rows) /\ ReplyMayBeLost \in BOOLEAN

VARIABLES
    status,      \* notifications.status
    retryCount,  \* notifications.retry_count
    retryIn,     \* next_retry_at - now, 0 once it is due; Null when NULL
    queue,       \* the tier's buffered channel
    tokens,      \* the channel's rate.Limiter bucket
    tickIn,      \* seconds until the retry ticker fires next
    tickPending, \* a tick is buffered in ticker.C
    wpc,         \* control point of each worker
    witem,       \* the row the worker dequeued
    wrc,         \* retry_count of the worker's fetched copy
    wnext,       \* handleFailure's nextRetry, relative to now; Null before it is computed
    intakeWrite, \* rows whose create handler has still to write queued
    pollRows,    \* the rows of the poller's current FindDueRetries result still to enqueue
    pollWrite,   \* the row whose UpdateStatus(queued) the poller has still to write, or Null
    deliveries,  \* ghost: requests the provider accepted, per row
    lost,        \* ghost: accepted requests whose reply the client did not get
    errAgo       \* ghost: seconds since the row's latest failed send

vars == <<status, retryCount, retryIn, queue, tokens, tickIn, tickPending, intakeWrite,
          pollRows, pollWrite, wpc, witem, wrc, wnext, deliveries, lost, errAgo>>

(* ratelimiter.New: burst equal to the rate.                               *)
Burst == RatePerSec

MaxBackoff == Max(ToSet(Backoff))

TypeOK ==
    /\ status \in [Rows -> {"pending", "queued", "processing", "sent", "failed"}]
    /\ retryCount \in [Rows -> 0..MaxRetries]
    /\ retryIn \in [Rows -> 0..MaxBackoff \cup {Null}]
    /\ queue \in Seq(Rows) /\ Len(queue) <= Capacity
    /\ tokens \in 0..Burst
    /\ tickIn \in 1..RetryInterval /\ tickPending \in BOOLEAN
    /\ wpc \in [Workers -> {"idle", "wait", "send", "marksent", "handlefailure"}]
    /\ witem \in [Workers -> Rows \cup {Null}]
    /\ wrc \in [Workers -> 0..MaxRetries]
    /\ wnext \in [Workers -> 0..MaxBackoff \cup {Null}]
    /\ intakeWrite \subseteq Rows
    /\ pollRows \in Seq(Rows) /\ pollWrite \in Rows \cup {Null}
    /\ deliveries \in [Rows -> 0..AttemptBound]
    /\ lost \in [Rows -> 0..AttemptBound]
    /\ errAgo \in [Rows -> 0..MaxBackoff]

(* Intake has inserted every row (pending) and enqueued it; each request's *)
(* UpdateStatus(queued) is still to come.  The limiter starts full          *)
(* (rate.NewLimiter); the ticker was started at some point of a second.   *)
Init ==
    /\ status = [n \in Rows |-> "pending"]
    /\ retryCount = [n \in Rows |-> 0]
    /\ retryIn = [n \in Rows |-> Null]
    /\ queue \in SetToSeqs(Rows)
    /\ tokens = Burst
    /\ tickIn \in 1..RetryInterval
    /\ tickPending = FALSE
    /\ intakeWrite = Rows
    /\ pollRows = <<>> /\ pollWrite = Null
    /\ wpc = [w \in Workers |-> "idle"]
    /\ witem = [w \in Workers |-> Null]
    /\ wrc = [w \in Workers |-> 0]
    /\ wnext = [w \in Workers |-> Null]
    /\ deliveries = [n \in Rows |-> 0]
    /\ lost = [n \in Rows |-> 0]
    /\ errAgo = [n \in Rows |-> 0]
-----------------------------------------------------------------------------
(* The status writes still owed by the create handlers and the poller.   *)
writers == <<intakeWrite, pollRows, pollWrite>>

Saturate(c) == IF c < AttemptBound THEN c + 1 ELSE c

(* Mutation: the entry indexed by the attempt number, not retry_count.    *)
BackoffIndexNextAttempt(r) == IF r + 1 >= Len(Backoff) - 1 THEN Len(Backoff) - 1 ELSE r + 1

(* handleFailure: the backoff entry for a row that has been retried r     *)
(* times; attempts beyond the list use its last entry.                     *)
BackoffIndex(r) == IF r >= Len(Backoff) - 1 THEN Len(Backoff) - 1 ELSE r
BackoffDelay(r) == Backoff[BackoffIndex(r) + 1]

(* Mutation of the due-query: without its status filter.                 *)
DueRetriesAnyStatus ==
    {n \in Rows : retryCount[n] < MaxRetries /\ retryIn[n] = 0}

(* FindDueRetries: status = 'failed' AND retry_count < max_retries AND     *)
(* next_retry_at <= NOW().                                                 *)
DueRetries ==
    {n \in Rows : status[n] = "failed" /\ retryCount[n] < MaxRetries /\ retryIn[n] = 0}

(* Worker.Run and process up to the limiter: Dequeue, GetByID, the        *)
(* cancelled check (no cancel reaches this module) and                    *)
(* UpdateStatus(processing).                                               *)
Dequeue(w) ==
    /\ wpc[w] = "idle"
    /\ queue # <<>>
    /\ witem' = [witem EXCEPT ![w] = Head(queue)]
    /\ wrc' = [wrc EXCEPT ![w] = retryCount[Head(queue)]]
    /\ queue' = Tail(queue)
    /\ status' = [status EXCEPT ![Head(queue)] = "processing"]
    /\ wpc' = [wpc EXCEPT ![w] = "wait"]
    /\ UNCHANGED <<retryCount, retryIn, tokens, tickIn, tickPending, wnext,
                   deliveries, lost, errAgo, writers>>

(* ChannelLimiters.Wait returns once a token is taken; the request is     *)
(* then put on the wire to PROVIDER_BASE_URL.                              *)
LimiterWait(w) ==
    /\ wpc[w] = "wait"
    /\ tokens >= 1
    /\ tokens' = tokens - 1
    /\ wpc' = [wpc EXCEPT ![w] = "send"]
    /\ UNCHANGED <<status, retryCount, retryIn, queue, tickIn, tickPending,
                   witem, wrc, wnext, deliveries, lost, errAgo, writers>>

(* WebhookProvider.Send: 202 with a decodable body is a success; a        *)
(* transport error, another status or a decode error is a failure, and    *)
(* handleFailure computes nextRetry at once.  A timeout or a lost or      *)
(* undecodable reply can follow a request the provider accepted.           *)
SendFails(w, accepted) ==
    LET n == witem[w] IN
    /\ wnext' = [wnext EXCEPT ![w] = IF wrc[w] >= MaxRetries THEN Null
                                     ELSE BackoffDelay(wrc[w])]
    /\ errAgo' = [errAgo EXCEPT ![n] = 0]
    /\ deliveries' = IF accepted THEN [deliveries EXCEPT ![n] = Saturate(@)] ELSE deliveries
    /\ lost' = IF accepted THEN [lost EXCEPT ![n] = Saturate(@)] ELSE lost
    /\ wpc' = [wpc EXCEPT ![w] = "handlefailure"]

Send(w) ==
    /\ wpc[w] = "send"
    /\ \/ /\ deliveries' = [deliveries EXCEPT ![witem[w]] = Saturate(@)]
          /\ wpc' = [wpc EXCEPT ![w] = "marksent"]
          /\ UNCHANGED <<wnext, lost, errAgo>>
       \/ SendFails(w, FALSE)
       \/ ReplyMayBeLost /\ SendFails(w, TRUE)
    /\ UNCHANGED <<status, retryCount, retryIn, queue, tokens, tickIn, tickPending,
                   witem, wrc, writers>>

(* MarkSent leaves next_retry_at as it was.                                *)
MarkSent(w) ==
    /\ wpc[w] = "marksent"
    /\ status' = [status EXCEPT ![witem[w]] = "sent"]
    /\ wpc' = [wpc EXCEPT ![w] = "idle"]
    /\ witem' = [witem EXCEPT ![w] = Null]
    /\ UNCHANGED <<retryCount, retryIn, queue, tokens, tickIn, tickPending, wrc,
                   wnext, deliveries, lost, errAgo, writers>>

(* handleFailure: MarkFailed (next_retry_at = NULL) once the fetched copy *)
(* has used the budget, else ScheduleRetry(retry_count + 1, nextRetry).    *)
HandleFailure(w) ==
    LET n == witem[w] IN
    /\ wpc[w] = "handlefailure"
    /\ status' = [status EXCEPT ![n] = "failed"]
    /\ retryCount' = [retryCount EXCEPT ![n] = IF wrc[w] >= MaxRetries THEN @ ELSE wrc[w] + 1]
    /\ retryIn' = [retryIn EXCEPT ![n] = wnext[w]]
    /\ wpc' = [wpc EXCEPT ![w] = "idle"]
    /\ witem' = [witem EXCEPT ![w] = Null]
    /\ wnext' = [wnext EXCEPT ![w] = Null]
    /\ UNCHANGED <<queue, tokens, tickIn, tickPending, wrc,
                   deliveries, lost, errAgo, writers>>

(* RetryWorker.Run takes a buffered tick while the poller is idle and     *)
(* poll runs FindDueRetries: the due rows, in the order the query returns  *)
(* them, are the poller's work list.                                       *)
PollQuery ==
    /\ tickPending /\ pollRows = <<>> /\ pollWrite = Null
    /\ tickPending' = FALSE
    /\ pollRows' \in SetToSeqs(DueRetries)
    /\ UNCHANGED <<status, retryCount, retryIn, queue, tokens, tickIn, intakeWrite,
                   pollWrite, wpc, witem, wrc, wnext, deliveries, lost, errAgo>>

(* poll's loop body: Enqueue the next row; a full buffer skips it          *)
(* (continue), otherwise its UpdateStatus(queued) is still to come.        *)
PollEnqueue ==
    LET n == Head(pollRows) IN
    /\ pollRows # <<>> /\ pollWrite = Null
    /\ pollRows' = Tail(pollRows)
    /\ IF Len(queue) < Capacity
       THEN queue' = Append(queue, n) /\ pollWrite' = n
       ELSE UNCHANGED <<queue, pollWrite>>
    /\ UNCHANGED <<status, retryCount, retryIn, tokens, tickIn, tickPending, intakeWrite,
                   wpc, witem, wrc, wnext, deliveries, lost, errAgo>>

(* retry_worker.go:72: UpdateStatus(queued), a write that does not look   *)
(* at the row's current status.                                            *)
PollMarkQueued ==
    /\ pollWrite # Null
    /\ status' = [status EXCEPT ![pollWrite] = "queued"]
    /\ pollWrite' = Null
    /\ UNCHANGED <<retryCount, retryIn, queue, tokens, tickIn, tickPending, intakeWrite,
                   pollRows, wpc, witem, wrc, wnext, deliveries, lost, errAgo>>

(* NotificationService.enqueue after its Enqueue: UpdateStatus(queued),   *)
(* unconditional as well, in the request's goroutine.                      *)
IntakeMarkQueued(n) ==
    /\ n \in intakeWrite
    /\ status' = [status EXCEPT ![n] = "queued"]
    /\ intakeWrite' = intakeWrite \ {n}
    /\ UNCHANGED <<retryCount, retryIn, queue, tokens, tickIn, tickPending, pollRows,
                   pollWrite, wpc, witem, wrc, wnext, deliveries, lost, errAgo>>

(* One second passes: stored and local timestamps come one second closer, *)
(* the limiter refills up to its burst, and the ticker fires every        *)
(* RetryInterval seconds, dropping a tick while one is still buffered.     *)
Closer(t) == IF t = Null \/ t = 0 THEN t ELSE t - 1

Tick ==
    /\ retryIn' = [n \in Rows |-> Closer(retryIn[n])]
    /\ wnext' = [w \in Workers |-> Closer(wnext[w])]
    /\ tokens' = IF tokens + RatePerSec > Burst THEN Burst ELSE tokens + RatePerSec
    /\ tickIn' = IF tickIn = 1 THEN RetryInterval ELSE tickIn - 1
    /\ tickPending' = (tickPending \/ tickIn = 1)
    /\ errAgo' = [n \in Rows |-> IF errAgo[n] < MaxBackoff THEN errAgo[n] + 1 ELSE errAgo[n]]
    /\ UNCHANGED <<status, retryCount, queue, wpc, witem, wrc, deliveries, lost, writers>>

Worker(w) == Dequeue(w) \/ LimiterWait(w) \/ Send(w) \/ MarkSent(w) \/ HandleFailure(w)

Poller == PollQuery \/ PollEnqueue \/ PollMarkQueued

Next ==
    \/ \E w \in Workers : Worker(w)
    \/ Poller
    \/ \E n \in Rows : IntakeMarkQueued(n)
    \/ Tick

Spec == Init /\ [][Next]_vars

(* Runnable goroutines (workers, the retry worker, the create handlers)  *)
(* get scheduled, the ticker keeps firing and time passes.  The provider's *)
(* answers are left to chance.                                             *)
Fairness ==
    /\ \A w \in Workers : WF_vars(Worker(w))
    /\ WF_vars(Poller)
    /\ \A n \in Rows : WF_vars(IntakeMarkQueued(n))
    /\ WF_vars(Tick)

FairSpec == Spec /\ Fairness

-----------------------------------------------------------------------------
(* Spec 4.5: a row that failed with retries left is eventually taken by a *)
(* worker again, whatever the provider answers: the backoff countdown,    *)
(* the ticker that drops ticks while poll runs, the due-query and the     *)
(* shared limiter never hold it back for good.  It does not say the row   *)
(* then settles: a late unconditional UpdateStatus(queued) of the poller   *)
(* or of intake can overwrite the worker's later write and strand it.     *)
(* TLC finds even this violated: intake's UpdateStatus(queued) lands after *)
(* the first failure, the row is queued in no buffer and never polled.     *)
RetryOwed(n) == status[n] = "failed" /\ retryCount[n] < MaxRetries
DueRetryReachesWorker == \A n \in Rows : RetryOwed(n) ~> status[n] = "processing"

(* Spec 8.3: while a row waits for its k-th retry, the stored              *)
(* next_retry_at is the time of its k-th provider error plus B[k]: the     *)
(* entry handleFailure indexes by the fetched retry_count, before the      *)
(* increment ScheduleRetry stores.                                         *)
RetryAtFollowsBackoff ==
    \A n \in Rows :
        (status[n] = "failed" /\ retryIn[n] \notin {Null, 0})
            => retryIn[n] + errAgo[n] = Backoff[retryCount[n]]

(* The provider accepts a notification a second time only after the       *)
(* worker missed the reply to an accepted request (spec 1: exactly-once    *)
(* delivery is a non-goal): no due-query, late status write or settle      *)
(* step sends a row again on its own.                                      *)
DuplicatesOnlyAfterLostReply ==
    \A n \in Rows : deliveries[n] <= lost[n] + 1

=============================================================================
