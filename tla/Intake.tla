------------------------------- MODULE Intake -------------------------------
(***************************************************************************)
(* The intake path of the notification service: the HTTP handlers for     *)
(* POST /notifications, POST /notifications/batch and GET /batches/{id}   *)
(* (internal/api/handler), NotificationService.Create, CreateBatch and    *)
(* enqueue (src/unnamed/part_007), and the two NotificationRepository     *)
(* implementations they run against: PostgreSQL (pgNotificationRepository *)
(* in mock_notification_repo.go, lines 187-515) and the in-memory mock    *)
(* the service tests use (lines 1-186).  The repository in use is chosen  *)
(* in Init.                                                                *)
(*                                                                         *)
(* Every request is a goroutine of the HTTP server; each repository call  *)
(* is one atomic step (one SQL statement, or one critical section of the  *)
(* mock's mutex), so requests interleave between calls.  The batch        *)
(* transaction is a sequence of statements of which only the commit is    *)
(* visible to others.  A worker takes rows off the queue and settles them *)
(* (the interleavings inside Worker.process are those of module Dispatch);*)
(* after a MarkSent it starts the goroutine that refreshes the batch      *)
(* counters with one UPDATE, which reads its snapshot when it starts.     *)
(***************************************************************************)
EXTENDS Naturals, Sequences, FiniteSets

CONSTANTS
    CreateReqs,   \* POST /notifications requests; each creates its own row
    KeyOf,        \* CreateReqs -> Keys \cup {NoKey}: the X-Idempotency-Key
    BatchReqs,    \* POST /notifications/batch requests
    BatchSize,    \* BatchReqs -> Nat: len(requests)
    BatchLimit,   \* the 1000 of CreateBatch
    Scheduled,    \* batch children whose request has scheduled_at set
    QueueCap,     \* buffer of the channel the rows' priority maps to
    RepoMayFail,  \* a repository call may return an error
    Stores,       \* repositories the server may be wired to
    Reads,        \* batches a GET /batches/{id} is issued for
    NoKey,        \* model value: no X-Idempotency-Key header
    Absent,       \* model value: no committed row
    None          \* model value: no answer, row or error yet

(* The children built for a batch that passes the size checks.            *)
ChildrenOf(b) ==
    IF BatchSize[b] \in 1..BatchLimit THEN {<<b, i>> : i \in 1..BatchSize[b]} ELSE {}
Children == UNION {ChildrenOf(b) : b \in BatchReqs}
Rows     == CreateReqs \cup Children
BatchOf(n) == n[1]

Statuses == {"pending", "scheduled", "queued", "processing", "sent", "failed"}
PendingStatuses == {"pending", "queued", "processing", "scheduled"}
Errors == {None, "NotFound", "Conflict", "BatchEmpty", "BatchTooLarge",
           "QueueFull", "Internal"}
Codes  == {200, 201, 404, 409, 422, 500, 503}
Counters == [total : Nat, pending : Nat, sent : Nat, failed : Nat, cancelled : Nat]

VARIABLES
    store,     \* "pg" | "mock": the NotificationRepository in use
    status,    \* row -> committed status, or Absent
    batchRow,  \* batch -> committed counters row, or Absent
    queue,     \* the priority channel the rows go to
    cpc, crow, cres,      \* create request: step, row answered, HTTP code
    bpc, bidx, bres,      \* batch request: step, loop index, HTTP code
    gpc, gtotal, gseen, gres, \* GET /batches/{id}, one per batch
    wpc, witem,           \* the worker
    txn,                  \* batch -> child rows inserted by its open transaction
    rpc, rsnap            \* counter-refresh goroutine started per sent row

vars == <<store, status, batchRow, queue, cpc, crow, cres, bpc, bidx, bres, txn,
          gpc, gtotal, gseen, gres, wpc, witem, rpc, rsnap>>

TypeOK ==
    /\ store \in Stores
    /\ status \in [Rows -> Statuses \cup {Absent}]
    /\ batchRow \in [BatchReqs -> Counters \cup {Absent}]
    /\ queue \in Seq(Rows) /\ Len(queue) <= QueueCap
    /\ cpc \in [CreateReqs -> {"lookup", "insert", "enqueue", "mark", "done"}]
    /\ crow \in [CreateReqs -> Rows \cup {None}]
    /\ cres \in [CreateReqs -> Codes \cup {None}]
    /\ bpc \in [BatchReqs -> {"validate", "begin", "insertBatch", "insertChild",
                              "commit", "enqueue", "mark", "done"}]
    /\ bidx \in [BatchReqs -> Nat]
    /\ bres \in [BatchReqs -> Codes \cup {None}]
    /\ txn \in [BatchReqs -> SUBSET Children]
    /\ gpc \in [BatchReqs -> {"readBatch", "readChildren", "done"}]
    /\ gtotal \in [BatchReqs -> Nat]
    /\ gseen \in [BatchReqs -> Nat]
    /\ gres \in [BatchReqs -> Codes \cup {None}]
    /\ wpc \in {"idle", "busy", "sending"}
    /\ witem \in Rows \cup {None}
    /\ rpc \in [Rows -> {"none", "read", "write", "done"}]
    /\ rsnap \in [Rows -> Counters \cup {None}]

Init ==
    /\ store \in Stores
    /\ status = [n \in Rows |-> Absent]
    /\ batchRow = [b \in BatchReqs |-> Absent]
    /\ queue = <<>>
    /\ cpc = [r \in CreateReqs |-> "lookup"]
    /\ crow = [r \in CreateReqs |-> None]
    /\ cres = [r \in CreateReqs |-> None]
    /\ bpc = [b \in BatchReqs |-> "validate"]
    /\ bidx = [b \in BatchReqs |-> 0]
    /\ bres = [b \in BatchReqs |-> None]
    /\ txn = [b \in BatchReqs |-> {}]
    /\ gpc = [b \in BatchReqs |-> "readBatch"]
    /\ gtotal = [b \in BatchReqs |-> 0]
    /\ gseen = [b \in BatchReqs |-> 0]
    /\ gres = [b \in BatchReqs |-> None]
    /\ wpc = "idle"
    /\ witem = None
    /\ rpc = [n \in Rows |-> "none"]
    /\ rsnap = [n \in Rows |-> None]

-----------------------------------------------------------------------------
(* Repository results.  A call returns the set of outcomes it may have;  *)
(* "Internal" is any error that is not a domain sentinel.                *)

Persisted(n) == status[n] # Absent
KeyHolders(k) == {n \in CreateReqs : Persisted(n) /\ KeyOf[n] = k}
KeyTaken(r) == KeyOf[r] # NoKey /\ KeyHolders(KeyOf[r]) # {}
MayFail == IF RepoMayFail THEN {"Internal"} ELSE {}

(* Mock: the GetByIdempotencyKeyErr override, else a scan under RLock.   *)
MockGetByIdempotencyKey(k) ==
    MayFail \cup (IF KeyHolders(k) = {} THEN {"NotFound"} ELSE KeyHolders(k))

(* pg: SELECT ... WHERE idempotency_key = $1; ErrNoRows is ErrNotFound.  *)
PgGetByIdempotencyKey(k) ==
    MayFail \cup (IF KeyHolders(k) = {} THEN {"NotFound"} ELSE KeyHolders(k))

(* GetByID: the row's status, ErrNotFound, or (the mock's GetByIDErr    *)
(* override, a pg error) a failure.                                      *)
MockGetByID(n) == MayFail \cup (IF Persisted(n) THEN {status[n]} ELSE {"NotFound"})
PgGetByID(n)   == MayFail \cup (IF Persisted(n) THEN {status[n]} ELSE {"NotFound"})

(* Mock: the CreateErr override, else under Lock a scan for the key.     *)
MockCreate(r) ==
    MayFail \cup (IF KeyTaken(r) THEN {"Conflict"} ELSE {None})

(* Mutant: the table without the UNIQUE constraint on idempotency_key.   *)
PgCreateNoUnique(r) == MayFail \cup {None}

(* Mutant: every insert error taken for a key conflict (the check of     *)
(* err.Error() for "idempotency_key" dropped).                           *)
PgCreateAnyErrorConflict(r) ==
    (IF RepoMayFail THEN {"Conflict"} ELSE {})
        \cup (IF KeyTaken(r) THEN {"Conflict"} ELSE {None})

(* pg: one INSERT.  The UNIQUE violation's text names idempotency_key    *)
(* and becomes ErrConflict; any other error is wrapped (500).            *)
PgCreate(r) ==
    MayFail \cup (IF KeyTaken(r) THEN {"Conflict"} ELSE {None})

(* An UPDATE ... WHERE id = $1 outcome: whether it returned nil, and the *)
(* statuses after it.                                                     *)
Wrote(n, s) == [ok |-> TRUE, st |-> [status EXCEPT ![n] = s]]
NoWrite(ok) == [ok |-> ok, st |-> status]

(* Mock: under Lock, a no-op on a missing id; never fails.               *)
MockUpdateStatus(n, s) == {IF Persisted(n) THEN Wrote(n, s) ELSE NoWrite(TRUE)}
MockMarkSent(n)        == {IF Persisted(n) THEN Wrote(n, "sent") ELSE NoWrite(TRUE)}
MockScheduleRetry(n)   == {IF Persisted(n) THEN Wrote(n, "failed") ELSE NoWrite(TRUE)}

(* pg: one blind UPDATE each; it may fail and then changes nothing.       *)
PgFails == IF RepoMayFail THEN {NoWrite(FALSE)} ELSE {}
PgUpdateStatus(n, s) == {Wrote(n, s)} \cup PgFails
PgMarkSent(n)        == {Wrote(n, "sent")} \cup PgFails
PgScheduleRetry(n)   == {Wrote(n, "failed")} \cup PgFails

(* The NotificationRepository interface: the call goes to the store the *)
(* server was wired to.                                                  *)
RepoGetByIdempotencyKey(k) ==
    IF store = "pg" THEN PgGetByIdempotencyKey(k) ELSE MockGetByIdempotencyKey(k)
RepoGetByID(n) == IF store = "pg" THEN PgGetByID(n) ELSE MockGetByID(n)
RepoCreate(r) == IF store = "pg" THEN PgCreate(r) ELSE MockCreate(r)
RepoUpdateStatus(n, s) ==
    IF store = "pg" THEN PgUpdateStatus(n, s) ELSE MockUpdateStatus(n, s)
RepoMarkSent(n) == IF store = "pg" THEN PgMarkSent(n) ELSE MockMarkSent(n)
RepoScheduleRetry(n) ==
    IF store = "pg" THEN PgScheduleRetry(n) ELSE MockScheduleRetry(n)

(* The batch row CreateBatch builds: Total = Pending = len(notifications).*)
NewBatch(b) ==
    [total |-> BatchSize[b], pending |-> BatchSize[b], sent |-> 0, failed |-> 0,
     cancelled |-> 0]

(* buildNotification's initial status.                                     *)
InitialStatus(n) == IF n \in Scheduled THEN "scheduled" ELSE "pending"

(* UpdateBatchCounts' recount of a batch's children (pg).                 *)
Recount(b, st) ==
    LET Count(S) == Cardinality({n \in ChildrenOf(b) : st[n] \in S})
    IN  [total |-> BatchSize[b], pending |-> Count(PendingStatuses),
         sent |-> Count({"sent"}), failed |-> Count({"failed"}),
         cancelled |-> Count({"cancelled"})]

(* mapError: domain sentinel errors to HTTP status codes.                 *)
MapError(e) ==
    CASE e = "NotFound"                                  -> 404
      [] e = "Conflict"                                  -> 409
      [] e \in {"BatchEmpty", "BatchTooLarge"}           -> 422
      [] e = "QueueFull"                                 -> 503
      [] OTHER                                           -> 500

(* NotificationHandler.Create's answer: mapError, else 201, or 200 when  *)
(* the service returned an existing row.                                  *)
CreateAnswer(e, duplicate) ==
    IF e # None THEN MapError(e) ELSE IF duplicate THEN 200 ELSE 201

(* BatchHandler.CreateBatch and GetBatch: mapError, else 201 / 200.       *)
CreateBatchAnswer(e) == IF e # None THEN MapError(e) ELSE 201
GetBatchAnswer(e)    == IF e # None THEN MapError(e) ELSE 200
-----------------------------------------------------------------------------
(* POST /notifications: NotificationHandler.Create and                    *)
(* NotificationService.Create.  The request body is valid.                *)

Full == Len(queue) >= QueueCap

(* The handler writes its answer and the request goroutine ends.          *)
CreateDone(r, e, row, duplicate) ==
    /\ cpc' = [cpc EXCEPT ![r] = "done"]
    /\ crow' = [crow EXCEPT ![r] = row]
    /\ cres' = [cres EXCEPT ![r] = CreateAnswer(e, duplicate)]

BatchUnchanged  == UNCHANGED <<batchRow, bpc, bidx, bres, txn, gpc, gtotal, gseen, gres>>
OthersUnchanged == UNCHANGED <<store, wpc, witem, rpc, rsnap>>

(* The idempotency check: no key skips it; an error other than           *)
(* ErrNotFound is returned; an existing row is answered as a duplicate.  *)
CreateLookup(r) ==
    /\ cpc[r] = "lookup"
    /\ \/ /\ KeyOf[r] = NoKey
          /\ cpc' = [cpc EXCEPT ![r] = "insert"]
          /\ UNCHANGED <<crow, cres>>
       \/ /\ KeyOf[r] # NoKey
          /\ \E o \in RepoGetByIdempotencyKey(KeyOf[r]) :
               \/ /\ o = "NotFound"
                  /\ cpc' = [cpc EXCEPT ![r] = "insert"]
                  /\ UNCHANGED <<crow, cres>>
               \/ /\ o = "Internal"
                  /\ CreateDone(r, o, None, FALSE)
               \/ /\ o \notin {"NotFound", "Internal"}
                  /\ CreateDone(r, None, o, TRUE)
    /\ UNCHANGED <<status, queue>> /\ BatchUnchanged /\ OthersUnchanged

(* repo.Create of the row buildNotification made; an error is returned.  *)
CreateInsert(r) ==
    /\ cpc[r] = "insert"
    /\ \E e \in RepoCreate(r) :
         \/ /\ e = None
            /\ status' = [status EXCEPT ![r] = "pending"]
            /\ cpc' = [cpc EXCEPT ![r] = "enqueue"]
            /\ UNCHANGED <<crow, cres>>
         \/ /\ e # None
            /\ CreateDone(r, e, None, FALSE)
            /\ UNCHANGED status
    /\ UNCHANGED queue /\ BatchUnchanged /\ OthersUnchanged

(* service.enqueue: ErrQueueFull is logged and swallowed, the row stays   *)
(* pending and the handler still answers 201.                             *)
CreateEnqueue(r) ==
    /\ cpc[r] = "enqueue"
    /\ \/ /\ Full
          /\ CreateDone(r, None, r, FALSE)
          /\ UNCHANGED queue
       \/ /\ ~Full
          /\ queue' = Append(queue, r)
          /\ cpc' = [cpc EXCEPT ![r] = "mark"]
          /\ UNCHANGED <<crow, cres>>
    /\ UNCHANGED status /\ BatchUnchanged /\ OthersUnchanged

(* The blind UpdateStatus(queued); its error is only logged.              *)
CreateMark(r) ==
    /\ cpc[r] = "mark"
    /\ \E o \in RepoUpdateStatus(r, "queued") : status' = o.st
    /\ CreateDone(r, None, r, FALSE)
    /\ UNCHANGED queue /\ BatchUnchanged /\ OthersUnchanged

CreateStep(r) ==
    CreateLookup(r) \/ CreateInsert(r) \/ CreateEnqueue(r) \/ CreateMark(r)
-----------------------------------------------------------------------------
(* POST /notifications/batch: BatchHandler.CreateBatch and               *)
(* NotificationService.CreateBatch.  The items are valid.                 *)

CreateUnchanged == UNCHANGED <<cpc, crow, cres>>
ReadUnchanged   == UNCHANGED <<gpc, gtotal, gseen, gres>>

BatchDone(b, e) ==
    /\ bpc' = [bpc EXCEPT ![b] = "done"]
    /\ bres' = [bres EXCEPT ![b] = CreateBatchAnswer(e)]

(* The size checks; then repo.CreateBatch.                                *)
BatchValidate(b) ==
    /\ bpc[b] = "validate"
    /\ \/ /\ BatchSize[b] = 0
          /\ BatchDone(b, "BatchEmpty")
       \/ /\ BatchSize[b] > BatchLimit
          /\ BatchDone(b, "BatchTooLarge")
       \/ /\ BatchSize[b] \in 1..BatchLimit
          /\ bpc' = [bpc EXCEPT ![b] = "begin"]
          /\ UNCHANGED bres
    /\ UNCHANGED <<status, batchRow, queue, bidx, txn>>
    /\ CreateUnchanged /\ ReadUnchanged /\ OthersUnchanged

(* The open transaction has failed: the deferred Rollback discards it and *)
(* the error is returned.                                                  *)
TxAborts(b) ==
    /\ RepoMayFail
    /\ BatchDone(b, "Internal")
    /\ txn' = [txn EXCEPT ![b] = {}]
    /\ UNCHANGED bidx

(* Mock CreateBatch: one critical section; it never fails.                *)
MockCreateBatch(b) ==
    /\ store = "mock"
    /\ bpc[b] = "begin"
    /\ batchRow' = [batchRow EXCEPT ![b] = NewBatch(b)]
    /\ status' = [n \in Rows |-> IF n \in ChildrenOf(b) THEN InitialStatus(n) ELSE status[n]]
    /\ bpc' = [bpc EXCEPT ![b] = "enqueue"]
    /\ bidx' = [bidx EXCEPT ![b] = 1]
    /\ UNCHANGED <<queue, bres, txn>> /\ CreateUnchanged /\ ReadUnchanged /\ OthersUnchanged

(* pg: pool.Begin.                                                         *)
PgBegin(b) ==
    /\ store = "pg"
    /\ bpc[b] = "begin"
    /\ \/ TxAborts(b)
       \/ /\ bpc' = [bpc EXCEPT ![b] = "insertBatch"]
          /\ UNCHANGED <<bres, bidx, txn>>
    /\ UNCHANGED <<status, batchRow, queue>> /\ CreateUnchanged /\ ReadUnchanged /\ OthersUnchanged

(* pg: INSERT INTO batches inside the transaction.                        *)
PgInsertBatch(b) ==
    /\ bpc[b] = "insertBatch"
    /\ \/ TxAborts(b)
       \/ /\ bpc' = [bpc EXCEPT ![b] = "insertChild"]
          /\ bidx' = [bidx EXCEPT ![b] = 1]
          /\ UNCHANGED <<bres, txn>>
    /\ UNCHANGED <<status, batchRow, queue>> /\ CreateUnchanged /\ ReadUnchanged /\ OthersUnchanged

(* The loop's next iteration, or the commit after the last child.         *)
NextChild(b) ==
    IF bidx[b] = BatchSize[b]
       THEN bpc' = [bpc EXCEPT ![b] = "commit"] /\ UNCHANGED bidx
       ELSE bidx' = [bidx EXCEPT ![b] = @ + 1] /\ UNCHANGED bpc

(* Mutant: a failed child INSERT logged and skipped instead of returned.  *)
PgInsertChildSkipOnError(b) ==
    /\ bpc[b] = "insertChild"
    /\ \/ /\ txn' = [txn EXCEPT ![b] = @ \cup {<<b, bidx[b]>>}]
       \/ /\ RepoMayFail
          /\ UNCHANGED txn
    /\ NextChild(b)
    /\ UNCHANGED <<status, batchRow, queue, bres>> /\ CreateUnchanged /\ ReadUnchanged /\ OthersUnchanged

(* pg: one INSERT INTO notifications per child inside the transaction.    *)
PgInsertChild(b) ==
    /\ bpc[b] = "insertChild"
    /\ \/ TxAborts(b)
       \/ /\ txn' = [txn EXCEPT ![b] = @ \cup {<<b, bidx[b]>>}]
          /\ NextChild(b)
          /\ UNCHANGED bres
    /\ UNCHANGED <<status, batchRow, queue>> /\ CreateUnchanged /\ ReadUnchanged /\ OthersUnchanged

(* pg: tx.Commit makes the batch row and the inserted children visible    *)
(* at once.                                                                *)
PgCommit(b) ==
    /\ bpc[b] = "commit"
    /\ \/ /\ TxAborts(b)
          /\ UNCHANGED <<status, batchRow>>
       \/ /\ batchRow' = [batchRow EXCEPT ![b] = NewBatch(b)]
          /\ status' = [n \in Rows |-> IF n \in txn[b] THEN InitialStatus(n) ELSE status[n]]
          /\ txn' = [txn EXCEPT ![b] = {}]
          /\ bpc' = [bpc EXCEPT ![b] = "enqueue"]
          /\ bidx' = [bidx EXCEPT ![b] = 1]
          /\ UNCHANGED bres
    /\ UNCHANGED queue /\ CreateUnchanged /\ ReadUnchanged /\ OthersUnchanged

(* The loop over the children: enqueue each one without scheduled_at.     *)
(* enqueue returns early for a scheduled row and on ErrQueueFull.          *)
BatchEnqueue(b) ==
    LET n == <<b, bidx[b]>> IN
    /\ bpc[b] = "enqueue"
    /\ \/ /\ bidx[b] > BatchSize[b]
          /\ BatchDone(b, None)
          /\ UNCHANGED <<bidx, queue>>
       \/ /\ bidx[b] <= BatchSize[b]
          /\ \/ /\ n \in Scheduled \/ Full
                /\ bidx' = [bidx EXCEPT ![b] = @ + 1]
                /\ UNCHANGED <<bpc, queue>>
             \/ /\ n \notin Scheduled /\ ~Full
                /\ queue' = Append(queue, n)
                /\ bpc' = [bpc EXCEPT ![b] = "mark"]
                /\ UNCHANGED bidx
          /\ UNCHANGED bres
    /\ UNCHANGED <<status, batchRow, txn>> /\ CreateUnchanged /\ ReadUnchanged /\ OthersUnchanged

(* enqueue's blind UpdateStatus(queued) for the child just enqueued.      *)
BatchMark(b) ==
    /\ bpc[b] = "mark"
    /\ \E o \in RepoUpdateStatus(<<b, bidx[b]>>, "queued") : status' = o.st
    /\ bpc' = [bpc EXCEPT ![b] = "enqueue"]
    /\ bidx' = [bidx EXCEPT ![b] = @ + 1]
    /\ UNCHANGED <<batchRow, queue, bres, txn>> /\ CreateUnchanged /\ ReadUnchanged /\ OthersUnchanged

BatchStep(b) ==
    \/ BatchValidate(b) \/ MockCreateBatch(b) \/ PgBegin(b) \/ PgInsertBatch(b)
    \/ PgInsertChild(b) \/ PgCommit(b) \/ BatchEnqueue(b) \/ BatchMark(b)
-----------------------------------------------------------------------------
(* GET /batches/{id}: BatchHandler.GetBatch over repo.GetBatch.           *)

IntakeUnchanged == UNCHANGED <<status, batchRow, queue, cpc, crow, cres, bpc, bidx, bres, txn>>

GetDone(b, e) ==
    /\ gpc' = [gpc EXCEPT ![b] = "done"]
    /\ gres' = [gres EXCEPT ![b] = GetBatchAnswer(e)]

StoredChildren(b) == Cardinality({n \in ChildrenOf(b) : Persisted(n)})

(* Mock GetBatch: the batch and its children under one RLock.             *)
MockGetBatch(b) ==
    /\ store = "mock"
    /\ gpc[b] = "readBatch"
    /\ \/ /\ batchRow[b] = Absent
          /\ GetDone(b, "NotFound")
          /\ UNCHANGED <<gtotal, gseen>>
       \/ /\ batchRow[b] # Absent
          /\ gtotal' = [gtotal EXCEPT ![b] = batchRow[b].total]
          /\ gseen' = [gseen EXCEPT ![b] = StoredChildren(b)]
          /\ GetDone(b, None)
    /\ IntakeUnchanged /\ OthersUnchanged

(* pg GetBatch, first query: the batches row (ErrNoRows is ErrNotFound).  *)
PgGetBatchRow(b) ==
    /\ store = "pg"
    /\ gpc[b] = "readBatch"
    /\ \/ /\ RepoMayFail
          /\ GetDone(b, "Internal")
          /\ UNCHANGED gtotal
       \/ /\ batchRow[b] = Absent
          /\ GetDone(b, "NotFound")
          /\ UNCHANGED gtotal
       \/ /\ batchRow[b] # Absent
          /\ gtotal' = [gtotal EXCEPT ![b] = batchRow[b].total]
          /\ gpc' = [gpc EXCEPT ![b] = "readChildren"]
          /\ UNCHANGED gres
    /\ UNCHANGED gseen /\ IntakeUnchanged /\ OthersUnchanged

(* pg GetBatch, second query, outside any transaction: the children.      *)
PgGetBatchChildren(b) ==
    /\ gpc[b] = "readChildren"
    /\ \/ /\ RepoMayFail
          /\ GetDone(b, "Internal")
          /\ UNCHANGED gseen
       \/ /\ gseen' = [gseen EXCEPT ![b] = StoredChildren(b)]
          /\ GetDone(b, None)
    /\ UNCHANGED gtotal /\ IntakeUnchanged /\ OthersUnchanged

GetBatch(b) == MockGetBatch(b) \/ PgGetBatchRow(b) \/ PgGetBatchChildren(b)

-----------------------------------------------------------------------------
(* The worker (Worker.Run and process) and the counter refresh.           *)

WorkerUnchanged == UNCHANGED <<batchRow, cpc, crow, cres, bpc, bidx, bres, txn,
                               gpc, gtotal, gseen, gres, store>>

(* Dequeue.                                                                *)
WorkerTake ==
    /\ wpc = "idle"
    /\ queue # <<>>
    /\ witem' = Head(queue)
    /\ queue' = Tail(queue)
    /\ wpc' = "busy"
    /\ UNCHANGED <<status, rpc, rsnap>> /\ WorkerUnchanged

(* GetByID, then the blind UpdateStatus(processing); an error ends       *)
(* process.  (No row of this module is ever cancelled.)                   *)
WorkerFetch ==
    /\ wpc = "busy"
    /\ \E o \in RepoGetByID(witem) :
         \/ /\ o \in {"Internal", "NotFound"}
            /\ wpc' = "idle" /\ witem' = None
            /\ UNCHANGED status
         \/ /\ o \in Statuses
            /\ \E u \in RepoUpdateStatus(witem, "processing") :
                 /\ status' = u.st
                 /\ wpc' = IF u.ok THEN "sending" ELSE "idle"
                 /\ witem' = IF u.ok THEN witem ELSE None
    /\ UNCHANGED <<queue, rpc, rsnap>> /\ WorkerUnchanged

(* The provider call.  On success MarkSent, and if it returned nil and   *)
(* the row belongs to a batch, `go UpdateBatchCounts`.  On failure        *)
(* handleFailure's ScheduleRetry (retry_count 0 < max_retries 3); no     *)
(* refresh is started.                                                     *)
WorkerSend ==
    /\ wpc = "sending"
    /\ \/ \E o \in RepoMarkSent(witem) :
            /\ status' = o.st
            /\ rpc' = IF o.ok /\ witem \in Children
                         THEN [rpc EXCEPT ![witem] = "read"] ELSE rpc
       \/ \E o \in RepoScheduleRetry(witem) :
            /\ status' = o.st
            /\ UNCHANGED rpc
    /\ wpc' = "idle"
    /\ witem' = None
    /\ UNCHANGED <<queue, rsnap>> /\ WorkerUnchanged

WorkerStep == WorkerTake \/ WorkerFetch \/ WorkerSend

RefreshUnchanged == UNCHANGED <<store, status, queue, cpc, crow, cres, bpc, bidx,
                                bres, txn, gpc, gtotal, gseen, gres, wpc, witem>>

(* Mock UpdateBatchCounts: returns nil and does nothing.                  *)
MockUpdateBatchCounts(n) ==
    /\ store = "mock"
    /\ rpc[n] = "read"
    /\ rpc' = [rpc EXCEPT ![n] = "done"]
    /\ UNCHANGED <<batchRow, rsnap>> /\ RefreshUnchanged

(* pg UpdateBatchCounts: the UPDATE's subqueries count the children in   *)
(* the snapshot taken when the statement starts ...                      *)
PgRefreshRead(n) ==
    /\ store = "pg"
    /\ rpc[n] = "read"
    /\ \/ /\ RepoMayFail
          /\ rpc' = [rpc EXCEPT ![n] = "done"]
          /\ UNCHANGED rsnap
       \/ /\ rsnap' = [rsnap EXCEPT ![n] = Recount(BatchOf(n), status)]
          /\ rpc' = [rpc EXCEPT ![n] = "write"]
    /\ UNCHANGED batchRow /\ RefreshUnchanged

(* ... and the row is written with those counts, after any concurrent    *)
(* UPDATE of the same batch row has committed.                            *)
PgRefreshWrite(n) ==
    /\ rpc[n] = "write"
    /\ batchRow' = [batchRow EXCEPT ![BatchOf(n)] = rsnap[n]]
    /\ rpc' = [rpc EXCEPT ![n] = "done"]
    /\ UNCHANGED rsnap /\ RefreshUnchanged

Refresh(n) == MockUpdateBatchCounts(n) \/ PgRefreshRead(n) \/ PgRefreshWrite(n)

-----------------------------------------------------------------------------
Next ==
    \/ \E r \in CreateReqs : CreateStep(r)
    \/ \E b \in BatchReqs : BatchStep(b)
    \/ \E b \in Reads : GetBatch(b)
    \/ WorkerStep
    \/ \E n \in Children : Refresh(n)

Spec == Init /\ [][Next]_vars

(* Every request goroutine, the worker and every refresh goroutine is    *)
(* scheduled whenever it can move.                                        *)
FairSpec ==
    /\ Spec
    /\ \A r \in CreateReqs : WF_vars(CreateStep(r))
    /\ \A b \in BatchReqs : WF_vars(BatchStep(b))
    /\ \A b \in Reads : WF_vars(GetBatch(b))
    /\ WF_vars(WorkerStep)
    /\ \A n \in Children : WF_vars(Refresh(n))
-----------------------------------------------------------------------------
(* Spec 3 and 8.2: however concurrent POSTs with one X-Idempotency-Key    *)
(* interleave between the service's lookup and its insert, at most one    *)
(* row ever holds the key.                                                 *)
OneRowPerKey ==
    \A k \in {KeyOf[r] : r \in CreateReqs} \ {NoKey} : Cardinality(KeyHolders(k)) <= 1

(* Spec 8.2 and 4.7: a 200 or 201 to a POST with a key names a stored    *)
(* row holding that key, and every such answer for one key names the     *)
(* same row; a 409 is given only when another request's row holds the    *)
(* key (the race-safe fallback of 4.7), never for another insert error.  *)
IdempotentAnswers ==
    \A r \in CreateReqs : KeyOf[r] # NoKey =>
        /\ cres[r] \in {200, 201} => crow[r] \in KeyHolders(KeyOf[r])
        /\ cres[r] = 409 => KeyHolders(KeyOf[r]) \ {r} # {}
        /\ \A r2 \in CreateReqs :
              (KeyOf[r2] = KeyOf[r] /\ {cres[r], cres[r2]} \subseteq {200, 201})
                  => crow[r2] = crow[r]

(* Spec 8.5: a batch is stored all or nothing.  Its row exists exactly   *)
(* when all its children do, a 201 means it is stored, and a GET that     *)
(* answers 200 lists as many children as the batch row's total, even     *)
(* though its two queries run outside a transaction.                      *)
BatchAllOrNothing ==
    \A b \in BatchReqs :
        /\ batchRow[b] # Absent <=> \E n \in ChildrenOf(b) : Persisted(n)
        /\ batchRow[b] # Absent => \A n \in ChildrenOf(b) : Persisted(n)
        /\ bres[b] = 201 => batchRow[b] # Absent
        /\ gres[b] = 200 => gseen[b] = gtotal[b]

(* Spec 4.5 and 5: batch counters are eventually consistent; a drift is  *)
(* healed by the next refresh.  Once the system is quiet, the stored     *)
(* counters equal the recount of the children.  The worker refreshes     *)
(* them only after a MarkSent.                                            *)
BatchCountersConverge ==
    \A b \in BatchReqs :
        <>[](batchRow[b] = Absent \/ batchRow[b] = Recount(b, status))
=============================================================================
