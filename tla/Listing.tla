------------------------------ MODULE Listing ------------------------------
(***************************************************************************)
(* GET /api/v1/notifications: NotificationHandler.List with               *)
(* parseListFilter, and pgNotificationRepository.List with buildListWhere. *)
(* List runs two statements on the pool, each its own snapshot: a count   *)
(* of the matching rows for the total, then the page, ORDER BY created_at *)
(* DESC LIMIT $n OFFSET $m.  SQL leaves the order of rows with equal       *)
(* created_at to the executor, so each page statement may order such rows *)
(* differently.                                                            *)
(*                                                                         *)
(* A client walks the pages of one query string: page 1, 2, ... while      *)
(* page * limit < total.  Concurrently, INSERT transactions commit rows    *)
(* (a single Create, or all children of a CreateBatch, which share one     *)
(* created_at) and the dispatch path moves rows through their statuses.   *)
(***************************************************************************)
EXTENDS Naturals, Sequences, SequencesExt

CONSTANTS
    Rows,          \* notification ids
    Commits,       \* INSERT transactions: disjoint sets of rows committed together
    CreatedAt,     \* Rows -> Nat: created_at
    ChannelOf,     \* Rows -> Channels
    Queries,       \* query strings: [status, channel, from, to, limit]
    DefaultLimit,  \* the 20 of parseListFilter
    MaxLimit,      \* the 100 of parseListFilter
    RepoMayFail,   \* a statement may return an error
    NoParam,       \* model value: the query parameter is absent or empty
    Junk,          \* model value: a value strconv.Atoi or time.Parse rejects
    Absent,        \* model value: no committed row
    None           \* model value: no answer yet

Statuses == {"pending", "queued", "processing", "sent", "failed", "cancelled", "scheduled"}
Channels == {"sms", "email", "push"}

ASSUME /\ \A c \in Commits : c \subseteq Rows
       /\ CreatedAt \in [Rows -> Nat]
       /\ ChannelOf \in [Rows -> Channels]
       /\ DefaultLimit \in 1..MaxLimit

VARIABLES
    status,   \* row -> committed status, or Absent
    lpc,      \* the client: "idle", "count" or "page" (a request in flight), "done"
    query,    \* the query string of the walk
    pageNo,   \* the page requested
    total,    \* the total of the current request's count statement
    got,      \* rows received so far, page after page
    code,     \* HTTP status of the last response
    matched,  \* ghost: the rows matching the filter at the last page statement
    quiet     \* ghost: no row was committed or changed since the walk began

vars == <<status, lpc, query, pageNo, total, got, code, matched, quiet>>

TypeOK ==
    /\ status \in [Rows -> Statuses \cup {Absent}]
    /\ lpc \in {"idle", "count", "page", "done"}
    /\ query \in Queries \cup {None}
    /\ pageNo \in Nat \ {0}
    /\ total \in Nat
    /\ got \in Seq(Rows)
    /\ code \in {200, 500, None}
    /\ matched \subseteq Rows
    /\ quiet \in BOOLEAN

Init ==
    /\ status = [r \in Rows |-> Absent]
    /\ lpc = "idle"
    /\ query = None
    /\ pageNo = 1
    /\ total = 0
    /\ got = <<>>
    /\ code = None
    /\ matched = {}
    /\ quiet = TRUE

-----------------------------------------------------------------------------
(* parseListFilter: page and limit fall back to 1 and DefaultLimit when    *)
(* they do not parse or are out of range; status and channel are taken as  *)
(* given when non-empty; from and to are dropped when time.Parse fails.    *)
ParseTime(v) == IF v = Junk THEN NoParam ELSE v

ListFilter(q, page) ==
    [status  |-> q.status,
     channel |-> q.channel,
     from    |-> ParseTime(q.from),
     to      |-> ParseTime(q.to),
     page    |-> IF page > 0 THEN page ELSE 1,
     limit   |-> IF q.limit \notin {NoParam, Junk} /\ q.limit > 0 /\ q.limit <= MaxLimit
                 THEN q.limit ELSE DefaultLimit]

(* buildListWhere: one condition per filter field that is set, joined     *)
(* with AND.                                                               *)
Matches(r, f) ==
    /\ f.status = NoParam \/ status[r] = f.status
    /\ f.channel = NoParam \/ ChannelOf[r] = f.channel
    /\ f.from = NoParam \/ CreatedAt[r] >= f.from
    /\ f.to = NoParam \/ CreatedAt[r] <= f.to

Where(f) == {r \in Rows : status[r] # Absent /\ Matches(r, f)}

(* status and channel are enum columns: PostgreSQL rejects a parameter     *)
(* that is not a label of the type, and the statement fails.               *)
EnumCastFails(f) ==
    \/ f.status # NoParam /\ f.status \notin Statuses
    \/ f.channel # NoParam /\ f.channel \notin Channels

Offset(f) == (f.page - 1) * f.limit

(* ORDER BY created_at DESC: every order of the rows in which created_at   *)
(* does not increase; rows with equal created_at come in any order.        *)
NewestFirst(S) ==
    {o \in SetToSeqs(S) : \A i, j \in DOMAIN o : i < j => CreatedAt[o[i]] >= CreatedAt[o[j]]}

(* LIMIT limit OFFSET offset of an ordered result.                         *)
Slice(o, f) ==
    IF Offset(f) >= Len(o) THEN <<>>
    ELSE SubSeq(o, Offset(f) + 1,
                IF Offset(f) + f.limit < Len(o) THEN Offset(f) + f.limit ELSE Len(o))

-----------------------------------------------------------------------------
(* A write committed while a walk is under way.                           *)
Written == quiet' = (quiet /\ lpc \in {"idle", "done"})

(* An INSERT transaction commits: a Create's row, or every child of a      *)
(* CreateBatch with the created_at the service gave them all.              *)
Commit(c) ==
    /\ \A r \in c : status[r] = Absent
    /\ status' = [r \in Rows |-> IF r \in c THEN "pending" ELSE status[r]]
    /\ Written
    /\ UNCHANGED <<lpc, query, pageNo, total, got, code, matched>>

(* The dispatch path moves a row on: UpdateStatus(queued), then MarkSent. *)
Settle(r) ==
    /\ status[r] \in {"pending", "queued"}
    /\ status' = [status EXCEPT ![r] = IF @ = "pending" THEN "queued" ELSE "sent"]
    /\ Written
    /\ UNCHANGED <<lpc, query, pageNo, total, got, code, matched>>

(* The client sends its first request.                                     *)
StartWalk(q) ==
    /\ lpc = "idle"
    /\ lpc' = "count"
    /\ query' = q
    /\ pageNo' = 1
    /\ got' = <<>>
    /\ quiet' = TRUE
    /\ UNCHANGED <<status, total, code, matched>>

(* List, first statement: the count of the rows the WHERE clause selects. *)
(* An error makes the handler answer 500 and the client gives up.         *)
ListCount ==
    LET f == ListFilter(query, pageNo) IN
    /\ lpc = "count"
    /\ \/ /\ EnumCastFails(f) \/ RepoMayFail
          /\ code' = 500
          /\ lpc' = "done"
          /\ UNCHANGED total
       \/ /\ ~EnumCastFails(f)
          /\ total' = Cardinality(Where(f))
          /\ lpc' = "page"
          /\ UNCHANGED code
    /\ UNCHANGED <<status, query, pageNo, got, matched, quiet>>

(* List, second statement: the page, in one of the orders ORDER BY allows. *)
(* The handler answers 200 with the rows, the total and the page and      *)
(* limit it used; the client asks for the next page while                  *)
(* page * limit < total.                                                   *)
ListPage ==
    LET f == ListFilter(query, pageNo) IN
    /\ lpc = "page"
    /\ \/ /\ RepoMayFail
          /\ code' = 500
          /\ lpc' = "done"
          /\ UNCHANGED <<got, matched, pageNo>>
       \/ \E o \in NewestFirst(Where(f)) :
            /\ got' = got \o Slice(o, f)
            /\ matched' = Where(f)
            /\ code' = 200
            /\ IF f.page * f.limit < total
               THEN lpc' = "count" /\ pageNo' = pageNo + 1
               ELSE lpc' = "done" /\ UNCHANGED pageNo
    /\ UNCHANGED <<status, query, total, quiet>>

Next ==
    \/ \E c \in Commits : Commit(c)
    \/ \E r \in Rows : Settle(r)
    \/ \E q \in Queries : StartWalk(q)
    \/ ListCount
    \/ ListPage

Spec == Init /\ [][Next]_vars

-----------------------------------------------------------------------------
(* Spec 4.2: list is paginated and ordered by created_at descending.  A   *)
(* client that walks the pages of a query while nothing is written gets   *)
(* every matching row exactly once: the pages of the LIMIT/OFFSET          *)
(* statements neither overlap nor leave a gap.                             *)
PagesPartition ==
    (lpc = "done" /\ code = 200 /\ quiet) => IsInjective(got) /\ ToSet(got) = matched

=============================================================================
