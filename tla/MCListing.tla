---------------------------- MODULE MCListing ----------------------------
(* Small instances of Listing for TLC: a batch of two children sharing    *)
(* one created_at, and a single notification created later; one page     *)
(* holds one row.                                                          *)
EXTENDS Listing

CONSTANTS x1, x2, x3

MCRows      == {x1, x2, x3}
MCCommits   == {{x1, x2}, {x3}}
MCCreatedAt == (x1 :> 1) @@ (x2 :> 1) @@ (x3 :> 2)
MCChannelOf == (x1 :> "sms") @@ (x2 :> "sms") @@ (x3 :> "email")
\* ?limit=1 with no filter, and ?status=pending&limit=1
MCQueries ==
    {[status |-> NoParam, channel |-> NoParam, from |-> NoParam, to |-> NoParam, limit |-> 1],
     [status |-> "pending", channel |-> NoParam, from |-> NoParam, to |-> NoParam, limit |-> 1]}
=============================================================================
