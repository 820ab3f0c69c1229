--------------------------- MODULE DropOldestFifo ---------------------------
(***************************************************************************)
(* What internal/grpcclient/cache.go promises its callers: a first-in      *)
(* first-out queue of bounded length that makes room for a new entry by    *)
(* dropping the oldest one, and that is emptied in one step, in order.     *)
(* MetricCache implements it with a ring buffer; GrpcClient and the        *)
(* modules above it use this view of the cache.                            *)
(***************************************************************************)
EXTENDS Naturals, Sequences

CONSTANTS
    Metric,     \* the values that can be cached
    Capacity    \* the largest number of entries (CacheMaxSize)

VARIABLES
    q,          \* the entries, oldest first
    drained     \* what the last Drain returned

vars == <<q, drained>>

TypeOK ==
    /\ q \in Seq(Metric)
    /\ drained \in Seq(Metric)

(***************************************************************************)
(* The queue s after m was added to it: the oldest entry makes room.       *)
(***************************************************************************)
Push(s, m) ==
    IF Len(s) = Capacity THEN Append(Tail(s), m) ELSE Append(s, m)

Init ==
    /\ q = << >>
    /\ drained = << >>

Add(m) ==
    /\ q' = Push(q, m)
    /\ UNCHANGED drained

Drain ==
    /\ drained' = q
    /\ q' = << >>

Next == Drain \/ \E m \in Metric : Add(m)

Spec == Init /\ [][Next]_vars
=============================================================================
