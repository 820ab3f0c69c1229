---------------------------- MODULE MetricCache ----------------------------
(***************************************************************************)
(* The ring buffer of internal/grpcclient/cache.go, slot by slot.  Every   *)
(* method holds c.mu from its first to its last line, so each one is an    *)
(* atomic step.                                                            *)
(***************************************************************************)
EXTENDS Integers, Sequences

CONSTANTS
    Metric,     \* the metrics that can be cached
    maxSize,    \* the capacity given to NewMetricCache
    Nil         \* the content of a free slot

ASSUME SizeAssumption == maxSize \in Nat \ {0}
ASSUME NilAssumption == Nil \notin Metric

VARIABLES
    buf,        \* the slots, indexed as in the code from 0
    head,       \* next write position
    tail,       \* next read position
    count,      \* number of entries
    result      \* what the last Drain returned

vars == <<buf, head, tail, count, result>>

Slot == 0 .. maxSize - 1

Advance(i) == (i + 1) % maxSize

\* The slot of the i-th entry (from 0), counted from the oldest.
Index(i) == (tail + i) % maxSize

TypeOK ==
    /\ buf \in [Slot -> Metric \cup {Nil}]
    /\ head \in Slot
    /\ tail \in Slot
    /\ count \in 0 .. maxSize
    /\ result \in Seq(Metric)

-----------------------------------------------------------------------------

NewMetricCache ==
    /\ buf = [s \in Slot |-> Nil]
    /\ head = 0
    /\ tail = 0
    /\ count = 0
    /\ result = << >>

\* Add that overwrites the newest entry when the buffer is full.
AddOverNewest(m) ==
    /\ IF count = maxSize
       THEN buf' = [buf EXCEPT ![Index(count - 1)] = m] /\ UNCHANGED <<head, count>>
       ELSE buf' = [buf EXCEPT ![head] = m] /\ head' = Advance(head) /\ count' = count + 1
    /\ UNCHANGED <<tail, result>>

Add(m) ==
    /\ buf' = [buf EXCEPT ![head] = m]
    /\ head' = Advance(head)
    /\ IF count = maxSize
       THEN /\ tail' = Advance(tail)
            /\ UNCHANGED count
       ELSE /\ count' = count + 1
            /\ UNCHANGED tail
    /\ UNCHANGED result

\* The entries from the oldest to the newest.
Entries == [i \in 1 .. count |-> buf[Index(i - 1)]]

Drain ==
    /\ result' = Entries
    /\ buf' = [s \in Slot |->
                 IF \E i \in 0 .. count - 1 : s = Index(i) THEN Nil ELSE buf[s]]
    /\ IF count = 0
       THEN UNCHANGED <<head, tail, count>>
       ELSE head' = 0 /\ tail' = 0 /\ count' = 0

Next == Drain \/ \E m \in Metric : Add(m)

Spec == NewMetricCache /\ [][Next]_vars

-----------------------------------------------------------------------------

\* head is count slots after tail around the ring, and exactly the count slots
\* from tail on hold a metric: Add never overwrites an entry that Drain still
\* counts unless it also drops it, and Drain leaves no reference behind.
Window ==
    /\ head = (tail + count) % maxSize
    /\ \A s \in Slot : buf[s] # Nil <=> \E i \in 0 .. count - 1 : s = Index(i)

Fifo == INSTANCE DropOldestFifo WITH
            Capacity <- maxSize, q <- Entries, drained <- result

\* The ring buffer behaves as the bounded first-in first-out queue that drops
\* its oldest entry when full.
ImplementsFifo == Fifo!Spec
=============================================================================
