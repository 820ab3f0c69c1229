---------------------------- MODULE Aggregators ----------------------------
(***************************************************************************)
(* The aggregators (internal/collector/aggregators) between the goroutines *)
(* that use them: gatherOnce adds metrics, pushAggregators pushes and then *)
(* resets at every tick and once more when the context ends, and a reload  *)
(* pushes a last time into an accumulator that nobody reads.  Push and     *)
(* Reset each take the aggregator's lock; nothing holds it between them.   *)
(*                                                                         *)
(* One aggregator of any kind is configured, on one field.  A value is     *)
(* [t |-> its Go type, v |-> n]; a metric without the field has type       *)
(* "none".  Beside the aggregator, win keeps the numbers of the metrics it *)
(* took since its last Reset.                                              *)
(***************************************************************************)
EXTENDS Integers, Sequences, FiniteSets, FiniteSetsExt, Functions, TLC

CONSTANTS
    AggValue,       \* the values a metric can carry
    MaxMetrics,     \* bound: metrics gathered
    Percentiles     \* the configured percentiles, whole numbers 0 .. 100

ASSUME AggAssumption ==
    /\ MaxMetrics \in Nat /\ Percentiles \subseteq 0 .. 100
    /\ \A x \in AggValue :
           x.t \in {"float64", "int64", "int", "string", "none"} /\ x.v \in Int

VARIABLES
    kind,       \* the aggregator
    metrics,    \* the metrics gathered so far, in order
    agg,        \* its state
    aname,      \* a.name: the metric it was taken from, or 0
    win,        \* the metrics it took since its last Reset
    pushed,     \* how often each metric was part of what it pushed
    gap,        \* the metrics added between a Push and its Reset, or after the last
    base,       \* the last metric added before the last Reset
    feeding,    \* gatherOnce has a metric in hand
    emitted,    \* what the last Push put into its accumulator, until its Reset
    psh,        \* the goroutine that pushes
    aggDone     \* the context is cancelled

aggVars ==
    <<kind, metrics, agg, aname, win, pushed, gap, base, emitted, feeding, psh, aggDone>>

Kind == {"avg", "minmax", "sum", "percentile"}

\* What Init and Reset of every aggregator make of its state.
ResetAvg == [sum |-> 0, count |-> 0]
ResetMinmax == [has |-> FALSE, min |-> 0, max |-> 0]
ResetSum == [has |-> FALSE, sum |-> 0, int |-> FALSE]
ResetPercentile == [values |-> <<>>]

Empty(k) ==
    CASE k = "avg" -> ResetAvg
      [] k = "minmax" -> ResetMinmax
      [] k = "sum" -> ResetSum
      [] k = "percentile" -> ResetPercentile

\* The types every Add has a case for; a value of another type is passed over.
Numeric(x) == x.t \in {"float64", "int64"}

(***************************************************************************)
(* Add of every aggregator.                                                *)
(***************************************************************************)
AddAvg(s, x) == [sum |-> s.sum + x.v, count |-> s.count + 1]

\* Variant: the maximum starts at zero.
AddMinmaxZero(s, x) ==
    IF ~s.has THEN [has |-> TRUE, min |-> x.v, max |-> 0]
    ELSE [s EXCEPT !.min = IF x.v < @ THEN x.v ELSE @,
                   !.max = IF x.v > @ THEN x.v ELSE @]

AddMinmax(s, x) ==
    IF ~s.has THEN [has |-> TRUE, min |-> x.v, max |-> x.v]
    ELSE [s EXCEPT !.min = IF x.v < @ THEN x.v ELSE @,
                   !.max = IF x.v > @ THEN x.v ELSE @]

\* The sum stays an int64 as long as every value was one.
AddSum(s, x) ==
    IF ~s.has THEN [has |-> TRUE, sum |-> x.v, int |-> x.t = "int64"]
    ELSE [s EXCEPT !.sum = @ + x.v, !.int = @ /\ x.t = "int64"]

AddPercentile(s, x) == [values |-> Append(s.values, x.v)]

Add(s, x) ==
    IF ~Numeric(x) THEN s
    ELSE CASE kind = "avg" -> AddAvg(s, x)
           [] kind = "minmax" -> AddMinmax(s, x)
           [] kind = "sum" -> AddSum(s, x)
           [] kind = "percentile" -> AddPercentile(s, x)

(***************************************************************************)
(* What the percentile aggregator computes, in hundredths: the value at    *)
(* p % of the way through the sorted values, interpolated.                 *)
(***************************************************************************)
Sorted(s) == SortSeq(s, LAMBDA a, b : a < b)

percentile(s, p) ==
    IF Len(s) = 1 THEN 100 * s[1]
    ELSE LET index == p * (Len(s) - 1)      \* in hundredths
             lower == index \div 100
             upper == IF index % 100 = 0 THEN lower ELSE lower + 1
         IN  100 * s[lower + 1] + (s[upper + 1] - s[lower + 1]) * (index % 100)

(***************************************************************************)
(* What Push of every aggregator emits: nothing when nothing was added.    *)
(* An average is given by its numerator and denominator.                   *)
(***************************************************************************)
PushAvg(s) == IF s.count = 0 THEN {} ELSE {[stat |-> "avg", of |-> <<s.sum, s.count>>]}

PushMinmax(s) ==
    IF ~s.has THEN {} ELSE {[stat |-> "min", of |-> <<s.min>>], [stat |-> "max", of |-> <<s.max>>]}

PushSum(s) == IF ~s.has THEN {} ELSE {[stat |-> "sum", of |-> <<s.sum>>, int |-> s.int]}

PushPercentile(s) ==
    IF s.values = <<>> THEN {}
    ELSE {[stat |-> p, of |-> <<percentile(Sorted(s.values), p)>>] : p \in Percentiles}

Emits(s) ==
    CASE kind = "avg" -> PushAvg(s)
      [] kind = "minmax" -> PushMinmax(s)
      [] kind = "sum" -> PushSum(s)
      [] kind = "percentile" -> PushPercentile(s)

(***************************************************************************)
(* gatherOnce: a metric is gathered, and later added.                      *)
(***************************************************************************)
GatherMetric ==
    /\ ~feeding /\ ~aggDone /\ Len(metrics) < MaxMetrics
    /\ \E x \in AggValue : metrics' = Append(metrics, x)
    /\ feeding' = TRUE
    /\ UNCHANGED <<kind, agg, aname, win, pushed, gap, base, emitted, psh, aggDone>>

\* Nobody pushes what is added between Push and Reset, or after the last push.
InGap == psh \in {"reset", "lastreset", "over"}

FeedAggregator ==
    /\ feeding
    /\ LET m == Len(metrics)
           x == metrics[m]
       IN  /\ agg' = Add(agg, x)
           /\ aname' = IF aname = 0 /\ x.t # "none" THEN m ELSE aname
           /\ win' = IF Numeric(x) THEN Append(win, m) ELSE win
           /\ gap' = IF Numeric(x) /\ InGap THEN gap \cup {m} ELSE gap
    /\ feeding' = FALSE
    /\ UNCHANGED <<kind, metrics, pushed, base, emitted, psh, aggDone>>

(***************************************************************************)
(* pushAggregators: at every tick, and once more when the context ends.    *)
(***************************************************************************)

\* Push leaves the aggregator as it is, but for percentile's, which sorts its
\* values in place.
Push ==
    /\ psh = "wait"
    /\ pushed' = [m \in 1 .. MaxMetrics |->
                     IF m \in Range(win) THEN pushed[m] + 1 ELSE pushed[m]]
    /\ psh' \in {"reset"} \cup (IF aggDone THEN {"lastreset"} ELSE {})
    /\ emitted' = Emits(agg)
    /\ agg' = IF kind = "percentile" THEN [values |-> Sorted(agg.values)] ELSE agg
    /\ UNCHANGED <<kind, metrics, aname, win, gap, base, feeding, aggDone>>

ResetDone ==
    /\ base' = IF feeding THEN Len(metrics) - 1 ELSE Len(metrics)
    /\ emitted' = {}
    /\ psh' = IF psh = "reset" THEN "wait" ELSE "over"
    /\ UNCHANGED <<kind, metrics, pushed, gap, feeding, aggDone>>

\* Variant: Reset does nothing.
ResetKeeps ==
    /\ psh \in {"reset", "lastreset"}
    /\ psh' = IF psh = "reset" THEN "wait" ELSE "over"
    /\ emitted' = {}
    /\ UNCHANGED <<kind, metrics, agg, aname, win, pushed, gap, base, feeding, aggDone>>

Reset ==
    /\ psh \in {"reset", "lastreset"}
    /\ agg' = Empty(kind) /\ win' = <<>> /\ aname' = 0
    /\ ResetDone

\* Reload: the context is cancelled, the goroutines are waited for, and what
\* the aggregator still holds is pushed to nobody.
CancelAgg ==
    /\ ~aggDone
    /\ aggDone' = TRUE
    /\ UNCHANGED <<kind, metrics, agg, aname, win, pushed, gap, base, feeding, emitted, psh>>

DropRest ==
    /\ aggDone /\ ~feeding /\ psh = "over"
    /\ agg' = Empty(kind) /\ win' = <<>> /\ aname' = 0
    /\ base' = Len(metrics)
    /\ UNCHANGED <<kind, metrics, pushed, gap, feeding, emitted, psh, aggDone>>

AggInit ==
    /\ kind \in Kind
    /\ metrics = <<>> /\ feeding = FALSE /\ aggDone = FALSE
    /\ agg = Empty(kind) /\ aname = 0 /\ win = <<>> /\ gap = {} /\ base = 0
    /\ emitted = {}
    /\ pushed = [m \in 1 .. MaxMetrics |-> 0]
    /\ psh = "wait"

AggNext ==
    \/ GatherMetric \/ FeedAggregator
    \/ Push \/ Reset
    \/ CancelAgg \/ DropRest

AggSpec == AggInit /\ [][AggNext]_aggVars

(***************************************************************************)
(* Properties.                                                             *)
(***************************************************************************)
\* The values the aggregator took since its last Reset and before its last Push.
Taken == SelectSeq(win, LAMBDA m : m \notin gap)
Values == [k \in DOMAIN Taken |-> metrics[Taken[k]].v]
Total(s) == FoldFunction(LAMBDA a, b : a + b, 0, s)

\* What a Push emits is exactly the aggregate of the values the aggregator took
\* since the Reset before, computed here from the values themselves; nothing
\* when there were none; and it has the name of a metric added since then.
AggregatesExact ==
    psh \in {"reset", "lastreset"} =>
        /\ CASE Taken = <<>> -> emitted = {}
             [] Taken # <<>> /\ kind = "avg" ->
                    emitted = {[stat |-> "avg", of |-> <<Total(Values), Len(Values)>>]}
             [] Taken # <<>> /\ kind = "minmax" ->
                    emitted = {[stat |-> "min", of |-> <<Min(Range(Values))>>],
                               [stat |-> "max", of |-> <<Max(Range(Values))>>]}
             [] Taken # <<>> /\ kind = "sum" ->
                    emitted = {[stat |-> "sum", of |-> <<Total(Values)>>,
                                int |-> \A m \in Range(Taken) : metrics[m].t = "int64"]}
             [] Taken # <<>> /\ kind = "percentile" ->
                    /\ {e.stat : e \in emitted} = Percentiles
                    /\ \A e \in emitted :
                           e.of[1] \in 100 * Min(Range(Values)) .. 100 * Max(Range(Values))
        /\ Taken # <<>> => aname \in base + 1 .. Taken[1]

\* No metric is counted in two pushes, and one that was pushed never and is
\* not waiting either was added where nobody would push it: between Push and
\* Reset, or after the final push.
CountedOnce ==
    \A m \in 1 .. Len(metrics) :
        /\ pushed[m] + (IF m \in Range(win) /\ ~InGap THEN 1 ELSE 0) <= 1
        /\ (/\ m < Len(metrics) \/ ~feeding
            /\ Numeric(metrics[m]) /\ pushed[m] = 0 /\ m \notin Range(win))
               => m \in gap

\* A percentile lies between the smallest and the largest value, never falls
\* as p grows, and is the smallest at 0, the largest at 100 and the middle one
\* of an odd number of values at 50.
PercentileSound ==
    kind = "percentile" /\ metrics = <<>> /\ psh = "reset" =>
        \A n \in 1 .. 4 : \A u \in [1 .. n -> {x.v : x \in AggValue}] :
            LET s == Sorted(u) IN
            /\ \A p, q \in Percentiles :
                   /\ percentile(s, p) \in 100 * s[1] .. 100 * s[n]
                   /\ p <= q => percentile(s, p) <= percentile(s, q)
            /\ percentile(s, 0) = 100 * s[1] /\ percentile(s, 100) = 100 * s[n]
            /\ n % 2 = 1 => percentile(s, 50) = 100 * s[(n + 1) \div 2]

\* What is pushed for a window is the aggregate of its values, percentiles
\* included.
PushIsExact == AggregatesExact /\ PercentileSound
============================================================================
