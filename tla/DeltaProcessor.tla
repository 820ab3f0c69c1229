--------------------------- MODULE DeltaProcessor ---------------------------
(***************************************************************************)
(* The "delta" processor (internal/collector/processors/delta), which      *)
(* turns a cumulative counter into its increase, or its rate of increase,  *)
(* since the last time the series was seen.  Apply runs under its lock, so *)
(* the batches of several inputs come one after the other; every series    *)
(* comes from one input.                                                   *)
(*                                                                         *)
(* One field is configured.  A metric carries it as a number, as a value   *)
(* toFloat64 has no case for ("other"), or not at all ("absent").  A rate  *)
(* is kept as the increase it stands for over the elapsed time.            *)
(***************************************************************************)
EXTENDS Integers

CONSTANTS
    Series,             \* the series: name and sorted tags (metricKey)
    MaxCounter,         \* bound: the value of a counter
    MaxClock,           \* bound: the clock
    maxStaleSeconds     \* max_stale_seconds

ASSUME DeltaAssumption ==
    {MaxCounter, MaxClock, maxStaleSeconds} \subseteq Nat

VARIABLES
    outputMode, \* "delta" or "rate"
    dclock,     \* the time
    counter,    \* the true counter of every series
    grown,      \* by how much it grew, restarts of the counter included
    prev,       \* p.prev: [val, ts] or NoEntry
    reported,   \* the sum of the increases reported
    first,      \* the value first seen, or -1
    smooth      \* the series was always a number, in time, and never fell back

deltaVars == <<outputMode, dclock, counter, grown, prev, reported, first, smooth>>

NoEntry == [has |-> FALSE, t |-> "absent", val |-> 0, ts |-> 0]

\* The system the counters are read from.
Grow(s) ==
    /\ grown[s] < MaxCounter /\ counter[s] < MaxCounter
    /\ counter' = [counter EXCEPT ![s] = @ + 1]
    /\ grown' = [grown EXCEPT ![s] = @ + 1]
    /\ UNCHANGED <<outputMode, dclock, prev, reported, first, smooth>>

\* A reboot, or an interface that went away and came back.
CounterRestarts(s) ==
    /\ counter[s] > 0
    /\ counter' = [counter EXCEPT ![s] = 0]
    /\ smooth' = [smooth EXCEPT ![s] = FALSE]
    /\ UNCHANGED <<outputMode, dclock, grown, prev, reported, first>>

TimePasses ==
    /\ dclock < MaxClock
    /\ dclock' = dclock + 1
    /\ UNCHANGED <<outputMode, counter, grown, prev, reported, first, smooth>>

\* Entries not updated for maxStaleSeconds before the newest metric.
cleanupStale(p) ==
    [s \in Series |-> IF p[s].has /\ p[s].ts < dclock - maxStaleSeconds
                      THEN NoEntry ELSE p[s]]

\* Variant: a counter that fell back is taken as having wrapped around.
computeDeltaWraps(e, t, cur) ==
    IF e.t # "num" \/ t # "num" THEN 0
    ELSE IF cur < e.val THEN MaxCounter + cur - e.val + 1 ELSE cur - e.val

\* The increase, 0 for a counter that fell back and for other types.
computeDelta(e, t, cur) ==
    IF e.t # "num" \/ t # "num" \/ cur < e.val THEN 0 ELSE cur - e.val

\* What Apply reports for one series: nothing is known of the first value, of
\* one after a gap in the field, and of a rate over no time.
Reported(e, t, cur) ==
    CASE t = "absent" -> 0
      [] t # "absent" /\ (~e.has \/ e.t = "absent") -> 0
      [] t # "absent" /\ e.has /\ e.t # "absent" ->
             IF outputMode = "rate" /\ dclock <= e.ts THEN 0
             ELSE computeDelta(e, t, cur)

Stored(e, t, s) == [has |-> TRUE, t |-> t, val |-> counter[s], ts |-> dclock]

\* Apply to a batch: the series in B, with the type of the field in each.
Apply(B, type) ==
    LET p == cleanupStale(prev) IN
    /\ prev' = [s \in Series |-> IF s \in B THEN Stored(p[s], type[s], s) ELSE p[s]]
    /\ reported' = [s \in Series |->
           IF s \in B THEN reported[s] + Reported(p[s], type[s], counter[s]) ELSE reported[s]]
    /\ first' = [s \in Series |->
           IF s \in B /\ first[s] = -1 THEN counter[s] ELSE first[s]]
    /\ smooth' = [s \in Series |->
           /\ smooth[s]
           /\ prev[s].has => p[s].has
           /\ s \in B => type[s] = "num"
           /\ s \in B /\ prev[s].has /\ outputMode = "rate" => dclock > prev[s].ts]
    /\ UNCHANGED <<outputMode, dclock, counter, grown>>

DeltaInit ==
    /\ outputMode \in {"delta", "rate"}
    /\ dclock = 0
    /\ counter \in [Series -> {0, 1}] /\ grown = counter
    /\ prev = [s \in Series |-> NoEntry]
    /\ reported = [s \in Series |-> 0]
    /\ first = [s \in Series |-> -1]
    /\ smooth = [s \in Series |-> TRUE]

DeltaNext ==
    \/ \E s \in Series : Grow(s) \/ CounterRestarts(s)
    \/ TimePasses
    \/ \E B \in SUBSET Series :     \* {} is a batch of other series
           \E type \in [B -> {"num", "other", "absent"}] : Apply(B, type)

DeltaSpec == DeltaInit /\ [][DeltaNext]_deltaVars

(***************************************************************************)
(* Properties.                                                             *)
(***************************************************************************)

\* What was reported for a series never exceeds what its counter grew by,
\* whatever restarts, gaps and stale entries lie between.  For a series that
\* was always a number, in time and never fell back it is exactly the last
\* value stored less the first one.
DeltaSound ==
    \A s \in Series :
        /\ reported[s] \in 0 .. grown[s]
        /\ smooth[s] /\ first[s] # -1 => reported[s] = prev[s].val - first[s]
=============================================================================
