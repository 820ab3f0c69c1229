------------------------------ MODULE Alerting ------------------------------
(***************************************************************************)
(* The alerting engine (internal/alerting), from the rules of a            *)
(* configuration that Validate accepts to the alerts that                  *)
(* handlePipelineMetrics raises, one Evaluate per batch of the collector   *)
(* pipeline.  A batch holds the metrics of one input, so a rule meets      *)
(* batches without its metric; they count as the condition not holding.    *)
(*                                                                         *)
(* The rule is written out as text ("metric op threshold") and parsed      *)
(* again; its operator is kept as the sequence of its characters, for      *)
(* conditionPattern takes the first alternative that fits.                 *)
(***************************************************************************)
EXTENDS Integers, Sequences

CONSTANTS
    AlertRule,      \* [metric, op, threshold, for]: rules a configuration can hold
    AlertMetric,    \* metric names, each in a batch of its own
    AlertValue,     \* values of a metric
    MaxNow,         \* bound: the clock
    MaxAlerts       \* bound: alerts counted

\* A duration is an int64 of either sign: time.ParseDuration takes "-5s" too.
ASSUME AlertAssumption ==
    \A r \in AlertRule :
        /\ r = [metric |-> r.metric, op |-> r.op, threshold |-> r.threshold, for |-> r.for]
        /\ r.for \in Int

VARIABLES
    configured, \* the configured rule
    loaded,     \* the rules of the engine (none or the one)
    state,      \* rule.State, "unbuilt" before NewEngine
    triggered,  \* rule.TriggeredAt, 0 for the zero time
    now,        \* the clock
    held,       \* since when every evaluation met the condition, 0 for never
    alerts,     \* the alerts raised in the present episode
    raisedAt    \* when the last of them was raised

alertVars == <<configured, loaded, state, triggered, now, held, alerts, raisedAt>>

\* The operators Validate accepts, in the order of conditionPattern.
Operators == << <<">">>, <<"<">>, <<">", "=">>, <<"<", "=">>, <<"=", "=">>, <<"!", "=">> >>

Valid(rule) == \E k \in 1 .. Len(Operators) : rule.op = Operators[k]

Fits(k, op) == Len(Operators[k]) <= Len(op) /\ SubSeq(op, 1, Len(Operators[k])) = Operators[k]

\* What the alternation matches: its first alternative that is a prefix of the
\* text.  The rest of the text has to be a number.
parseCondition(rule) ==
    LET k == CHOOSE k \in 1 .. Len(Operators) :
                 Fits(k, rule.op) /\ \A j \in 1 .. k - 1 : ~Fits(j, rule.op)
    IN  IF Len(Operators[k]) = Len(rule.op) THEN <<[rule EXCEPT !.op = Operators[k]]>> ELSE <<>>

\* A rule that does not parse is left out without a word.
NewEngine(rule) == parseCondition(rule)

Met(c, v) ==
    CASE c.op = <<">">> -> v > c.threshold
      [] c.op = <<"<">> -> v < c.threshold
      [] c.op = <<">", "=">> -> v >= c.threshold
      [] c.op = <<"<", "=">> -> v <= c.threshold
      [] c.op = <<"=", "=">> -> v = c.threshold
      [] c.op = <<"!", "=">> -> v # c.threshold

\* Variant: a pending rule survives an evaluation that does not meet it.
ConditionMetSticky(met) ==
    CASE state = "ok" /\ met /\ loaded[1].for = 0 -> [s |-> "firing", t |-> triggered]
      [] state = "ok" /\ met /\ loaded[1].for # 0 -> [s |-> "pending", t |-> now]
      [] state = "pending" /\ now - triggered >= loaded[1].for -> [s |-> "firing", t |-> triggered]
      [] state = "firing" /\ ~met -> [s |-> "ok", t |-> 0]
      [] OTHER -> [s |-> state, t |-> triggered]

ConditionMet(met) ==
    CASE state = "ok" /\ met /\ loaded[1].for = 0 -> [s |-> "firing", t |-> triggered]
      [] state = "ok" /\ met /\ loaded[1].for # 0 -> [s |-> "pending", t |-> now]
      [] state = "pending" /\ ~met -> [s |-> "ok", t |-> 0]
      [] state = "pending" /\ met /\ now - triggered >= loaded[1].for -> [s |-> "firing", t |-> triggered]
      [] state = "firing" /\ ~met -> [s |-> "ok", t |-> 0]
      [] OTHER -> [s |-> state, t |-> triggered]

\* NewAgent builds the engine.
BuildEngine ==
    /\ state = "unbuilt"
    /\ loaded' = NewEngine(configured)
    /\ state' = "ok"
    /\ UNCHANGED <<configured, triggered, now, held, alerts, raisedAt>>

\* A batch reaches handlePipelineMetrics: its metric, its value.
Evaluate(metric, value) ==
    /\ loaded # <<>>
    /\ LET met == metric = loaded[1].metric /\ Met(loaded[1], value)
           new == ConditionMet(met)
           raise == new.s = "firing" /\ state # "firing"
       IN  /\ state' = new.s /\ triggered' = new.t
           /\ held' = IF ~met THEN 0 ELSE IF held = 0 THEN now ELSE held
           /\ alerts' = IF raise /\ alerts < MaxAlerts THEN alerts + 1
                        ELSE IF ~met THEN 0 ELSE alerts
           /\ raisedAt' = IF raise THEN now ELSE IF ~met THEN 0 ELSE raisedAt
    /\ UNCHANGED <<configured, loaded, now>>

\* Without the rule there is nothing to evaluate.
EvaluateNone == state = "ok" /\ loaded = <<>> /\ UNCHANGED alertVars

AlertClock ==
    /\ now < MaxNow
    /\ now' = now + 1
    /\ UNCHANGED <<configured, loaded, state, triggered, held, alerts, raisedAt>>

AlertInit ==
    /\ configured \in {r \in AlertRule : Valid(r)}
    /\ loaded = <<>> /\ state = "unbuilt"
    /\ triggered = 0 /\ now = 1 /\ held = 0 /\ alerts = 0 /\ raisedAt = 0

AlertNext ==
    \/ BuildEngine
    \/ \E m \in AlertMetric, v \in AlertValue : Evaluate(m, v)
    \/ EvaluateNone
    \/ AlertClock

AlertSpec == AlertInit /\ [][AlertNext]_alertVars

(***************************************************************************)
(* Properties.                                                             *)
(***************************************************************************)

\* An alert means that every evaluation for the rule's duration, the first and
\* the last at least that far apart, met the condition.
AlertMeansHeld ==
    alerts > 0 => held # 0 /\ raisedAt - held >= loaded[1].for

\* While the condition goes on being met the alert is raised once.
AlertOncePerEpisode == alerts <= 1

\* The engine evaluates the rule that was configured or none: a rule whose
\* operator is >= or <=, which the pattern reads as > or < before an "=" that is
\* no number, is left out (Validate accepts it), and every other is loaded as
\* it was written.
LoadedAsConfigured ==
    state # "unbuilt" =>
        loaded = IF configured.op \in {<<">", "=">>, <<"<", "=">>} THEN <<>> ELSE <<configured>>

\* The alerts of a rule are those its configuration asks for: the rule evaluated
\* is the one configured, and it fires once for each time its condition has
\* held for its duration.
AlertsAsConfigured == LoadedAsConfigured /\ AlertMeansHeld /\ AlertOncePerEpisode
============================================================================
