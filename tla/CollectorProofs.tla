-------------------------- MODULE CollectorProofs ---------------------------
(***************************************************************************)
(* Proofs about what gathered metrics go through: the delta processor, the *)
(* alerts, the outputs and the aggregators, for every value of their       *)
(* constants.  Each part has its own inductive invariant; its theorems     *)
(* follow it.                                                              *)
(***************************************************************************)
EXTENDS Aggregators, DeltaProcessor, Outputs, Alerting, TLAPS

\* The prover of every leaf that names none.
USE SMTT(30)

-----------------------------------------------------------------------------
(* The delta processor *)

\* What has been reported and what the next Apply could add stay within the
\* growth; a series without a fault has an entry since its first value, and the
\* entry is not ahead of the counter.
SeriesSound(s) ==
    /\ reported[s] <= grown[s]
    /\ prev[s].has => reported[s] + counter[s] - prev[s].val <= grown[s]
    /\ smooth[s] /\ first[s] = -1 => ~prev[s].has /\ reported[s] = 0
    /\ smooth[s] /\ first[s] # -1 =>
          /\ prev[s].has /\ prev[s].t = "num" /\ prev[s].val <= counter[s]
          /\ reported[s] = prev[s].val - first[s]

DeltaTypeOK ==
    /\ outputMode \in {"delta", "rate"} /\ dclock \in Nat
    /\ counter \in [Series -> Nat] /\ grown \in [Series -> Nat] /\ reported \in [Series -> Nat]
    /\ first \in [Series -> Int]
    /\ DOMAIN prev = Series /\ \A s \in Series : prev[s].val \in Nat /\ prev[s].ts \in Nat
    /\ DOMAIN smooth = Series

DeltaInv == DeltaTypeOK /\ \A s \in Series : SeriesSound(s)

\* What Apply does to one series, whether or not it is in the batch.
LEMMA ApplyKeeps ==
    ASSUME DeltaInv, NEW B \in SUBSET Series, NEW type \in [B -> {"num", "other", "absent"}],
           Apply(B, type), NEW s \in Series
    PROVE  /\ SeriesSound(s)' /\ reported'[s] \in Nat /\ first'[s] \in Int
           /\ prev'[s].val \in Nat /\ prev'[s].ts \in Nat
<1> DEFINE e == cleanupStale(prev)[s]
           n == Reported(e, type[s], counter[s])
<1>1. /\ dclock \in Nat /\ counter[s] \in Nat /\ grown[s] \in Nat /\ reported[s] \in Nat
      /\ first[s] \in Int /\ prev[s].val \in Nat /\ prev[s].ts \in Nat
      /\ SeriesSound(s) /\ maxStaleSeconds \in Nat
  BY Zenon, DeltaAssumption DEF DeltaInv, DeltaTypeOK
<1>2. e = prev[s] \/ e = NoEntry
  BY Zenon DEF cleanupStale
<1>3. /\ e.val \in Nat /\ e.ts \in Nat
      /\ e.has => e = prev[s]
  BY <1>1, <1>2 DEF NoEntry
<1>4. /\ outputMode' = outputMode /\ dclock' = dclock /\ counter' = counter /\ grown' = grown
      /\ prev'[s] = IF s \in B THEN Stored(e, type[s], s) ELSE e
      /\ reported'[s] = IF s \in B THEN reported[s] + n ELSE reported[s]
      /\ first'[s] = IF s \in B /\ first[s] = -1 THEN counter[s] ELSE first[s]
      /\ smooth'[s] <=> /\ smooth[s]
                        /\ prev[s].has => e.has
                        /\ s \in B => type[s] = "num"
                        /\ s \in B /\ prev[s].has /\ outputMode = "rate" => dclock > prev[s].ts
  BY Zenon DEF Apply
<1> HIDE DEF e, n
<1>5. CASE s \notin B
  BY Zenon, <1>1, <1>2, <1>3, <1>4, <1>5 DEF SeriesSound, NoEntry
<1>6. CASE s \in B
  <2>1. /\ prev'[s].has /\ prev'[s].t = type[s] /\ prev'[s].val = counter[s] /\ prev'[s].ts = dclock
    BY <1>4, <1>6 DEF Stored
  <2>2. n = 0 \/ (e.has /\ counter[s] >= e.val /\ n = counter[s] - e.val)
    <3>1. type[s] \in {"num", "other", "absent"}
      BY Zenon, <1>6
    <3> QED BY <1>1, <1>3, <3>1 DEF n, Reported, computeDelta
  <2>3. ASSUME smooth'[s], first[s] = -1 PROVE n = 0
    BY Zenon, <1>1, <1>3, <1>4, <2>2, <2>3 DEF SeriesSound
  <2>4. ASSUME smooth'[s], first[s] # -1 PROVE n = counter[s] - prev[s].val
    <3>1. /\ type[s] = "num" /\ e = prev[s] /\ e.has /\ e.t = "num" /\ counter[s] >= e.val
          /\ outputMode = "rate" => dclock > e.ts
      BY Zenon, <1>1, <1>3, <1>4, <1>6, <2>4 DEF SeriesSound
    <3> QED BY <1>1, <3>1 DEF n, Reported, computeDelta
  <2>5. n \in Nat /\ reported[s] + n <= grown[s]
    BY <1>1, <1>3, <2>2 DEF SeriesSound
  <2>6. /\ reported'[s] = reported[s] + n
        /\ first'[s] = IF first[s] = -1 THEN counter[s] ELSE first[s]
    BY Zenon, <1>4, <1>6
  <2>7. /\ reported'[s] \in Nat /\ first'[s] \in Int /\ prev'[s].val \in Nat /\ prev'[s].ts \in Nat
    BY <1>1, <2>1, <2>5, <2>6
  <2>8. /\ reported'[s] <= grown'[s]
        /\ prev'[s].has => reported'[s] + counter'[s] - prev'[s].val <= grown'[s]
    BY <1>1, <1>4, <2>1, <2>5, <2>6
  <2>9. first'[s] # -1
    BY <1>1, <2>6
  <2>10. ASSUME smooth'[s]
         PROVE  /\ prev'[s].t = "num" /\ prev'[s].val <= counter'[s]
                /\ reported'[s] = prev'[s].val - first'[s]
    <3>1. smooth[s] /\ type[s] = "num"
      BY Zenon, <1>4, <1>6, <2>10
    <3>2. CASE first[s] = -1
      <4>1. reported[s] = 0 /\ n = 0
        BY Zenon, <1>1, <2>3, <2>10, <3>1, <3>2 DEF SeriesSound
      <4> QED BY <1>1, <1>4, <2>1, <2>6, <3>1, <3>2, <4>1
    <3>3. CASE first[s] # -1
      <4>1. reported[s] = prev[s].val - first[s] /\ n = counter[s] - prev[s].val
        BY Zenon, <1>1, <2>4, <2>10, <3>1, <3>3 DEF SeriesSound
      <4> QED BY <1>1, <1>4, <2>1, <2>6, <3>1, <3>3, <4>1
    <3> QED BY Zenon, <3>2, <3>3
  <2> QED BY Zenon, <2>1, <2>7, <2>8, <2>9, <2>10 DEF SeriesSound
<1> QED BY Zenon, <1>5, <1>6

\* For any series, any stale limit and any batches: what the delta processor
\* reports stays within what the counter grew by, and adds up exactly for a
\* series without a fault.
THEOREM DeltaCorrect == DeltaSpec => []DeltaSound
<1>1. DeltaInit => DeltaInv
  BY DEF DeltaInit, DeltaInv, DeltaTypeOK, SeriesSound, NoEntry
<1>2. DeltaInv /\ [DeltaNext]_deltaVars => DeltaInv'
  <2> SUFFICES ASSUME DeltaInv, [DeltaNext]_deltaVars PROVE DeltaInv'
    BY Zenon
  <2>1. CASE UNCHANGED deltaVars \/ TimePasses
    BY <2>1 DEF deltaVars, TimePasses, DeltaInv, DeltaTypeOK, SeriesSound
  <2>2. ASSUME NEW s \in Series, Grow(s) \/ CounterRestarts(s) PROVE DeltaInv'
    <3>1. DeltaTypeOK'
      BY <2>2 DEF DeltaInv, DeltaTypeOK, Grow, CounterRestarts
    <3>2. ASSUME NEW u \in Series PROVE SeriesSound(u)'
      <4>1. /\ counter[u] \in Nat /\ grown[u] \in Nat /\ reported[u] \in Nat
            /\ first[u] \in Int /\ prev[u].val \in Nat /\ SeriesSound(u)
            /\ counter \in [Series -> Nat] /\ grown \in [Series -> Nat] /\ DOMAIN smooth = Series
        BY Zenon DEF DeltaInv, DeltaTypeOK
      <4>2. CASE Grow(s)
        BY <4>1, <4>2 DEF SeriesSound, Grow
      <4>3. CASE CounterRestarts(s)
        BY <4>1, <4>3 DEF SeriesSound, CounterRestarts
      <4> QED BY Zenon, <2>2, <4>2, <4>3
    <3> QED BY Zenon, <3>1, <3>2 DEF DeltaInv
  <2>3. ASSUME NEW B \in SUBSET Series, NEW type \in [B -> {"num", "other", "absent"}],
               Apply(B, type)
        PROVE  DeltaInv'
    <3>1. /\ DOMAIN prev' = Series /\ DOMAIN reported' = Series /\ DOMAIN first' = Series
          /\ DOMAIN smooth' = Series
          /\ reported' = [s \in Series |-> reported'[s]] /\ first' = [s \in Series |-> first'[s]]
      BY Zenon, <2>3 DEF Apply
    <3>2. \A s \in Series : /\ SeriesSound(s)' /\ reported'[s] \in Nat /\ first'[s] \in Int
                            /\ prev'[s].val \in Nat /\ prev'[s].ts \in Nat
      BY Zenon, <2>3, ApplyKeeps
    <3>3. reported' \in [Series -> Nat] /\ first' \in [Series -> Int]
      BY Zenon, <3>1, <3>2
    <3>4. DeltaTypeOK'
      BY Zenon, <2>3, <3>1, <3>2, <3>3 DEF DeltaInv, DeltaTypeOK, Apply
    <3> QED BY Zenon, <3>2, <3>4 DEF DeltaInv
  <2> QED BY Zenon, <2>1, <2>2, <2>3 DEF DeltaNext
<1>3. DeltaInv => DeltaSound
  <2> SUFFICES ASSUME DeltaInv, NEW s \in Series
               PROVE  /\ reported[s] \in 0 .. grown[s]
                      /\ smooth[s] /\ first[s] # -1 => reported[s] = prev[s].val - first[s]
    BY Zenon DEF DeltaSound
  <2>1. SeriesSound(s) /\ reported[s] \in Nat /\ grown[s] \in Nat
    BY Zenon DEF DeltaInv, DeltaTypeOK
  <2> QED BY <2>1 DEF SeriesSound
<1> QED BY <1>1, <1>2, <1>3, PTL DEF DeltaSpec

-----------------------------------------------------------------------------
(* The alerting engine *)

\* The state of the rule says since when its condition has held.
AlertInv ==
    /\ configured \in AlertRule /\ Valid(configured)
    /\ state \in {"unbuilt", "ok", "pending", "firing"}
    /\ now \in Nat \ {0} /\ held \in 0 .. now /\ triggered \in Int /\ raisedAt \in Int
    /\ state = "unbuilt" => loaded = <<>>
    /\ LoadedAsConfigured
    /\ state \in {"unbuilt", "ok"} => held = 0 /\ alerts = 0
    /\ state = "pending" => held # 0 /\ triggered = held /\ alerts = 0
    /\ state = "firing" => held # 0
    /\ alerts \in {0, 1}
    /\ alerts = 1 => raisedAt - held >= loaded[1].for

\* conditionPattern on an operator Validate accepts: >= and <= meet the
\* shorter > and < first, every other alternative meets its own operator.
LEMMA EngineLoads ==
    ASSUME configured \in AlertRule, Valid(configured)
    PROVE  NewEngine(configured) =
             IF configured.op \in {<<">", "=">>, <<"<", "=">>} THEN <<>> ELSE <<configured>>
<1> DEFINE op == configured.op
<1>1. /\ Len(Operators) = 6
      /\ Operators[1] = <<">">> /\ Operators[2] = <<"<">> /\ Operators[3] = <<">", "=">>
      /\ Operators[4] = <<"<", "=">> /\ Operators[5] = <<"=", "=">> /\ Operators[6] = <<"!", "=">>
  BY Zenon DEF Operators
<1>2. op \in {<<">">>, <<"<">>, <<">", "=">>, <<"<", "=">>, <<"=", "=">>, <<"!", "=">>}
  <2>1. PICK k \in 1 .. 6 : op = Operators[k]
    BY Zenon, <1>1 DEF Valid
  <2>2. k = 1 \/ k = 2 \/ k = 3 \/ k = 4 \/ k = 5 \/ k = 6
    OBVIOUS
  <2> QED BY Zenon, <1>1, <2>1, <2>2
<1> HIDE DEF op
<1>3. /\ Len(<<">">>) = 1 /\ Len(<<"<">>) = 1 /\ Len(<<">", "=">>) = 2 /\ Len(<<"<", "=">>) = 2
      /\ Len(<<"=", "=">>) = 2 /\ Len(<<"!", "=">>) = 2
  BY Zenon
<1>4. \A a, b : /\ SubSeq(<<a>>, 1, 1) = <<a>>
                /\ SubSeq(<<a, b>>, 1, 1) = <<a>> /\ SubSeq(<<a, b>>, 1, 2) = <<a, b>>
  <2> TAKE a, b
  <2>1. SubSeq(<<a>>, 1, 1) = [i \in 1 .. 1 |-> a]
    OBVIOUS
  <2>2. SubSeq(<<a, b>>, 1, 1) = [i \in 1 .. 1 |-> a]
    OBVIOUS
  <2>3. SubSeq(<<a, b>>, 1, 2) = [i \in 1 .. 2 |-> IF i = 1 THEN a ELSE b]
    OBVIOUS
  <2>4. <<a>> = [i \in 1 .. 1 |-> a] /\ <<a, b>> = [i \in 1 .. 2 |-> IF i = 1 THEN a ELSE b]
    OBVIOUS
  <2> QED BY Zenon, <2>1, <2>2, <2>3, <2>4
<1>5. /\ <<">">> # <<"<">> /\ <<"=">> # <<">">> /\ <<"=">> # <<"<">> /\ <<"!">> # <<">">> /\ <<"!">> # <<"<">>
      /\ <<"!", "=">> # <<"=", "=">> /\ <<">", "=">> # <<"=", "=">> /\ <<"<", "=">> # <<"=", "=">>
      /\ <<"!", "=">> # <<">", "=">> /\ <<"!", "=">> # <<"<", "=">>
  BY Zenon
<1>6. /\ Fits(1, op) <=> op \in {<<">">>, <<">", "=">>}
      /\ Fits(2, op) <=> op \in {<<"<">>, <<"<", "=">>}
      /\ Fits(3, op) <=> op = <<">", "=">>
      /\ Fits(4, op) <=> op = <<"<", "=">>
      /\ Fits(5, op) <=> op = <<"=", "=">>
      /\ Fits(6, op) <=> op = <<"!", "=">>
  <2>1. CASE op = <<">">>
    BY <1>1, <1>3, <1>4, <1>5, <2>1 DEF Fits
  <2>2. CASE op = <<"<">>
    BY <1>1, <1>3, <1>4, <1>5, <2>2 DEF Fits
  <2>3. CASE op = <<">", "=">>
    BY <1>1, <1>3, <1>4, <1>5, <2>3 DEF Fits
  <2>4. CASE op = <<"<", "=">>
    BY <1>1, <1>3, <1>4, <1>5, <2>4 DEF Fits
  <2>5. CASE op = <<"=", "=">>
    BY <1>1, <1>3, <1>4, <1>5, <2>5 DEF Fits
  <2>6. CASE op = <<"!", "=">>
    BY <1>1, <1>3, <1>4, <1>5, <2>6 DEF Fits
  <2> QED BY Zenon, <1>2, <2>1, <2>2, <2>3, <2>4, <2>5, <2>6
<1> DEFINE chosen == CHOOSE k \in 1 .. Len(Operators) : Fits(k, op) /\ \A j \in 1 .. k - 1 : ~Fits(j, op)
<1>7. NewEngine(configured) =
        IF Len(Operators[chosen]) = Len(op) THEN <<[configured EXCEPT !.op = Operators[chosen]]>> ELSE <<>>
  BY Zenon DEF NewEngine, parseCondition, op
<1>8. ASSUME NEW n \in 1 .. 6, Fits(n, op), \A j \in 1 .. n - 1 : ~Fits(j, op) PROVE chosen = n
  <2>1. chosen \in 1 .. 6 /\ Fits(chosen, op) /\ \A j \in 1 .. chosen - 1 : ~Fits(j, op)
    BY Zenon, <1>1, <1>8
  <2> HIDE DEF chosen
  <2>2. ~(chosen < n) /\ ~(n < chosen)
    BY <1>8, <2>1
  <2> QED BY <2>1, <2>2
<1> HIDE DEF chosen
<1>9. [configured EXCEPT !.op = op] = configured
  BY AlertAssumption DEF op
<1>10. CASE op \in {<<">">>, <<">", "=">>}
  <2>1. chosen = 1
    BY <1>6, <1>8, <1>10
  <2> QED BY Zenon, <1>1, <1>3, <1>5, <1>7, <1>9, <1>10, <2>1 DEF op
<1>11. CASE op \in {<<"<">>, <<"<", "=">>}
  <2>1. chosen = 2
    BY <1>5, <1>6, <1>8, <1>11
  <2> QED BY Zenon, <1>1, <1>3, <1>5, <1>7, <1>9, <1>11, <2>1 DEF op
<1>12. CASE op = <<"=", "=">>
  <2>1. chosen = 5
    BY <1>5, <1>6, <1>8, <1>12
  <2> QED BY Zenon, <1>1, <1>3, <1>5, <1>7, <1>9, <1>12, <2>1 DEF op
<1>13. CASE op = <<"!", "=">>
  <2>1. chosen = 6
    BY <1>5, <1>6, <1>8, <1>13
  <2> QED BY Zenon, <1>1, <1>3, <1>5, <1>7, <1>9, <1>13, <2>1 DEF op
<1> QED BY Zenon, <1>2, <1>10, <1>11, <1>12, <1>13

\* For every rule, metric and history of values: the engine evaluates the rule
\* as configured or, for >= and <=, none, and raises one alert for each time
\* the condition has held for the rule's duration.
THEOREM AlertsCorrect == AlertSpec => []AlertsAsConfigured
<1>1. AlertInit => AlertInv
  BY DEF AlertInit, AlertInv, LoadedAsConfigured
<1>2. AlertInv /\ [AlertNext]_alertVars => AlertInv'
  <2> SUFFICES ASSUME AlertInv, [AlertNext]_alertVars PROVE AlertInv'
    BY Zenon
  <2>1. CASE UNCHANGED alertVars \/ EvaluateNone
    BY Zenon, <2>1 DEF alertVars, EvaluateNone, AlertInv, LoadedAsConfigured, Valid
  <2>2. CASE BuildEngine
    <3>1. loaded' = IF configured.op \in {<<">", "=">>, <<"<", "=">>} THEN <<>> ELSE <<configured>>
      BY Zenon, <2>2, EngineLoads DEF BuildEngine, AlertInv
    <3> QED BY <2>2, <3>1 DEF BuildEngine, AlertInv, LoadedAsConfigured, Valid
  <2>3. CASE AlertClock
    BY <2>3 DEF AlertClock, AlertInv, LoadedAsConfigured, Valid
  <2>4. ASSUME NEW m \in AlertMetric, NEW v \in AlertValue, Evaluate(m, v) PROVE AlertInv'
    <3> DEFINE met == m = loaded[1].metric /\ Met(loaded[1], v)
               new == ConditionMet(met)
               raise == new.s = "firing" /\ state # "firing"
    <3>1. /\ loaded # <<>> /\ state' = new.s /\ triggered' = new.t
          /\ held' = IF ~met THEN 0 ELSE IF held = 0 THEN now ELSE held
          /\ alerts' = IF raise /\ alerts < MaxAlerts THEN alerts + 1
                       ELSE IF ~met THEN 0 ELSE alerts
          /\ raisedAt' = IF raise THEN now ELSE IF ~met THEN 0 ELSE raisedAt
          /\ UNCHANGED <<configured, loaded, now>>
      BY Zenon, <2>4 DEF Evaluate
    <3>2. /\ state \in {"ok", "pending", "firing"} /\ loaded = <<configured>>
          /\ loaded[1].for \in Int
      BY <3>1, AlertAssumption DEF AlertInv, LoadedAsConfigured
    <3>3. \/ state = "ok" /\ met /\ loaded[1].for = 0 /\ new = [s |-> "firing", t |-> triggered]
          \/ state = "ok" /\ met /\ loaded[1].for # 0 /\ new = [s |-> "pending", t |-> now]
          \/ state \in {"pending", "firing"} /\ ~met /\ new = [s |-> "ok", t |-> 0]
          \/ /\ state = "pending" /\ met /\ now - triggered >= loaded[1].for
             /\ new = [s |-> "firing", t |-> triggered]
          \/ /\ (state = "ok" /\ ~met) \/ (state \in {"pending", "firing"} /\ met)
             /\ new = [s |-> state, t |-> triggered]
      BY Zenon, <3>2 DEF ConditionMet
    <3> HIDE DEF met, new
    <3>4. LoadedAsConfigured' /\ configured' \in AlertRule /\ Valid(configured)'
      BY Zenon, <3>1, <3>2, <3>3 DEF AlertInv, LoadedAsConfigured, Valid
    <3>5. CASE state = "ok"
      BY <3>1, <3>2, <3>3, <3>4, <3>5 DEF AlertInv
    <3>6. CASE state = "pending"
      BY <3>1, <3>2, <3>3, <3>4, <3>6 DEF AlertInv
    <3>7. CASE state = "firing"
      BY <3>1, <3>2, <3>3, <3>4, <3>7 DEF AlertInv
    <3> QED BY Zenon, <3>2, <3>5, <3>6, <3>7
  <2> QED BY Zenon, <2>1, <2>2, <2>3, <2>4 DEF AlertNext
<1>3. AlertInv => AlertsAsConfigured
  BY DEF AlertInv, AlertsAsConfigured, AlertMeansHeld, AlertOncePerEpisode
<1> QED BY <1>1, <1>2, <1>3, PTL DEF AlertSpec

-----------------------------------------------------------------------------
(* The HTTP and remote-write outputs *)

\* How far a Write has come is how far its batches are: all before the present
\* one taken, none after it sent, the present one tried once per attempt.
WriteProgress(w) ==
    /\ wpc[w] = "new" => batch[w] = 0 /\ attempt[w] = 0 /\ \A b \in 1 .. Batches : tried[w][b] = 0
    /\ wpc[w] \in {"send", "error"} =>
          /\ batch[w] \in 1 .. LastBatch /\ attempt[w] <= Retries
          /\ \A b \in 1 .. Batches : b < batch[w] => stored[w][b] >= 1
          /\ \A b \in 1 .. Batches : b > batch[w] => tried[w][b] = 0
          /\ tried[w][batch[w]] = IF wpc[w] = "send" THEN attempt[w] ELSE Retries + 1
    /\ wpc[w] = "nil" => \A b \in 1 .. LastBatch : stored[w][b] >= 1

OutputTypeOK ==
    /\ output \in {"http", "promrw"}
    /\ wpc \in [Writer -> {"new", "send", "nil", "error"}]
    /\ batch \in [Writer -> Nat] /\ attempt \in [Writer -> Nat]
    /\ stored \in [Writer -> [1 .. Batches -> Nat]]
    /\ tried \in [Writer -> [1 .. Batches -> Nat]]

OutputInv == OutputTypeOK /\ \A w \in Writer : WriteProgress(w)

\* Whatever the output, there is a batch to send and none past the last.
LEMMA OutputLimits ==
    OutputTypeOK => LastBatch \in 1 .. Batches /\ Retries \in Nat
BY OutputAssumption DEF OutputTypeOK, LastBatch, Retries

\* Counting one more for one batch of one writer.
LEMMA CountsOneMore ==
    ASSUME NEW f \in [Writer -> [1 .. Batches -> Nat]], NEW w \in Writer, NEW b \in 1 .. Batches
    PROVE  LET g == [f EXCEPT ![w][b] = @ + 1] IN
           /\ g \in [Writer -> [1 .. Batches -> Nat]] /\ g[w][b] = f[w][b] + 1
           /\ \A c \in 1 .. Batches : c # b => g[w][c] = f[w][c]
           /\ \A v \in Writer \ {w} : g[v] = f[v]
<1> DEFINE row == [f[w] EXCEPT ![b] = f[w][b] + 1]
<1>1. f[w] \in [1 .. Batches -> Nat] /\ f[w][b] + 1 \in Nat
  BY OutputAssumption
<1>2. row \in [1 .. Batches -> Nat] /\ row[b] = f[w][b] + 1
      /\ \A c \in 1 .. Batches : c # b => row[c] = f[w][c]
  BY Zenon, <1>1
<1>3. [f EXCEPT ![w][b] = @ + 1] = [f EXCEPT ![w] = row]
  BY Zenon
<1> HIDE DEF row
<1> QED BY Zenon, <1>2, <1>3

\* A request that was answered well was taken.
LEMMA OkIsTaken == \A r \in doRequest : r.ok => r.taken
BY DEF doRequest

\* An attempt moves the Write it belongs to and keeps its batches in step.
LEMMA SendKeeps ==
    ASSUME OutputInv, NEW w \in Writer, sendBatch(w) PROVE OutputInv'
<1>0. Batches \in Nat
  BY Zenon, OutputAssumption
<1>1. /\ OutputTypeOK /\ WriteProgress(w) /\ wpc[w] = "send"
      /\ LastBatch \in 1 .. Batches /\ Retries \in Nat
      /\ output' = output
  BY Zenon, OutputLimits DEF OutputInv, sendBatch
<1>2. /\ batch[w] \in 1 .. LastBatch /\ attempt[w] \in Nat /\ attempt[w] <= Retries
      /\ batch[w] \in 1 .. Batches
      /\ \A b \in 1 .. Batches : b < batch[w] => stored[w][b] >= 1
      /\ \A b \in 1 .. Batches : b > batch[w] => tried[w][b] = 0
      /\ tried[w][batch[w]] = attempt[w]
  BY <1>0, <1>1 DEF WriteProgress, OutputTypeOK
<1>3. LastBatch' = LastBatch /\ Retries' = Retries
  BY Zenon, <1>0, <1>1 DEF LastBatch, Retries
<1>4. PICK r \in doRequest :
          /\ Sent(w, r)
          /\ IF r.ok
             THEN /\ attempt' = [attempt EXCEPT ![w] = 0]
                  /\ batch' = [batch EXCEPT ![w] = @ + 1]
                  /\ wpc' = IF batch[w] = LastBatch THEN [wpc EXCEPT ![w] = "nil"] ELSE wpc
             ELSE IF attempt[w] < Retries
             THEN attempt' = [attempt EXCEPT ![w] = @ + 1] /\ UNCHANGED <<wpc, batch>>
             ELSE wpc' = [wpc EXCEPT ![w] = "error"] /\ UNCHANGED <<batch, attempt>>
  BY Zenon DEF sendBatch
<1>5. r.ok => r.taken
  BY Zenon, OkIsTaken
<1>6. /\ tried' \in [Writer -> [1 .. Batches -> Nat]] /\ stored' \in [Writer -> [1 .. Batches -> Nat]]
      /\ tried'[w][batch[w]] = attempt[w] + 1
      /\ r.taken => stored'[w][batch[w]] >= 1
      /\ \A b \in 1 .. Batches : b # batch[w] => tried'[w][b] = tried[w][b] /\ stored'[w][b] = stored[w][b]
      /\ \A v \in Writer \ {w} : tried'[v] = tried[v] /\ stored'[v] = stored[v]
  <2>1. /\ tried \in [Writer -> [1 .. Batches -> Nat]] /\ stored \in [Writer -> [1 .. Batches -> Nat]]
        /\ tried' = [tried EXCEPT ![w][batch[w]] = @ + 1]
        /\ stored' = IF r.taken THEN [stored EXCEPT ![w][batch[w]] = @ + 1] ELSE stored
    BY Zenon, <1>0, <1>1, <1>4 DEF OutputTypeOK, Sent
  <2>2. /\ tried' \in [Writer -> [1 .. Batches -> Nat]]
        /\ tried'[w][batch[w]] = attempt[w] + 1
        /\ \A b \in 1 .. Batches : b # batch[w] => tried'[w][b] = tried[w][b]
        /\ \A v \in Writer \ {w} : tried'[v] = tried[v]
    BY <1>2, <2>1, CountsOneMore
  <2>3. /\ stored' \in [Writer -> [1 .. Batches -> Nat]]
        /\ r.taken => stored'[w][batch[w]] >= 1
        /\ \A b \in 1 .. Batches : b # batch[w] => stored'[w][b] = stored[w][b]
        /\ \A v \in Writer \ {w} : stored'[v] = stored[v]
    <3>1. CASE ~r.taken
      BY Zenon, <2>1, <3>1
    <3>2. CASE r.taken
      <4>1. stored' = [stored EXCEPT ![w][batch[w]] = @ + 1] /\ stored[w][batch[w]] \in Nat
        BY Zenon, <1>0, <1>2, <2>1, <3>2
      <4>2. /\ stored' \in [Writer -> [1 .. Batches -> Nat]]
            /\ stored'[w][batch[w]] = stored[w][batch[w]] + 1
            /\ \A b \in 1 .. Batches : b # batch[w] => stored'[w][b] = stored[w][b]
            /\ \A v \in Writer \ {w} : stored'[v] = stored[v]
        BY <1>2, <2>1, <4>1, CountsOneMore
      <4> QED BY <4>1, <4>2
    <3> QED BY Zenon, <3>1, <3>2
  <2> QED BY Zenon, <2>2, <2>3
<1>7. /\ wpc' \in [Writer -> {"new", "send", "nil", "error"}]
      /\ batch' \in [Writer -> Nat] /\ attempt' \in [Writer -> Nat]
      /\ \A v \in Writer \ {w} : wpc'[v] = wpc[v] /\ batch'[v] = batch[v] /\ attempt'[v] = attempt[v]
  <2>1. wpc \in [Writer -> {"new", "send", "nil", "error"}] /\ batch \in [Writer -> Nat]
        /\ attempt \in [Writer -> Nat]
    BY Zenon, <1>1 DEF OutputTypeOK
  <2>2. CASE r.ok
    BY <1>2, <1>4, <2>1, <2>2
  <2>3. CASE ~r.ok /\ attempt[w] < Retries
    BY <1>2, <1>4, <2>1, <2>3
  <2>4. CASE ~r.ok /\ ~(attempt[w] < Retries)
    BY Zenon, <1>2, <1>4, <2>1, <2>4
  <2> QED BY Zenon, <2>2, <2>3, <2>4
<1>8. ASSUME NEW v \in Writer \ {w} PROVE WriteProgress(v)'
  <2>1. /\ tried'[v] = tried[v] /\ stored'[v] = stored[v]
        /\ wpc'[v] = wpc[v] /\ batch'[v] = batch[v] /\ attempt'[v] = attempt[v]
    BY Zenon, <1>6, <1>7
  <2>2. WriteProgress(v)
    BY Zenon DEF OutputInv
  <2> QED BY Zenon, <1>3, <2>1, <2>2 DEF WriteProgress
<1>9. /\ \A b \in 1 .. Batches : b < batch[w] => stored'[w][b] >= 1
      /\ \A b \in 1 .. Batches : b > batch[w] => tried'[w][b] = 0
  <2> SUFFICES ASSUME NEW b \in 1 .. Batches
               PROVE  (b < batch[w] => stored'[w][b] >= 1) /\ (b > batch[w] => tried'[w][b] = 0)
    BY Zenon
  <2>1. b # batch[w] => tried'[w][b] = tried[w][b] /\ stored'[w][b] = stored[w][b]
    BY Zenon, <1>6
  <2>2. (b < batch[w] => stored[w][b] >= 1) /\ (b > batch[w] => tried[w][b] = 0)
    BY Zenon, <1>2
  <2> QED BY <1>0, <1>2, <2>1, <2>2
<1>10. WriteProgress(w)'
  <2>0. wpc \in [Writer -> {"new", "send", "nil", "error"}] /\ batch \in [Writer -> Nat] /\ attempt \in [Writer -> Nat]
    BY Zenon, <1>0, <1>1 DEF OutputTypeOK
  <2>1. CASE r.ok /\ batch[w] = LastBatch
    <3>1. wpc'[w] = "nil"
      BY Zenon, <1>0, <1>4, <2>0, <2>1
    <3>2. ASSUME NEW b \in 1 .. LastBatch PROVE stored'[w][b] >= 1
      <4>1. b \in 1 .. Batches /\ (b < batch[w] \/ b = batch[w])
        BY <1>0, <1>1, <1>2, <2>1
      <4>2. CASE b = batch[w]
        BY Zenon, <1>5, <1>6, <2>1, <4>2
      <4>3. CASE b < batch[w]
        <5>1. b # batch[w] /\ stored[w][b] >= 1
          BY <1>0, <1>2, <4>1, <4>3
        <5> QED BY Zenon, <1>6, <4>1, <5>1
      <4> QED BY Zenon, <4>1, <4>2, <4>3
    <3> QED BY Zenon, <1>3, <3>1, <3>2 DEF WriteProgress
  <2>2. CASE r.ok /\ batch[w] # LastBatch
    <3>1. wpc'[w] = "send" /\ batch'[w] = batch[w] + 1 /\ attempt'[w] = 0
      BY Zenon, <1>0, <1>1, <1>4, <2>0, <2>2
    <3>2. ASSUME NEW b \in 1 .. Batches, b < batch[w] + 1 PROVE stored'[w][b] >= 1
      <4>1. CASE b = batch[w]
        BY Zenon, <1>5, <1>6, <2>2, <4>1
      <4>2. CASE b # batch[w]
        <5>1. b < batch[w] /\ stored[w][b] >= 1
          BY <1>0, <1>2, <3>2, <4>2
        <5> QED BY Zenon, <1>6, <4>2, <5>1
      <4> QED BY Zenon, <4>1, <4>2
    <3>3. batch[w] + 1 \in 1 .. LastBatch /\ batch[w] + 1 \in 1 .. Batches
      BY <1>0, <1>1, <1>2, <2>2
    <3>4. tried'[w][batch[w] + 1] = 0 /\ \A b \in 1 .. Batches : b > batch[w] + 1 => tried'[w][b] = 0
      <4>1. tried'[w][batch[w] + 1] = 0
        <5>1. batch[w] + 1 # batch[w] /\ batch[w] + 1 > batch[w]
          BY <1>0, <1>2
        <5> QED BY Zenon, <1>2, <1>6, <3>3, <5>1
      <4>2. ASSUME NEW b \in 1 .. Batches, b > batch[w] + 1 PROVE tried'[w][b] = 0
        <5>1. b # batch[w] /\ b > batch[w]
          BY <1>0, <1>2, <4>2
        <5> QED BY Zenon, <1>2, <1>6, <5>1
      <4> QED BY Zenon, <4>1, <4>2
    <3> QED BY <1>0, <1>1, <1>3, <3>1, <3>2, <3>3, <3>4 DEF WriteProgress
  <2>3. CASE ~r.ok /\ attempt[w] < Retries
    <3>1. wpc'[w] = "send" /\ batch'[w] = batch[w] /\ attempt'[w] = attempt[w] + 1
      BY Zenon, <1>0, <1>1, <1>4, <2>0, <2>3
    <3>2. /\ \A b \in 1 .. Batches : b < batch[w] => stored'[w][b] >= 1
          /\ \A b \in 1 .. Batches : b > batch[w] => tried'[w][b] = 0
      BY Zenon, <1>9
    <3>3. tried'[w][batch[w]] = attempt[w] + 1 /\ attempt'[w] <= Retries
      BY <1>1, <1>2, <1>6, <2>3, <3>1
    <3> QED BY Zenon, <1>1, <1>2, <1>3, <3>1, <3>2, <3>3 DEF WriteProgress
  <2>4. CASE ~r.ok /\ ~(attempt[w] < Retries)
    <3>1. wpc'[w] = "error" /\ batch'[w] = batch[w] /\ attempt'[w] = attempt[w] /\ attempt[w] = Retries
      BY <1>0, <1>1, <1>2, <1>4, <2>0, <2>4
    <3>2. /\ \A b \in 1 .. Batches : b < batch[w] => stored'[w][b] >= 1
          /\ \A b \in 1 .. Batches : b > batch[w] => tried'[w][b] = 0
      BY Zenon, <1>9
    <3>3. tried'[w][batch[w]] = attempt[w] + 1 /\ attempt'[w] <= Retries
      BY Zenon, <1>1, <1>2, <1>6, <2>4, <3>1
    <3> QED BY Zenon, <1>1, <1>2, <1>3, <3>1, <3>2, <3>3 DEF WriteProgress
  <2> QED BY Zenon, <2>1, <2>2, <2>3, <2>4
<1> QED BY Zenon, <1>1, <1>6, <1>7, <1>8, <1>10 DEF OutputInv, OutputTypeOK

\* For any number of batches, retries and writers: nil means that every batch
\* was taken, and an error says which batch was not.
THEOREM WriteCorrect == OutputSpec => []WriteOutcome
<1>1. OutputInit => OutputInv
  BY OutputAssumption DEF OutputInit, OutputInv, OutputTypeOK, WriteProgress
<1>2. OutputInv /\ [OutputNext]_outputVars => OutputInv'
  <2> SUFFICES ASSUME OutputInv, [OutputNext]_outputVars PROVE OutputInv'
    BY Zenon
  <2>1. CASE UNCHANGED outputVars \/ CancelContext
    BY <2>1 DEF outputVars, CancelContext, OutputInv, OutputTypeOK, WriteProgress, LastBatch, Retries
  <2>2. ASSUME NEW w \in Writer, WriteBegins(w) PROVE OutputInv'
    <3>1. /\ OutputTypeOK /\ wpc[w] = "new" /\ LastBatch \in 1 .. Batches /\ Retries \in Nat
          /\ attempt[w] = 0 /\ (\A b \in 1 .. Batches : tried[w][b] = 0)
          /\ wpc' = [wpc EXCEPT ![w] = "send"] /\ batch' = [batch EXCEPT ![w] = 1]
          /\ UNCHANGED <<output, attempt, stored, tried>>
      BY Zenon, <2>2, OutputLimits DEF OutputInv, WriteBegins, WriteProgress
    <3>2. LastBatch' = LastBatch /\ Retries' = Retries
      BY Zenon, <3>1 DEF LastBatch, Retries
    <3>3. OutputTypeOK' /\ wpc'[w] = "send" /\ batch'[w] = 1
          /\ \A v \in Writer \ {w} : wpc'[v] = wpc[v] /\ batch'[v] = batch[v]
      BY Zenon, <3>1 DEF OutputTypeOK
    <3>4. \A v \in Writer \ {w} : WriteProgress(v)'
      BY <3>1, <3>2, <3>3 DEF OutputInv, WriteProgress
    <3>5. WriteProgress(w)'
      BY OutputAssumption, <3>1, <3>2, <3>3 DEF WriteProgress
    <3> QED BY Zenon, <3>3, <3>4, <3>5 DEF OutputInv
  <2> QED BY Zenon, <2>1, <2>2, SendKeeps DEF OutputNext
<1>3. OutputInv => WriteOutcome
  <2> SUFFICES ASSUME OutputInv, NEW w \in Writer
               PROVE  /\ wpc[w] = "nil" => \A b \in 1 .. LastBatch : stored[w][b] >= 1
                      /\ wpc[w] = "error" =>
                             /\ \A b \in 1 .. batch[w] - 1 : stored[w][b] >= 1
                             /\ \A b \in batch[w] + 1 .. Batches : tried[w][b] = 0
                             /\ tried[w][batch[w]] = Retries + 1
    BY Zenon DEF WriteOutcome
  <2>1. WriteProgress(w) /\ LastBatch \in 1 .. Batches /\ batch[w] \in Nat /\ Batches \in Nat
    BY Zenon, OutputLimits, OutputAssumption DEF OutputInv, OutputTypeOK
  <2> QED BY <2>1 DEF WriteProgress
<1> QED BY <1>1, <1>2, <1>3, PTL DEF OutputSpec

-----------------------------------------------------------------------------
(* The aggregators *)

\* The metrics that have been added.
Added == IF feeding THEN Len(metrics) - 1 ELSE Len(metrics)

AggTypeOK ==
    /\ metrics \in Seq(AggValue) /\ Len(metrics) <= MaxMetrics
    /\ feeding => metrics # <<>>
    /\ win \in Seq(1 .. Added)
    /\ pushed \in [1 .. MaxMetrics -> {0, 1}]
    /\ psh \in {"wait", "reset", "lastreset", "over"}

\* Where a metric can be, by the place the pushing goroutine is at.
Placed(m) ==
    /\ m > Added => pushed[m] = 0
    /\ psh = "wait" /\ m \in Range(win) => pushed[m] = 0
    /\ psh # "wait" /\ m \in Range(win) => pushed[m] = 1 \/ m \in gap
    /\ (m <= Added /\ Numeric(metrics[m]) /\ pushed[m] = 0 /\ m \notin Range(win)) => m \in gap

AggInv == AggTypeOK /\ \A m \in 1 .. MaxMetrics : Placed(m)

\* Every metric gathered, however the pushes fall between the additions, is
\* counted in at most one push and goes uncounted only when it was added
\* between a Push and its Reset or after the last push.
THEOREM CountedCorrect == AggSpec => []CountedOnce
<1>1. AggInit => AggInv
  <2> SUFFICES ASSUME AggInit PROVE AggInv
    BY Zenon
  <2>1. Len(metrics) = 0 /\ Added = 0 /\ Range(win) = {}
    BY DEF AggInit, Added, Range
  <2>2. win \in Seq(1 .. Added) /\ metrics \in Seq(AggValue)
    BY DEF AggInit
  <2>3. AggTypeOK
    BY <2>1, <2>2, AggAssumption DEF AggInit, AggTypeOK
  <2>4. \A m \in 1 .. MaxMetrics : Placed(m)
    BY <2>1 DEF AggInit, Placed
  <2> QED BY Zenon, <2>3, <2>4 DEF AggInv
<1>2. AggInv /\ [AggNext]_aggVars => AggInv'
  <2> SUFFICES ASSUME AggInv, [AggNext]_aggVars PROVE AggInv'
    BY Zenon
  <2>1. /\ Len(metrics) \in Nat /\ Added \in Nat /\ MaxMetrics \in Nat
        /\ metrics \in Seq(AggValue) /\ win \in Seq(1 .. Added)
        /\ feeding => Len(metrics) # 0
    BY AggAssumption DEF AggInv, AggTypeOK, Added
  <2>2. CASE UNCHANGED aggVars \/ CancelAgg
    <3>1. UNCHANGED <<metrics, feeding, win, pushed, psh, gap>>
      BY Zenon, <2>2 DEF aggVars, CancelAgg
    <3> QED BY Zenon, <3>1 DEF AggInv, AggTypeOK, Placed, Added
  <2>3. CASE GatherMetric
    <3>1. PICK x \in AggValue : metrics' = Append(metrics, x)
      BY Zenon, <2>3 DEF GatherMetric
    <3>2. /\ ~feeding /\ feeding' /\ Len(metrics) < MaxMetrics
          /\ UNCHANGED <<win, pushed, gap, psh>>
      BY Zenon, <2>3 DEF GatherMetric
    <3>3. /\ Len(metrics') = Len(metrics) + 1 /\ metrics' \in Seq(AggValue) /\ metrics' # <<>>
          /\ \A m \in 1 .. Len(metrics) : metrics'[m] = metrics[m]
          /\ Added = Len(metrics)
      BY <2>1, <3>1, <3>2 DEF Added
    <3>4. Added' = Added
      BY <2>1, <3>2, <3>3 DEF Added
    <3>5. AggTypeOK'
      BY <2>1, <3>2, <3>3, <3>4 DEF AggInv, AggTypeOK
    <3>6. ASSUME NEW m \in 1 .. MaxMetrics PROVE Placed(m)'
      <4>1. Placed(m) /\ (m <= Added => metrics'[m] = metrics[m])
        BY <2>1, <3>3 DEF AggInv
      <4> QED BY Zenon, <3>2, <3>4, <4>1 DEF Placed
    <3> QED BY Zenon, <3>5, <3>6 DEF AggInv
  <2>4. CASE FeedAggregator
    <3> DEFINE e == Len(metrics)
    <3>1. /\ feeding /\ ~feeding' /\ UNCHANGED <<metrics, pushed, psh>>
          /\ win' = IF Numeric(metrics[e]) THEN Append(win, e) ELSE win
          /\ gap' = IF Numeric(metrics[e]) /\ InGap THEN gap \cup {e} ELSE gap
      BY Zenon, <2>4 DEF FeedAggregator
    <3>2. Added = e - 1 /\ Added' = e /\ e \in 1 .. MaxMetrics /\ e \in Nat
      BY <2>1, <3>1 DEF Added, AggInv, AggTypeOK
    <3> HIDE DEF e
    <3>3. win \in Seq(1 .. e)
      BY <2>1, <3>2
    <3>4. win' \in Seq(1 .. e)
          /\ Range(win') = IF Numeric(metrics[e]) THEN Range(win) \cup {e} ELSE Range(win)
      <4>1. CASE Numeric(metrics[e])
        <5> DEFINE w == Append(win, e)
        <5>1. win' = w /\ w \in Seq(1 .. e) /\ Len(w) = Len(win) + 1 /\ w[Len(win) + 1] = e
              /\ (\A k \in 1 .. Len(win) : w[k] = win[k]) /\ Len(win) \in Nat
              /\ DOMAIN win = 1 .. Len(win) /\ DOMAIN w = 1 .. Len(win) + 1
          BY <3>1, <3>2, <3>3, <4>1
        <5> HIDE DEF w
        <5>2. \A k \in 1 .. Len(win) + 1 : k \in 1 .. Len(win) \/ k = Len(win) + 1
          BY <5>1
        <5>3. Range(w) = Range(win) \cup {e}
          BY <5>1, <5>2 DEF Range
        <5> QED BY Zenon, <4>1, <5>1, <5>3
      <4>2. CASE ~Numeric(metrics[e])
        BY Zenon, <3>1, <3>3, <4>2
      <4> QED BY Zenon, <4>1, <4>2
    <3>5. AggTypeOK'
      BY Zenon, <3>1, <3>2, <3>4 DEF AggInv, AggTypeOK
    <3>6. ASSUME NEW m \in 1 .. MaxMetrics PROVE Placed(m)'
      <4>1. Placed(m) /\ psh \in {"wait", "reset", "lastreset", "over"}
        BY Zenon DEF AggInv, AggTypeOK
      <4>2. CASE m = e
        <5>1. pushed[m] = 0
          BY <2>1, <3>2, <4>1, <4>2 DEF Placed
        <5> QED BY Zenon, <3>1, <3>2, <3>4, <4>1, <4>2, <5>1 DEF Placed, InGap
      <4>3. CASE m # e
        <5>1. m > Added' => m > Added
          BY <2>1, <3>2
        <5>2. m <= Added' => m <= Added
          BY <2>1, <3>2, <4>3
        <5>3. m \in Range(win') <=> m \in Range(win)
          BY Zenon, <3>4, <4>3
        <5> QED BY Zenon, <3>1, <4>1, <4>3, <5>1, <5>2, <5>3 DEF Placed
      <4> QED BY Zenon, <4>2, <4>3
    <3> QED BY Zenon, <3>5, <3>6 DEF AggInv
  <2>5. CASE Push
    <3>1. /\ psh = "wait" /\ UNCHANGED <<metrics, win, gap, feeding>>
          /\ psh' \in {"reset", "lastreset"}
          /\ pushed' = [m \in 1 .. MaxMetrics |-> IF m \in Range(win) THEN pushed[m] + 1 ELSE pushed[m]]
      BY Zenon, <2>5 DEF Push
    <3>2. Added' = Added
      BY Zenon, <3>1 DEF Added
    <3>3. ASSUME NEW m \in 1 .. MaxMetrics
          PROVE  Placed(m)' /\ pushed'[m] \in {0, 1}
      <4>1. /\ Placed(m) /\ pushed[m] \in {0, 1}
            /\ pushed'[m] = IF m \in Range(win) THEN pushed[m] + 1 ELSE pushed[m]
        BY Zenon, <3>1 DEF AggInv, AggTypeOK
      <4>2. m > Added => m \notin Range(win)
        BY <2>1 DEF Range
      <4> QED BY <3>1, <3>2, <4>1, <4>2 DEF Placed
    <3>4. AggTypeOK'
      <4>1. pushed' \in [1 .. MaxMetrics -> {0, 1}]
        BY Zenon, <3>1, <3>3
      <4> QED BY Zenon, <3>1, <3>2, <4>1 DEF AggInv, AggTypeOK
    <3> QED BY Zenon, <3>3, <3>4 DEF AggInv
  <2>6. CASE Reset \/ DropRest
    <3>1. /\ psh # "wait" /\ win' = <<>> /\ UNCHANGED <<metrics, pushed, gap, feeding>>
          /\ psh' \in {"wait", "over"}
      BY Zenon, <2>6 DEF Reset, ResetDone, DropRest
    <3>2. Added' = Added /\ Range(win') = {} /\ win' \in Seq(1 .. Added)
      BY <3>1 DEF Added, Range
    <3>3. AggTypeOK'
      BY Zenon, <3>1, <3>2 DEF AggInv, AggTypeOK
    <3>4. ASSUME NEW m \in 1 .. MaxMetrics PROVE Placed(m)'
      BY <3>1, <3>2 DEF AggInv, Placed
    <3> QED BY Zenon, <3>3, <3>4 DEF AggInv
  <2> QED BY Zenon, <2>2, <2>3, <2>4, <2>5, <2>6 DEF AggNext
<1>3. AggInv => CountedOnce
  <2> SUFFICES ASSUME AggInv, NEW m \in 1 .. Len(metrics)
               PROVE  /\ pushed[m] + (IF m \in Range(win) /\ ~InGap THEN 1 ELSE 0) <= 1
                      /\ (/\ m < Len(metrics) \/ ~feeding
                          /\ Numeric(metrics[m]) /\ pushed[m] = 0 /\ m \notin Range(win))
                            => m \in gap
    BY Zenon DEF CountedOnce
  <2>1. /\ Len(metrics) \in Nat /\ MaxMetrics \in Nat /\ m \in 1 .. MaxMetrics
        /\ pushed[m] \in {0, 1} /\ Placed(m) /\ psh \in {"wait", "reset", "lastreset", "over"}
    BY AggAssumption DEF AggInv, AggTypeOK
  <2>2. m < Len(metrics) \/ ~feeding => m <= Added
    BY <2>1 DEF Added
  <2> QED BY <2>1, <2>2 DEF Placed, InGap
<1> QED BY <1>1, <1>2, <1>3, PTL DEF AggSpec

=============================================================================
