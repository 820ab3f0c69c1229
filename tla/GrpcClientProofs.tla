-------------------------- MODULE GrpcClientProofs --------------------------
(***************************************************************************)
(* Proofs about GrpcClient, for every size of the cache and of a batch and *)
(* any number of metrics and streams.                                      *)
(***************************************************************************)
EXTENDS GrpcClient, SequenceTheorems, FiniteSetTheorems, FunctionTheorems,
        TLAPS

\* The prover of every leaf that names none.
USE SMTT(30)

-----------------------------------------------------------------------------
\* connectLoop holds metrics exactly while it replays, and a stream where it
\* uses one.
LoopOK ==
    /\ loop.pc \in {"replayStream", "replay", "recache"} <=> loop.held # << >>
    /\ loop.pc \in {"register", "publish", "replay", "recv"} => loop.s # NoStream

\* So does the agent's goroutine while it sends and flushes, and nothing is in
\* the persist file before.
AppOK ==
    /\ app.pc \in {"send", "add", "flushStream", "flush", "persist"} => app.held # << >>
    /\ app.pc \notin {"send", "add", "cancel", "flushStream", "flush", "persist"}
         => app.held = << >>
    /\ app.pc \in {"send", "flush"} => app.s # NoStream
    /\ app.pc \notin {"flushClose", "wait", "done"} => file = << >>

\* Every stream a sender can find has been registered on, and the one connect
\* registers on has carried nothing.
Registered ==
    /\ \A s \in Stream : link[s] = "unused" => first[s] = "none"
    /\ cur # NoStream => first[cur] = "registration"
    /\ hbs # NoStream => first[hbs] = "registration"
    /\ oth # NoStream => first[oth] = "registration"
    /\ app.s # NoStream => first[app.s] = "registration"
    /\ loop.s # NoStream =>
         first[loop.s] = IF loop.pc = "register" THEN "none" ELSE "registration"
    /\ hb = "send" => hbs # NoStream

\* What connectLoop knows of c.connected on its way to and from the callback.
Reported ==
    /\ loop.pc \in {"notifyDown", "close"} => ~connected
    /\ app.pc \in Serving /\ loop.pc = "notifyUp" => connected

\* The heartbeat lives within messageLoop, and the last steps of a stop follow
\* the end of connectLoop.
Ended ==
    /\ hb # "off" =>
         loop.pc \in {"check", "snap", "recv", "disc", "notifyDown", "close", "endloop"}
    /\ app.pc \in {"done", "stopClose", "stopped"} => loop.pc = "exit"

\* Only a flush closes the connection between Publish and the replay: otherwise
\* the replay finds a stream and drops nothing.
Kept ==
    /\ app.pc \in Serving \cup {"stopWait", "stopClose", "stopped"} => lost = {}
    /\ app.pc \in Serving \cup {"stopWait"} /\ loop.pc \in {"notifyUp", "drain", "replayStream"}
         => cur # NoStream

\* Where metric m is, as a sum.
Places(m) ==
    Occurrences(cache, m) + Occurrences(loop.held, m) + Occurrences(app.held, m)
      + Occurrences(file, m) + sent[m] + Count(m \in evicted) + Count(m \in lost)

\* Every submitted metric is in one place and every other metric in none.
Balanced == \A m \in Metric : Places(m) = Count(m <= submitted)

\* The inductive invariant for the control, ...
Control ==
    /\ TypeOK /\ LoopOK /\ AppOK /\ Registered /\ Reported /\ Ended /\ Kept
    /\ RegistrationFirst /\ GaugeFollows /\ NoGoroutineLeft /\ StopDisconnects

\* ... and with the metrics.
ClientInv == Control /\ Balanced

-----------------------------------------------------------------------------
(* Sequences of metrics *)

\* The lengths of a sequence's remainders.
LEMMA TailType ==
    ASSUME NEW s \in Seq(Metric), s # << >>
    PROVE  /\ Head(s) \in Metric /\ Tail(s) \in Seq(Metric)
           /\ Len(s) \in Nat \ {0} /\ Len(Tail(s)) = Len(s) - 1
           /\ Len(s) # 1 => Tail(s) # << >>
<1>1. Head(s) \in Metric /\ Tail(s) \in Seq(Metric) /\ Len(Tail(s)) = Len(s) - 1
  BY Zenon, HeadTailProperties
<1>2. Len(s) \in Nat \ {0} /\ Len(<< >>) = 0
  BY Zenon, EmptySeq
<1>3. ASSUME Tail(s) = << >> PROVE Len(s) = 1
  <2> DEFINE n == Len(Tail(s))
  <2>1. n = 0
    BY <1>2, <1>3, Zenon
  <2>2. n = Len(s) - 1
    BY Zenon, <1>1
  <2> HIDE DEF n
  <2> QED BY <1>2, <2>1, <2>2
<1> QED BY <1>1, <1>2, <1>3, Zenon

\* What replayCache has left after a full batch is not empty and no longer.
LEMMA AfterBatchType ==
    ASSUME NEW s \in Seq(Metric), ~(Len(s) <= BatchSize)
    PROVE  /\ AfterBatch(s) \in Seq(Metric) /\ AfterBatch(s) # << >>
           /\ Len(AfterBatch(s)) <= Len(s)
<1>0. BatchSize \in Nat \ {0} /\ Len(s) \in Nat
  BY Zenon, BoundAssumption, LenProperties
<1>1. \A i \in BatchSize + 1 .. Len(s) : s[i] \in Metric
  BY <1>0, ElementOfSeq
<1>2. /\ AfterBatch(s) \in Seq(Metric)
      /\ Len(AfterBatch(s)) =
           IF BatchSize + 1 <= Len(s) THEN Len(s) - (BatchSize + 1) + 1 ELSE 0
  BY <1>0, <1>1, SubSeqProperties DEF AfterBatch
<1>3. Len(<< >>) = 0
  BY Zenon, EmptySeq
<1> QED BY <1>0, <1>2, <1>3

\* The cache never outgrows its limit.
LEMMA PushType ==
    ASSUME NEW s \in Seq(Metric), Len(s) <= CacheMaxSize, NEW m \in Metric
    PROVE  Fifo!Push(s, m) \in Seq(Metric) /\ Len(Fifo!Push(s, m)) <= CacheMaxSize
<1>0. CacheMaxSize \in Nat \ {0} /\ Len(s) \in Nat /\ Len(<< >>) = 0
  BY Zenon, BoundAssumption, LenProperties, EmptySeq
<1>1. CASE Len(s) = CacheMaxSize
  <2>1. s # << >>
    BY Zenon, <1>0, <1>1
  <2>2. Tail(s) \in Seq(Metric) /\ Len(Tail(s)) = Len(s) - 1
    BY Zenon, <2>1, TailType
  <2>3. Append(Tail(s), m) \in Seq(Metric) /\ Len(Append(Tail(s), m)) = Len(Tail(s)) + 1
    BY Zenon, <2>2, AppendProperties
  <2> QED BY <1>0, <1>1, <2>2, <2>3 DEF Fifo!Push
<1>2. CASE Len(s) # CacheMaxSize
  <2>1. Append(s, m) \in Seq(Metric) /\ Len(Append(s, m)) = Len(s) + 1
    BY Zenon, AppendProperties
  <2> QED BY <1>0, <1>2, <2>1 DEF Fifo!Push
<1> QED BY Zenon, <1>1, <1>2

\* The metrics of one SendMetrics call.
LEMMA FreshType ==
    ASSUME NEW n \in Nat, NEW k \in 1 .. MaxBatch, n + k <= MaxMetrics
    PROVE  /\ [i \in 1 .. k |-> n + i] \in Seq(Metric)
           /\ [i \in 1 .. k |-> n + i] # << >>
<1>1. k \in Nat \ {0} /\ MaxMetrics \in Nat
  BY BoundAssumption
<1>2. \A i \in 1 .. k : n + i \in Metric
  BY <1>1 DEF Metric
<1>3. [i \in 1 .. k |-> n + i] \in Seq(Metric) /\ Len([i \in 1 .. k |-> n + i]) = k
  BY <1>1, <1>2
<1> QED BY Zenon, <1>1, <1>3, EmptySeq

-----------------------------------------------------------------------------
(* Types *)

\* NewClient and Start establish Control.
LEMMA Starts == Init => Control
<1> SUFFICES ASSUME Init PROVE Control
  BY Zenon
<1> USE DEF Init, Start, LoopStart, AppStart
<1>1. << >> \in Seq(Metric) /\ Len(<< >>) = 0
  BY Zenon, EmptySeq
<1>2. connected \in BOOLEAN /\ gauge \in BOOLEAN /\ ctxDone \in BOOLEAN
  BY Zenon
<1>3. loop \in [pc : LoopPC, inner : BOOLEAN, s : Stream \cup {NoStream},
               held : Seq(Metric), err : BOOLEAN]
  BY Zenon, <1>1 DEF LoopPC
<1>4. app \in [pc : AppPC, s : Stream \cup {NoStream}, held : Seq(Metric)]
  BY Zenon, <1>1 DEF AppPC, Serving
<1>5. TypeOK
  BY <1>1, <1>2, <1>3, <1>4, BoundAssumption DEF TypeOK
<1> QED
  BY Zenon, <1>5 DEF Control, LoopOK, AppOK, Registered, Reported, Ended, Kept, RegistrationFirst,
     GaugeFollows, NoGoroutineLeft, StopDisconnects, Serving

\* connectLoop's record keeps its type.
LEMMA LoopStep ==
    ASSUME TypeOK, LoopOK, LoopRun \/ Recv
    PROVE  /\ loop' \in [pc : LoopPC, inner : BOOLEAN, s : Stream \cup {NoStream},
                         held : Seq(Metric), err : BOOLEAN]
           /\ Len(loop'.held) <= CacheMaxSize
           /\ LoopOK'
<1> DEFINE T == [pc : LoopPC, inner : BOOLEAN, s : Stream \cup {NoStream},
                 held : Seq(Metric), err : BOOLEAN]
           Goal == loop' \in T /\ Len(loop'.held) <= CacheMaxSize /\ LoopOK'
<1>0. /\ loop \in T /\ Len(loop.held) <= CacheMaxSize /\ Len(cache) <= CacheMaxSize
      /\ cache \in Seq(Metric) /\ cur \in Stream \cup {NoStream} /\ CacheMaxSize \in Nat
      /\ << >> \in Seq(Metric) /\ Len(<< >>) = 0 /\ NoStream \notin Stream
  BY EmptySeq, BoundAssumption DEF TypeOK, Stream, NoStream
<1> USE <1>0 DEF LoopPC
<1>1. \A ok \in BOOLEAN : AfterConnect(ok) \in T /\ AfterConnect(ok).held = << >>
                          /\ AfterConnect(ok).pc \in {"enter", "backoff"}
  BY Zenon DEF AfterConnect, LoopStart
<1>2. ASSUME \E ok \in BOOLEAN : loop' = AfterConnect(ok) PROVE Goal
  BY <1>1, <1>2 DEF LoopOK
<1>3. CASE DialFails \/ Register
  BY Zenon, <1>2, <1>3 DEF DialFails, Register, LoopOK
<1>4. CASE Dial
  BY Zenon, <1>4 DEF Dial, LoopOK
<1>5. CASE Publish \/ NotifyUp
  <2>1. CASE Publish
    BY Zenon, <2>1 DEF Publish, LoopOK
  <2>2. CASE NotifyUp
    BY Zenon, <2>2 DEF NotifyUp, LoopOK
  <2> QED BY Zenon, <1>5, <2>1, <2>2
<1>6. CASE ReplayDrain \/ ReplayStream
  <2>1. CASE ReplayDrain
    BY Zenon, <1>2, <2>1 DEF ReplayDrain, LoopOK
  <2>2. CASE ReplayStream
    BY Zenon, <1>2, <2>2 DEF ReplayStream, LoopOK
  <2> QED BY Zenon, <1>6, <2>1, <2>2
<1>7. CASE Replay
  <2>1. CASE \E ok \in BOOLEAN : loop' = AfterConnect(ok)
    BY Zenon, <1>2, <2>1
  <2>2. CASE loop' = [loop EXCEPT !.pc = "recache"]
    BY Zenon, <1>7, <2>2 DEF LoopOK, Replay
  <2>3. CASE ~(Len(loop.held) <= BatchSize) /\ loop' = [loop EXCEPT !.held = AfterBatch(loop.held)]
    <3>1. /\ AfterBatch(loop.held) \in Seq(Metric) /\ AfterBatch(loop.held) # << >>
          /\ Len(AfterBatch(loop.held)) <= Len(loop.held)
      BY Zenon, <2>3, AfterBatchType
    <3>2. Len(AfterBatch(loop.held)) \in Nat /\ Len(loop.held) \in Nat
      BY Zenon, <3>1, LenProperties
    <3> QED BY <1>7, <2>3, <3>1, <3>2 DEF LoopOK, Replay
  <2> QED BY Zenon, <1>7, <2>1, <2>2, <2>3 DEF Replay
<1>8. CASE Recache
  <2>1. loop.held # << >>
    BY Zenon, <1>8 DEF Recache, LoopOK
  <2>2. CASE Len(loop.held) = 1
    BY Zenon, <1>2, <1>8, <2>2 DEF Recache
  <2>3. CASE Len(loop.held) # 1
    <3>1. /\ Tail(loop.held) \in Seq(Metric) /\ Tail(loop.held) # << >>
          /\ Len(loop.held) \in Nat /\ Len(Tail(loop.held)) = Len(loop.held) - 1
      BY Zenon, <2>1, <2>3, TailType
    <3> DEFINE t == Tail(loop.held)
    <3>2. loop' = [loop EXCEPT !.held = t] /\ loop.pc = "recache"
      BY Zenon, <1>8, <2>3 DEF Recache
    <3>3. t \in Seq(Metric) /\ t # << >> /\ Len(t) = Len(loop.held) - 1
      BY Zenon, <3>1
    <3> HIDE DEF t
    <3> QED BY <3>1, <3>2, <3>3 DEF LoopOK
  <2> QED BY Zenon, <2>2, <2>3
<1>9. CASE BackoffTimer \/ BackoffCancelled \/ EnterMessageLoop \/ CheckContext
  <2>1. CASE BackoffTimer
    BY Zenon, <2>1 DEF BackoffTimer, LoopOK
  <2>2. CASE BackoffCancelled
    BY Zenon, <2>2 DEF BackoffCancelled, LoopOK
  <2>3. CASE EnterMessageLoop
    BY Zenon, <2>3 DEF EnterMessageLoop, LoopOK
  <2>4. CASE CheckContext
    BY Zenon, <2>4 DEF CheckContext, LoopOK
  <2> QED BY Zenon, <1>9, <2>1, <2>2, <2>3, <2>4
<1>10. CASE PickStream \/ Recv \/ RecvFails
  <2>1. CASE PickStream
    BY Zenon, <2>1 DEF PickStream, LoopOK
  <2>2. CASE Recv
    BY Zenon, <2>2 DEF Recv, LoopOK
  <2>3. CASE RecvFails
    BY Zenon, <2>3 DEF RecvFails, LoopOK
  <2> QED BY Zenon, <1>10, <2>1, <2>2, <2>3
<1>11. CASE SetDisconnected \/ NotifyDown \/ LoopClose
  <2>1. CASE SetDisconnected
    BY Zenon, <2>1 DEF SetDisconnected, AfterDisconnect, LoopOK
  <2>2. CASE NotifyDown
    BY Zenon, <2>2 DEF NotifyDown, AfterDisconnect, LoopOK
  <2>3. CASE LoopClose
    BY Zenon, <2>3 DEF LoopClose, AfterDisconnect, LoopOK
  <2> QED BY Zenon, <1>11, <2>1, <2>2, <2>3
<1>12. CASE LeaveMessageLoop
  BY Zenon, <1>12 DEF LeaveMessageLoop, LoopStart, LoopOK
<1> QED
  BY Zenon, <1>3, <1>4, <1>5, <1>6, <1>7, <1>8, <1>9, <1>10, <1>11, <1>12 DEF LoopRun

\* So does the record of the agent's goroutine.
LEMMA AppStep ==
    ASSUME TypeOK, AppOK, AppNext
    PROVE  /\ app' \in [pc : AppPC, s : Stream \cup {NoStream}, held : Seq(Metric)]
           /\ file' \in Seq(Metric)
           /\ submitted' \in 0 .. MaxMetrics
           /\ AppOK'
<1> DEFINE T == [pc : AppPC, s : Stream \cup {NoStream}, held : Seq(Metric)]
           Goal == /\ app' \in T /\ file' \in Seq(Metric) /\ submitted' \in 0 .. MaxMetrics
                   /\ AppOK'
<1>0. /\ app \in T /\ cache \in Seq(Metric) /\ file \in Seq(Metric)
      /\ cur \in Stream \cup {NoStream} /\ Usable \in Stream \cup {NoStream}
      /\ submitted \in 0 .. MaxMetrics /\ MaxMetrics \in Nat
      /\ << >> \in Seq(Metric) /\ NoStream \notin Stream
  BY EmptySeq, BoundAssumption DEF TypeOK, Stream, NoStream, Usable
<1> USE <1>0 DEF AppPC, Serving
<1>1. CASE SendMetrics
  <2>1. PICK k \in 1 .. MaxBatch :
          /\ submitted + k <= MaxMetrics
          /\ submitted' = submitted + k
          /\ app' = [pc |-> IF Usable = NoStream THEN "add" ELSE "send",
                     s |-> Usable, held |-> [i \in 1 .. k |-> submitted + i]]
    BY Zenon, <1>1 DEF SendMetrics
  <2> DEFINE h == [i \in 1 .. k |-> submitted + i]
  <2>2. h \in Seq(Metric) /\ h # << >>
    <3>1. submitted \in Nat
      OBVIOUS
    <3> QED BY Zenon, <2>1, <3>1, FreshType
  <2>3. submitted' \in 0 .. MaxMetrics
    BY <2>1, BoundAssumption
  <2>4. file' = file /\ app.pc = "select"
    BY Zenon, <1>1 DEF SendMetrics, fates
  <2>5. app' = [pc |-> IF Usable = NoStream THEN "add" ELSE "send", s |-> Usable, held |-> h]
    BY Zenon, <2>1
  <2> HIDE DEF h
  <2> QED BY Zenon, <2>2, <2>3, <2>4, <2>5 DEF AppOK
<1>2. CASE SendMetricsSend
  <2>0. UNCHANGED <<file, submitted>> /\ app.pc = "send"
    BY Zenon, <1>2 DEF SendMetricsSend, fates
  <2>1. CASE app' = AppStart
    BY Zenon, <2>0, <2>1 DEF AppStart, AppOK
  <2>2. CASE app' = [app EXCEPT !.pc = "add", !.s = NoStream]
    BY Zenon, <2>0, <2>2 DEF AppOK
  <2> QED BY Zenon, <1>2, <2>1, <2>2 DEF SendMetricsSend
<1>3. CASE SendMetricsAdd
  <2>0. app.held # << >> /\ UNCHANGED <<file, submitted>> /\ app.pc = "add"
    BY Zenon, <1>3 DEF SendMetricsAdd, AppOK
  <2>1. CASE Len(app.held) = 1
    <3>1. app' = AppStart
      BY Zenon, <1>3, <2>1 DEF SendMetricsAdd
    <3> QED BY Zenon, <2>0, <3>1 DEF AppStart, AppOK
  <2>2. CASE Len(app.held) # 1
    <3> DEFINE t == Tail(app.held)
    <3>1. t \in Seq(Metric) /\ t # << >>
      BY Zenon, <2>0, <2>2, TailType
    <3>2. app' = [app EXCEPT !.held = t]
      BY Zenon, <1>3, <2>2 DEF SendMetricsAdd
    <3> HIDE DEF t
    <3> QED BY Zenon, <2>0, <3>1, <3>2 DEF AppOK
  <2> QED BY Zenon, <2>1, <2>2
<1>4. CASE FlushDrain \/ StopCancel \/ FlushCancel \/ FlushStream
  <2>0. UNCHANGED <<file, submitted>>
    BY Zenon, <1>4 DEF FlushDrain, StopCancel, FlushCancel, FlushStream, notApp, fates
  <2>1. CASE app.pc = "select" /\ app' = [app EXCEPT !.pc = "cancel", !.held = cache]
    BY Zenon, <2>0, <2>1 DEF AppOK
  <2>2. CASE app.pc = "select" /\ app' = [app EXCEPT !.pc = "stopWait"]
    BY Zenon, <2>0, <2>2 DEF AppOK
  <2>3. CASE FlushCancel
    BY Zenon, <2>0, <2>3 DEF AppOK, FlushCancel
  <2>4. CASE FlushStream
    BY Zenon, <2>0, <2>4 DEF AppOK, FlushStream
  <2> QED BY Zenon, <1>4, <2>1, <2>2, <2>3, <2>4 DEF FlushDrain, StopCancel
<1>5. CASE Flush
  <2>0. app.held # << >> /\ UNCHANGED <<file, submitted>> /\ app.pc = "flush"
    BY Zenon, <1>5 DEF Flush, AppOK, fates
  <2>1. CASE app' = [AppStart EXCEPT !.pc = "flushClose"]
    BY Zenon, <2>0, <2>1 DEF AppStart, AppOK
  <2>2. CASE app' = [app EXCEPT !.pc = "persist", !.s = NoStream]
    BY Zenon, <2>0, <2>2 DEF AppOK
  <2>3. CASE ~(Len(app.held) <= BatchSize) /\ app' = [app EXCEPT !.held = AfterBatch(app.held)]
    <3>1. AfterBatch(app.held) \in Seq(Metric) /\ AfterBatch(app.held) # << >>
      BY Zenon, <2>3, AfterBatchType
    <3> QED BY Zenon, <2>0, <2>3, <3>1 DEF AppOK
  <2> QED BY Zenon, <1>5, <2>1, <2>2, <2>3 DEF Flush
<1>6. CASE Persist
  BY Zenon, <1>6 DEF Persist, AppStart, AppOK
<1>7. CASE FlushClose \/ FlushWait \/ StopWait \/ StopClose
  BY <1>7 DEF FlushClose, FlushWait, StopWait, StopClose, notApp, fates, AppOK
<1> QED BY Zenon, <1>1, <1>2, <1>3, <1>4, <1>5, <1>6, <1>7 DEF AppNext, StopNext

\* What the loop, the other senders and the environment leave to the agent's
\* goroutine, and what it leaves to them.
LEMMA Frames ==
    /\ LoopRun \/ Recv => UNCHANGED <<app, file, submitted, hbs, oth, ctxDone>>
    /\ AppNext => UNCHANGED <<loop, hb, hbs, oth, gauge>>
    /\ HeartbeatNext => UNCHANGED <<cache, shared, gauge, ctxDone, loop, oth, app, submitted,
                                    fates, link>>
    /\ OtherPick \/ OtherSend => UNCHANGED <<cache, shared, gauge, ctxDone, loop, hb, hbs, app,
                                            submitted, fates, link>>
    /\ ParentCancelled => UNCHANGED <<cache, shared, gauge, loop, senders, app, wire, submitted,
                                      fates>>
    /\ StreamBreaks => UNCHANGED <<cache, shared, gauge, ctxDone, loop, senders, app, first,
                                   sent, submitted, fates>>
<1> USE DEF notLoop, notApp, shared, senders, wire, fates
<1>1. LoopRun \/ Recv => UNCHANGED <<app, file, submitted, hbs, oth, ctxDone>>
  BY Zenon DEF LoopRun, Recv, DialFails, Dial, Register, Publish, NotifyUp, ReplayDrain, ReplayStream,
     Replay, Recache, BackoffTimer, BackoffCancelled, EnterMessageLoop, CheckContext, PickStream,
     RecvFails, SetDisconnected, NotifyDown, LoopClose, LeaveMessageLoop
<1>2. AppNext => UNCHANGED <<loop, hb, hbs, oth, gauge>>
  BY Zenon DEF AppNext, SendMetrics, SendMetricsSend, SendMetricsAdd, FlushDrain, StopCancel, StopNext,
     FlushCancel, FlushStream, Flush, Persist, FlushClose, FlushWait, StopWait, StopClose
<1>3. HeartbeatNext => UNCHANGED <<cache, shared, gauge, ctxDone, loop, oth, app, submitted,
                                  fates, link>>
  BY Zenon DEF HeartbeatNext, HeartbeatTick, HeartbeatSend, HeartbeatExit, Accept
<1>4. OtherPick \/ OtherSend => UNCHANGED <<cache, shared, gauge, ctxDone, loop, hb, hbs, app,
                                           submitted, fates, link>>
  BY Zenon DEF OtherPick, OtherSend, Accept
<1>5. ParentCancelled => UNCHANGED <<cache, shared, gauge, loop, senders, app, wire, submitted,
                                    fates>>
  BY Zenon DEF ParentCancelled
<1>6. StreamBreaks => UNCHANGED <<cache, shared, gauge, ctxDone, loop, senders, app, first,
                                 sent, submitted, fates>>
  BY Zenon DEF StreamBreaks
<1> QED BY Zenon, <1>1, <1>2, <1>3, <1>4, <1>5, <1>6

\* The Boolean variables stay Boolean.
LEMMA BooleanStep ==
    ASSUME TypeOK, [Next]_vars
    PROVE  connected' \in BOOLEAN /\ gauge' \in BOOLEAN /\ ctxDone' \in BOOLEAN
<1> DEFINE Goal == connected' \in BOOLEAN /\ gauge' \in BOOLEAN /\ ctxDone' \in BOOLEAN
<1>0. connected \in BOOLEAN /\ gauge \in BOOLEAN /\ ctxDone \in BOOLEAN
  BY Zenon DEF TypeOK
<1> USE <1>0 DEF notLoop, notApp, shared
<1>1. CASE LoopRun \/ Recv
  BY Zenon, <1>1, Frames DEF LoopRun, Recv, DialFails, Dial, Register, Publish, NotifyUp, ReplayDrain,
     ReplayStream, Replay, Recache, BackoffTimer, BackoffCancelled, EnterMessageLoop, CheckContext,
     PickStream, RecvFails, SetDisconnected, NotifyDown, LoopClose, CloseConn, LeaveMessageLoop
<1>2. CASE AppNext
  BY Zenon, <1>2 DEF AppNext, SendMetrics, SendMetricsSend, SendMetricsAdd, FlushDrain, StopCancel,
     StopNext, FlushCancel, FlushStream, Flush, Persist, FlushClose, FlushWait, StopWait, StopClose,
     CloseConn
<1>3. CASE HeartbeatNext \/ OtherPick \/ OtherSend \/ StreamBreaks
  BY Zenon, <1>3, Frames
<1>4. CASE ParentCancelled
  BY Zenon, <1>4 DEF ParentCancelled
<1>5. CASE Terminated \/ UNCHANGED vars
  BY Zenon, <1>5 DEF Terminated, vars
<1> QED BY Zenon, <1>1, <1>2, <1>3, <1>4, <1>5 DEF Next

\* The cache, its evictions and the metrics dropped.
LEMMA CacheStep ==
    ASSUME TypeOK, LoopOK, AppOK, [Next]_vars
    PROVE  /\ cache' \in Seq(Metric) /\ Len(cache') <= CacheMaxSize
           /\ evicted' \subseteq Metric /\ lost' \subseteq Metric
<1> DEFINE Goal == /\ cache' \in Seq(Metric) /\ Len(cache') <= CacheMaxSize
                   /\ evicted' \subseteq Metric /\ lost' \subseteq Metric
<1>0. /\ cache \in Seq(Metric) /\ Len(cache) <= CacheMaxSize
      /\ evicted \subseteq Metric /\ lost \subseteq Metric
      /\ loop.held \in Seq(Metric) /\ app.held \in Seq(Metric)
      /\ << >> \in Seq(Metric) /\ Len(<< >>) = 0 /\ CacheMaxSize \in Nat \ {0}
  BY Zenon, EmptySeq, BoundAssumption DEF TypeOK
<1>1. ASSUME NEW m \in Metric, CacheAdd(m), UNCHANGED lost PROVE Goal
  <2>1. cache' \in Seq(Metric) /\ Len(cache') <= CacheMaxSize
    BY Zenon, <1>0, <1>1, PushType DEF CacheAdd
  <2>2. Len(cache) = CacheMaxSize => Head(cache) \in Metric
    BY Zenon, <1>0, HeadTailProperties
  <2> QED BY Zenon, <1>0, <1>1, <2>1, <2>2 DEF CacheAdd
<1>2. CASE Recache \/ SendMetricsAdd
  <2>1. \/ loop.held # << >> /\ CacheAdd(Head(loop.held))
        \/ app.held # << >> /\ CacheAdd(Head(app.held))
    BY Zenon, <1>2 DEF Recache, SendMetricsAdd, LoopOK, AppOK
  <2>2. UNCHANGED lost
    BY Zenon, <1>2 DEF Recache, SendMetricsAdd
  <2> QED BY Zenon, <1>0, <1>1, <2>1, <2>2, TailType
<1>3. CASE ReplayStream \/ Persist
  <2>1. Elems(loop.held) \subseteq Metric /\ Elems(app.held) \subseteq Metric
    BY <1>0, LenProperties DEF Elems
  <2>2. /\ UNCHANGED <<cache, evicted>>
        /\ lost' = lost \/ lost' = lost \cup Elems(loop.held) \/ lost' = lost \cup Elems(app.held)
    BY Zenon, <1>3 DEF ReplayStream, Persist
  <2> QED BY Zenon, <1>0, <2>1, <2>2
<1>4. CASE ReplayDrain \/ FlushDrain
  <2>1. cache' = << >> /\ UNCHANGED <<evicted, lost>>
    BY Zenon, <1>4 DEF ReplayDrain, FlushDrain, fates
  <2>2. Len(cache') = 0
    BY <1>0, <2>1, Zenon
  <2> QED BY <1>0, <2>1, <2>2
<1>5. CASE /\ ~(Recache \/ SendMetricsAdd \/ ReplayStream \/ Persist \/ ReplayDrain \/ FlushDrain)
           /\ LoopRun \/ Recv \/ AppNext
  <2>1. UNCHANGED <<cache, evicted, lost>>
    BY Zenon, <1>5 DEF notLoop, notApp, fates, LoopRun, Recv, DialFails, Dial, Register, Publish, NotifyUp,
       Replay, BackoffTimer, BackoffCancelled, EnterMessageLoop, CheckContext, PickStream,
       RecvFails, SetDisconnected, NotifyDown, LoopClose, LeaveMessageLoop, AppNext, SendMetrics,
       SendMetricsSend, StopCancel, StopNext, FlushCancel, FlushStream, Flush, FlushClose,
       FlushWait, StopWait, StopClose
  <2> QED BY Zenon, <1>0, <2>1
<1>6. CASE HeartbeatNext \/ OtherPick \/ OtherSend \/ ParentCancelled \/ StreamBreaks
           \/ Terminated \/ UNCHANGED vars
  <2>1. UNCHANGED <<cache, evicted, lost>>
    BY Zenon, <1>6, Frames DEF fates, Terminated, vars
  <2> QED BY Zenon, <1>0, <2>1
<1> QED BY <1>2, <1>3, <1>4, <1>5, <1>6 DEF Next

\* The streams.
LEMMA WireStep ==
    ASSUME TypeOK, LoopOK, AppOK, [Next]_vars
    PROVE  /\ cur' \in Stream \cup {NoStream} /\ hb' \in {"off", "idle", "send"}
           /\ hbs' \in Stream \cup {NoStream} /\ oth' \in Stream \cup {NoStream}
           /\ link' \in [Stream -> {"unused", "up", "down", "closed"}]
           /\ first' \in [Stream -> {"none", "registration", "other"}]
           /\ sent' \in [Metric -> Nat]
<1> DEFINE Goal ==
           /\ cur' \in Stream \cup {NoStream} /\ hb' \in {"off", "idle", "send"}
           /\ hbs' \in Stream \cup {NoStream} /\ oth' \in Stream \cup {NoStream}
           /\ link' \in [Stream -> {"unused", "up", "down", "closed"}]
           /\ first' \in [Stream -> {"none", "registration", "other"}]
           /\ sent' \in [Metric -> Nat]
<1>0. /\ cur \in Stream \cup {NoStream} /\ hb \in {"off", "idle", "send"}
      /\ hbs \in Stream \cup {NoStream} /\ oth \in Stream \cup {NoStream}
      /\ loop.s \in Stream \cup {NoStream} /\ app.s \in Stream \cup {NoStream}
      /\ link \in [Stream -> {"unused", "up", "down", "closed"}]
      /\ first \in [Stream -> {"none", "registration", "other"}]
      /\ sent \in [Metric -> Nat]
  BY Zenon DEF TypeOK
<1>1. Usable \in Stream \cup {NoStream}
  BY Zenon, <1>0 DEF Usable
<1> USE <1>0, <1>1 DEF shared, senders, wire, fates, notLoop, notApp
<1>2. ASSUME NEW s, NEW ms, NEW kind \in {"registration", "other"}, Accept(s, kind, ms)
      PROVE  /\ link' = link
             /\ first' \in [Stream -> {"none", "registration", "other"}]
             /\ sent' \in [Metric -> Nat]
  <2>1. \A t \in Stream : [first EXCEPT ![s] = IF @ = "none" THEN kind ELSE @][t]
                             \in {"none", "registration", "other"}
    <3>1. CASE s \in Stream
      BY Zenon, <3>1
    <3>2. CASE s \notin Stream
      BY Zenon, <3>2
    <3> QED BY Zenon, <3>1, <3>2
  <2>2. first' \in [Stream -> {"none", "registration", "other"}]
    BY Zenon, <1>2, <2>1 DEF Accept
  <2>3. \A m \in Metric : sent[m] \in Nat /\ sent[m] + 1 \in Nat
    OBVIOUS
  <2>4. sent' \in [Metric -> Nat]
    BY Zenon, <1>2, <2>3 DEF Accept
  <2> QED BY Zenon, <1>2, <2>2, <2>4 DEF Accept
<1>3. CASE Dial \/ Register \/ Replay
  <2>1. UNCHANGED <<cur, hb, hbs, oth>>
    BY Zenon, <1>3 DEF Dial, Register, Replay
  <2>2. CASE Dial \/ (Register /\ UNCHANGED <<first, sent>> /\ link' = [link EXCEPT ![loop.s] = "closed"])
    BY Zenon, <2>1, <2>2 DEF Dial
  <2>3. CASE UNCHANGED wire
    BY Zenon, <2>1, <2>3
  <2>4. CASE \/ Accept(loop.s, "registration", {})
             \/ Accept(loop.s, "other", Elems(Batch(loop.held)))
    BY Zenon, <1>2, <2>1, <2>4
  <2> QED BY Zenon, <1>3, <2>2, <2>3, <2>4 DEF Register, Replay
<1>4. CASE LoopClose \/ FlushClose \/ StopClose
  BY Zenon, <1>4 DEF LoopClose, FlushClose, StopClose, CloseConn
<1>5. CASE Publish \/ EnterMessageLoop
  BY Zenon, <1>5 DEF Publish, EnterMessageLoop
<1>6. CASE /\ LoopRun \/ Recv
           /\ ~(Dial \/ Register \/ Replay \/ LoopClose \/ Publish \/ EnterMessageLoop)
  <2>1. UNCHANGED <<cur, hb, hbs, oth, wire>>
    BY Zenon, <1>6 DEF LoopRun, Recv, DialFails, NotifyUp, ReplayDrain, ReplayStream, Recache, BackoffTimer,
       BackoffCancelled, CheckContext, PickStream, RecvFails, SetDisconnected, NotifyDown,
       LeaveMessageLoop
  <2> QED BY Zenon, <2>1
<1>7. CASE HeartbeatNext \/ OtherPick \/ OtherSend
  <2>1. UNCHANGED <<cur, link>>
    BY Zenon, <1>7, Frames
  <2>2. CASE UNCHANGED wire
    BY Zenon, <1>7, <2>1, <2>2 DEF HeartbeatNext, HeartbeatTick, HeartbeatSend, HeartbeatExit, OtherPick,
       OtherSend, NoStream
  <2>3. CASE Accept(hbs, "other", {}) /\ HeartbeatSend
    BY Zenon, <1>2, <2>1, <2>3 DEF HeartbeatSend
  <2>4. CASE Accept(oth, "other", {}) /\ OtherSend
    BY Zenon, <1>2, <2>1, <2>4 DEF OtherSend
  <2> QED
    BY Zenon, <1>7, <2>2, <2>3, <2>4 DEF HeartbeatNext, HeartbeatTick, HeartbeatSend, HeartbeatExit,
       OtherPick, OtherSend
<1>8. CASE SendMetricsSend \/ Flush
  <2>1. UNCHANGED <<cur, hb, hbs, oth>>
    BY Zenon, <1>8 DEF SendMetricsSend, Flush
  <2>2. CASE UNCHANGED wire
    BY Zenon, <2>1, <2>2
  <2>3. CASE \/ Accept(app.s, "other", Elems(app.held))
             \/ Accept(app.s, "other", Elems(Batch(app.held)))
    BY Zenon, <1>2, <2>1, <2>3
  <2> QED BY Zenon, <1>8, <2>2, <2>3 DEF SendMetricsSend, Flush
<1>9. CASE AppNext /\ ~(SendMetricsSend \/ Flush \/ FlushClose \/ StopClose)
  <2>1. UNCHANGED <<cur, hb, hbs, oth, wire>>
    BY Zenon, <1>9 DEF AppNext, SendMetrics, SendMetricsAdd, FlushDrain, StopCancel, StopNext, FlushCancel,
       FlushStream, Persist, FlushWait, StopWait
  <2> QED BY Zenon, <2>1
<1>10. CASE StreamBreaks
  BY Zenon, <1>10 DEF StreamBreaks
<1>11. CASE ParentCancelled \/ Terminated \/ UNCHANGED vars
  BY Zenon, <1>11 DEF ParentCancelled, Terminated, vars
<1> QED BY <1>3, <1>4, <1>5, <1>6, <1>7, <1>8, <1>9, <1>10, <1>11 DEF Next

\* Every variable keeps its type.
LEMMA TypeStep ==
    ASSUME TypeOK, LoopOK, AppOK, [Next]_vars
    PROVE  TypeOK' /\ LoopOK' /\ AppOK'
<1>1. /\ loop' \in [pc : LoopPC, inner : BOOLEAN, s : Stream \cup {NoStream},
                   held : Seq(Metric), err : BOOLEAN]
      /\ Len(loop'.held) <= CacheMaxSize
      /\ LoopOK'
  <2>1. CASE LoopRun \/ Recv
    BY Zenon, <2>1, LoopStep
  <2>2. CASE UNCHANGED loop
    BY Zenon, <2>2 DEF TypeOK, LoopOK
  <2> QED BY Zenon, <2>1, <2>2, Frames DEF Next, Terminated, vars
<1>2. /\ app' \in [pc : AppPC, s : Stream \cup {NoStream}, held : Seq(Metric)]
      /\ file' \in Seq(Metric) /\ submitted' \in 0 .. MaxMetrics
      /\ AppOK'
  <2>1. CASE AppNext
    BY Zenon, <2>1, AppStep
  <2>2. CASE UNCHANGED <<app, file, submitted>>
    BY Zenon, <2>2 DEF TypeOK, AppOK
  <2> QED BY Zenon, <2>1, <2>2, Frames DEF Next, Terminated, vars, fates
<1> QED BY <1>1, <1>2, BooleanStep, CacheStep, WireStep, Zenon DEF TypeOK

-----------------------------------------------------------------------------
(* Control *)

\* A message that is not a registration, on a stream that has one.
LEMMA AcceptRegistered ==
    ASSUME TypeOK, NEW s \in Stream, NEW ms, first[s] = "registration", Accept(s, "other", ms)
    PROVE  UNCHANGED <<first, link>>
BY Zenon DEF Accept, TypeOK

\* Every sender finds only streams that carry a registration.
LEMMA RegisteredStep ==
    ASSUME Control, [Next]_vars
    PROVE  Registered' /\ RegistrationFirst'
<1> DEFINE Goal == Registered' /\ RegistrationFirst'
<1>0. /\ TypeOK /\ LoopOK /\ AppOK /\ Registered /\ RegistrationFirst /\ Ended
      /\ cur \in Stream \cup {NoStream} /\ hbs \in Stream \cup {NoStream}
      /\ oth \in Stream \cup {NoStream} /\ loop.s \in Stream \cup {NoStream}
      /\ app.s \in Stream \cup {NoStream} /\ NoStream \notin Stream
      /\ link \in [Stream -> {"unused", "up", "down", "closed"}]
      /\ first \in [Stream -> {"none", "registration", "other"}]
      /\ loop \in [pc : LoopPC, inner : BOOLEAN, s : Stream \cup {NoStream},
                   held : Seq(Metric), err : BOOLEAN]
      /\ app \in [pc : AppPC, s : Stream \cup {NoStream}, held : Seq(Metric)]
  BY DEF Control, TypeOK, Stream, NoStream
<1> USE <1>0 DEF shared, senders, wire, fates, notLoop, notApp
<1>1. ASSUME UNCHANGED <<first, cur, hb, hbs, oth, app>>,
             \A s \in Stream : link'[s] = "unused" => link[s] = "unused",
             \/ loop'.s = loop.s /\ (loop'.pc = "register" <=> loop.pc = "register")
             \/ loop'.s = NoStream
             \/ loop'.s = cur /\ loop'.pc # "register"
      PROVE  Goal
  BY Zenon, <1>1 DEF Registered, RegistrationFirst
<1>2. ASSUME UNCHANGED <<first, loop, cur, hb, hbs, oth>>,
             \A s \in Stream : link'[s] = "unused" => link[s] = "unused",
             app'.s \in {app.s, cur, NoStream}
      PROVE  Goal
  BY Zenon, <1>2 DEF Registered, RegistrationFirst
<1>3. \A ok \in BOOLEAN : AfterConnect(ok).s = NoStream
  BY Zenon DEF AfterConnect, LoopStart
<1>4. CASE Dial
  <2>1. PICK s \in Stream : /\ link[s] = "unused" /\ link' = [link EXCEPT ![s] = "up"]
                            /\ loop' = [loop EXCEPT !.pc = "register", !.s = s]
    <3>1. \A s \in Stream : s >= s
      BY DEF Stream
    <3> QED BY Zenon, <1>4, <3>1 DEF Dial
  <2>2. UNCHANGED <<first, cur, hb, hbs, oth, app>>
    BY Zenon, <1>4 DEF Dial
  <2>3. first[s] = "none" /\ loop'.s = s /\ loop'.pc = "register"
    BY Zenon, <2>1 DEF Registered
  <2> QED BY Zenon, <2>1, <2>2, <2>3 DEF Registered, RegistrationFirst
<1>5. CASE Register
  <2>1. UNCHANGED <<cur, hb, hbs, oth, app>> /\ loop.pc = "register" /\ loop.s \in Stream
    BY Zenon, <1>5 DEF Register, LoopOK
  <2>2. CASE Accept(loop.s, "registration", {}) /\ loop' = [loop EXCEPT !.pc = "publish"]
    <3>1. first' = [first EXCEPT ![loop.s] = "registration"] /\ link' = link /\ link[loop.s] = "up"
      BY Zenon, <2>1, <2>2 DEF Accept, Accepts, Registered
    <3>2. loop'.s = loop.s /\ loop'.pc = "publish"
      BY Zenon, <2>2
    <3> QED BY <2>1, <3>1, <3>2 DEF Registered, RegistrationFirst
  <2>3. CASE /\ link' = [link EXCEPT ![loop.s] = "closed"] /\ UNCHANGED first
             /\ loop' = AfterConnect(FALSE)
    BY Zenon, <1>1, <1>3, <2>1, <2>3
  <2> QED BY Zenon, <1>5, <2>2, <2>3 DEF Register
<1>6. CASE Publish
  <2>1. cur' = loop.s /\ loop.s \in Stream /\ first[loop.s] = "registration" /\ loop'.s = NoStream
    BY Zenon, <1>6 DEF Publish, LoopOK, Registered
  <2>2. UNCHANGED <<first, link, hb, hbs, oth, app>>
    BY Zenon, <1>6 DEF Publish
  <2> QED BY Zenon, <2>1, <2>2 DEF Registered, RegistrationFirst
<1>7. CASE Replay
  <2>1. UNCHANGED <<cur, hb, hbs, oth, app>> /\ loop.s \in Stream /\ first[loop.s] = "registration"
    BY Zenon, <1>7 DEF Replay, LoopOK, Registered
  <2>2. UNCHANGED <<first, link>>
    BY Zenon, <1>7, <2>1, AcceptRegistered DEF Replay
  <2>3. \/ loop'.s = loop.s /\ loop'.pc # "register" /\ loop.pc # "register"
        \/ loop'.s = NoStream
    <3>0. loop.pc = "replay"
      BY Zenon, <1>7 DEF Replay
    <3>1. CASE loop' = AfterConnect(TRUE)
      BY Zenon, <1>3, <3>1
    <3>2. CASE loop' = [loop EXCEPT !.held = AfterBatch(loop.held)]
      BY Zenon, <3>0, <3>2
    <3>3. CASE loop' = [loop EXCEPT !.pc = "recache"]
      BY Zenon, <3>0, <3>3
    <3> QED BY Zenon, <1>7, <3>1, <3>2, <3>3 DEF Replay
  <2> QED BY Zenon, <1>1, <2>1, <2>2, <2>3
<1>8. CASE LoopClose \/ FlushClose \/ StopClose
  <2>1. /\ cur' = NoStream /\ UNCHANGED <<first, hb, hbs, oth>> /\ app'.s = app.s
        /\ loop'.s = loop.s /\ (loop'.pc = "register" <=> loop.pc = "register")
    BY Zenon, <1>8 DEF LoopClose, FlushClose, StopClose, CloseConn
  <2>2. link' = link \/ (cur \in Stream /\ link' = [link EXCEPT ![cur] = "closed"])
    BY Zenon, <1>8 DEF LoopClose, FlushClose, StopClose, CloseConn
  <2>3. \A s \in Stream : link'[s] = "unused" => link[s] = "unused"
    BY Zenon, <2>2
  <2> QED BY <2>1, <2>3 DEF Registered, RegistrationFirst
<1>9. CASE EnterMessageLoop
  <2>1. UNCHANGED <<cur, first, link, hbs, oth, app>> /\ loop'.s = loop.s /\ hb' = "idle"
        /\ loop'.pc # "register" /\ loop.pc # "register"
    BY Zenon, <1>9 DEF EnterMessageLoop
  <2> QED BY Zenon, <2>1 DEF Registered, RegistrationFirst
<1>10. CASE DialFails \/ NotifyUp \/ ReplayDrain \/ ReplayStream \/ Recache
  <2>1. UNCHANGED <<first, link, cur, hb, hbs, oth, app>>
    BY Zenon, <1>10 DEF DialFails, NotifyUp, ReplayDrain, ReplayStream, Recache
  <2>2. \/ loop'.s = loop.s /\ loop'.pc # "register" /\ loop.pc # "register"
        \/ loop'.s = NoStream
        \/ loop'.s = cur /\ loop'.pc # "register"
    <3>1. CASE DialFails \/ NotifyUp
      <4>1. CASE loop' = AfterConnect(FALSE)
        BY Zenon, <1>3, <4>1
      <4>2. CASE loop.pc = "notifyUp" /\ loop' = [loop EXCEPT !.pc = "drain"]
        BY Zenon, <4>2
      <4> QED BY Zenon, <3>1, <4>1, <4>2 DEF DialFails, NotifyUp
    <3>2. CASE ReplayDrain
      BY Zenon, <1>3, <3>2 DEF ReplayDrain
    <3>3. CASE ReplayStream
      BY Zenon, <1>3, <3>3 DEF ReplayStream
    <3>4. CASE Recache
      BY Zenon, <1>3, <3>4 DEF Recache
    <3> QED BY Zenon, <1>10, <3>1, <3>2, <3>3, <3>4
  <2> QED BY Zenon, <1>1, <2>1, <2>2
<1>11. CASE BackoffTimer \/ BackoffCancelled \/ CheckContext \/ PickStream \/ Recv \/ RecvFails
            \/ SetDisconnected \/ NotifyDown \/ LeaveMessageLoop
  <2>1. UNCHANGED <<first, link, cur, hb, hbs, oth, app>>
    BY Zenon, <1>11 DEF BackoffTimer, BackoffCancelled, CheckContext, PickStream, Recv, RecvFails,
       SetDisconnected, NotifyDown, LeaveMessageLoop
  <2>2. \/ loop'.s = loop.s /\ loop'.pc # "register" /\ loop.pc # "register"
        \/ loop'.s = NoStream
        \/ loop'.s = cur /\ loop'.pc # "register"
    <3>1. CASE BackoffTimer \/ BackoffCancelled \/ CheckContext
      BY Zenon, <3>1 DEF BackoffTimer, BackoffCancelled, CheckContext
    <3>2. CASE PickStream
      BY Zenon, <3>2 DEF PickStream
    <3>3. CASE Recv \/ RecvFails
      BY Zenon, <3>3 DEF Recv, RecvFails
    <3>4. CASE SetDisconnected \/ NotifyDown
      BY Zenon, <3>4 DEF SetDisconnected, NotifyDown, AfterDisconnect
    <3>5. CASE LeaveMessageLoop
      BY Zenon, <3>5 DEF LeaveMessageLoop, LoopStart
    <3> QED BY <1>11, <3>1, <3>2, <3>3, <3>4, <3>5
  <2> QED BY Zenon, <1>1, <2>1, <2>2
<1>12. CASE HeartbeatNext
  <2>1. UNCHANGED <<cur, link, loop, oth, app>>
    BY Zenon, <1>12, Frames
  <2>2. UNCHANGED first
    BY Zenon, <1>12, AcceptRegistered DEF HeartbeatNext, HeartbeatTick, HeartbeatSend, HeartbeatExit,
       Registered
  <2>3. /\ hbs' \in {hbs, Usable, NoStream} /\ (hb' = "send" => hbs' # NoStream)
        /\ Usable \in {cur, NoStream}
    BY Zenon, <1>12 DEF HeartbeatNext, HeartbeatTick, HeartbeatSend, HeartbeatExit, Registered, Usable
  <2> QED BY Zenon, <2>1, <2>2, <2>3 DEF Registered, RegistrationFirst
<1>13. CASE OtherPick \/ OtherSend
  <2>1. UNCHANGED <<cur, link, loop, hb, hbs, app>>
    BY Zenon, <1>13, Frames
  <2>2. UNCHANGED first
    BY Zenon, <1>13, AcceptRegistered DEF OtherPick, OtherSend, Registered
  <2>3. oth' \in {Usable, NoStream} /\ Usable \in {cur, NoStream}
    BY Zenon, <1>13 DEF OtherPick, OtherSend, Usable
  <2> QED BY Zenon, <2>1, <2>2, <2>3 DEF Registered, RegistrationFirst
<1>14. CASE SendMetricsSend \/ Flush
  <2>1. UNCHANGED <<cur, loop, hb, hbs, oth>> /\ app.s \in Stream /\ first[app.s] = "registration"
    BY Zenon, <1>14 DEF SendMetricsSend, Flush, AppOK, Registered
  <2>2. UNCHANGED <<first, link>>
    BY Zenon, <1>14, <2>1, AcceptRegistered DEF SendMetricsSend, Flush
  <2>3. app'.s \in {app.s, NoStream}
    <3>1. CASE SendMetricsSend
      <4>1. CASE app' = AppStart
        BY Zenon, <4>1 DEF AppStart
      <4>2. CASE app' = [app EXCEPT !.pc = "add", !.s = NoStream]
        BY Zenon, <4>2
      <4> QED BY Zenon, <3>1, <4>1, <4>2 DEF SendMetricsSend
    <3>2. CASE Flush
      BY Zenon, <3>2 DEF Flush, AppStart
    <3> QED BY Zenon, <1>14, <3>1, <3>2
  <2> QED BY <1>2, <2>1, <2>2, <2>3
<1>15. CASE AppNext /\ ~(SendMetricsSend \/ Flush \/ FlushClose \/ StopClose)
  <2>1. UNCHANGED <<cur, loop, hb, hbs, oth, first, link>>
    BY Zenon, <1>15 DEF AppNext, SendMetrics, SendMetricsAdd, FlushDrain, StopCancel, StopNext, FlushCancel,
       FlushStream, Persist, FlushWait, StopWait
  <2>2. app'.s \in {app.s, cur, NoStream}
    <3>1. CASE SendMetrics
      BY <3>1 DEF SendMetrics, Usable
    <3>2. CASE SendMetricsAdd
      BY Zenon, <3>2 DEF SendMetricsAdd, AppStart
    <3>3. CASE FlushDrain \/ StopCancel \/ FlushCancel \/ FlushStream
      BY Zenon, <3>3 DEF FlushDrain, StopCancel, FlushCancel, FlushStream
    <3>4. CASE Persist \/ FlushWait \/ StopWait
      BY Zenon, <3>4 DEF Persist, FlushWait, StopWait, AppStart
    <3> QED BY <1>15, <3>1, <3>2, <3>3, <3>4 DEF AppNext, StopNext
  <2> QED BY Zenon, <1>2, <2>1, <2>2
<1>16. CASE StreamBreaks \/ ParentCancelled \/ Terminated \/ UNCHANGED vars
  <2>1. UNCHANGED <<first, loop, cur, hb, hbs, oth, app>>
    BY Zenon, <1>16, Frames DEF Terminated, vars
  <2>2. \A s \in Stream : link'[s] = "unused" => link[s] = "unused"
    BY Zenon, <1>16 DEF StreamBreaks, ParentCancelled, Terminated, vars
  <2> QED BY Zenon, <1>2, <2>1, <2>2
<1> QED
  BY <1>4, <1>5, <1>6, <1>7, <1>8, <1>9, <1>10, <1>11, <1>12, <1>13, <1>14, <1>15, <1>16
  DEF Next, LoopRun

\* The callback, the goroutines and the stream follow the control.
LEMMA ControlStep ==
    ASSUME Control, [Next]_vars
    PROVE  (Reported /\ Ended /\ Kept /\ GaugeFollows /\ NoGoroutineLeft /\ StopDisconnects)'
<1> DEFINE Rest == Reported /\ Ended /\ Kept /\ GaugeFollows /\ NoGoroutineLeft /\ StopDisconnects
<1> SUFFICES Rest'
  BY Zenon
<1>0. /\ TypeOK /\ LoopOK /\ AppOK /\ Rest /\ NoStream \notin Stream
      /\ connected \in BOOLEAN /\ gauge \in BOOLEAN /\ ctxDone \in BOOLEAN
      /\ loop \in [pc : LoopPC, inner : BOOLEAN, s : Stream \cup {NoStream},
                   held : Seq(Metric), err : BOOLEAN]
      /\ app \in [pc : AppPC, s : Stream \cup {NoStream}, held : Seq(Metric)]
  BY DEF Control, TypeOK, Stream, NoStream
<1> USE <1>0 DEF Reported, Ended, Kept, GaugeFollows, NoGoroutineLeft, StopDisconnects, Serving
<1>f. \A ok \in BOOLEAN : AfterConnect(ok).pc \in {"enter", "backoff"}
  BY Zenon DEF AfterConnect, LoopStart
\* Steps of connectLoop that change nothing but its own phase.
<1>1. ASSUME UNCHANGED <<cur, connected, gauge, hb, app, lost>>, hb = "off" \/ loop'.pc \in
                 {"check", "snap", "recv", "disc", "close", "endloop"},
             loop.pc \notin {"exit", "notifyUp", "notifyDown"},
             loop'.pc \notin {"notifyUp", "notifyDown", "drain", "replayStream"},
             loop'.pc = "close" => ~connected
      PROVE  Rest'
  BY Zenon, <1>1
<1>2. CASE DialFails \/ BackoffTimer \/ BackoffCancelled \/ LeaveMessageLoop
  <2>1. UNCHANGED <<cur, connected, gauge, hb, app, lost>>
    BY Zenon, <1>2 DEF DialFails, BackoffTimer, BackoffCancelled, LeaveMessageLoop, notLoop, shared, senders,
       fates
  <2>2. /\ loop.pc \in {"dial", "backoff", "endloop"} /\ hb = "off"
        /\ loop'.pc \in {"enter", "backoff", "dial", "exit"}
    <3>1. CASE DialFails
      BY Zenon, <1>f, <3>1 DEF DialFails
    <3>2. CASE BackoffTimer \/ BackoffCancelled
      BY Zenon, <3>2 DEF BackoffTimer, BackoffCancelled
    <3>3. CASE LeaveMessageLoop
      BY Zenon, <3>3 DEF LeaveMessageLoop, LoopStart
    <3> QED BY Zenon, <1>2, <3>1, <3>2, <3>3
  <2> QED BY Zenon, <1>1, <2>1, <2>2
<1>3. CASE Dial \/ Register \/ Replay \/ Recache
  <2>1. UNCHANGED <<cur, connected, gauge, hb, app, lost>>
    BY Zenon, <1>3 DEF Dial, Register, Replay, Recache, shared, senders, fates
  <2>2. loop.pc \in {"dial", "register", "replay", "recache"} /\ hb = "off"
    BY Zenon, <1>3 DEF Dial, Register, Replay, Recache
  <2>3. loop'.pc \in {"register", "publish", "enter", "backoff", "replay", "recache"}
    <3>1. CASE Dial
      BY Zenon, <3>1 DEF Dial
    <3>2. CASE Register
      <4>1. CASE loop' = AfterConnect(FALSE)
        BY Zenon, <1>f, <4>1
      <4>2. CASE loop' = [loop EXCEPT !.pc = "publish"]
        BY Zenon, <4>2
      <4> QED BY Zenon, <3>2, <4>1, <4>2 DEF Register
    <3>3. CASE loop' = AfterConnect(TRUE)
      BY Zenon, <1>f, <3>3
    <3>4. CASE loop' = [loop EXCEPT !.held = AfterBatch(loop.held)] \/ loop' = [loop EXCEPT !.held = Tail(@)]
      BY Zenon, <2>2, <3>4, <1>3 DEF Dial, Register, Replay, Recache
    <3>5. CASE loop' = [loop EXCEPT !.pc = "recache"]
      BY Zenon, <3>5
    <3> QED BY Zenon, <1>3, <3>1, <3>2, <3>3, <3>4, <3>5 DEF Replay, Recache
  <2> QED BY Zenon, <1>1, <2>1, <2>2, <2>3
<1>4. CASE CheckContext \/ PickStream \/ Recv \/ RecvFails
  <2>1. UNCHANGED <<cur, connected, gauge, hb, app, lost>>
    BY Zenon, <1>4 DEF CheckContext, PickStream, Recv, RecvFails, notLoop, shared, senders, fates
  <2>2. /\ loop.pc \in {"check", "snap", "recv"}
        /\ loop'.pc \in {"check", "snap", "recv", "disc"}
    BY Zenon, <1>4 DEF CheckContext, PickStream, Recv, RecvFails
  <2> QED BY Zenon, <1>1, <2>1, <2>2
<1>5. CASE EnterMessageLoop
  <2>1. UNCHANGED <<cur, connected, gauge, app, lost>> /\ hb' = "idle" /\ loop.pc = "enter"
        /\ loop'.pc = "check"
    BY Zenon, <1>5 DEF EnterMessageLoop, shared, fates
  <2> QED BY Zenon, <2>1
<1>6. CASE Publish
  <2>1. /\ cur' # NoStream /\ connected' = TRUE /\ UNCHANGED <<gauge, hb, app, lost>>
        /\ loop.pc = "publish" /\ loop'.pc = "notifyUp"
    BY Zenon, <1>6 DEF Publish, LoopOK, senders, fates
  <2> QED BY Zenon, <2>1
<1>7. CASE NotifyUp
  <2>1. /\ UNCHANGED <<cur, connected, hb, app, lost>> /\ gauge' = TRUE
        /\ loop.pc = "notifyUp" /\ loop'.pc = "drain"
    BY Zenon, <1>7 DEF NotifyUp, shared, senders, fates
  <2> QED BY Zenon, <2>1
<1>8. CASE ReplayDrain \/ ReplayStream
  <2>1. UNCHANGED <<cur, connected, gauge, hb, app>> /\ loop.pc \in {"drain", "replayStream"}
    BY Zenon, <1>8 DEF ReplayDrain, ReplayStream, shared, senders
  <2>2. loop'.pc \in {"enter", "backoff", "replayStream", "replay"}
    <3>1. CASE loop' = AfterConnect(TRUE)
      BY Zenon, <1>f, <3>1
    <3>2. CASE \/ loop' = [loop EXCEPT !.pc = "replayStream", !.held = cache]
               \/ loop' = [loop EXCEPT !.pc = "replay", !.s = cur]
      BY Zenon, <3>2
    <3> QED BY Zenon, <1>8, <3>1, <3>2 DEF ReplayDrain, ReplayStream
  <2>3. lost' = lost \/ (loop.pc = "replayStream" /\ cur = NoStream)
    BY Zenon, <1>8 DEF ReplayDrain, ReplayStream, fates
  <2> QED BY Zenon, <2>1, <2>2, <2>3
<1>9. CASE SetDisconnected \/ NotifyDown \/ LoopClose
  <2>1. UNCHANGED <<hb, app, lost>> /\ connected' = FALSE
    BY Zenon, <1>9 DEF SetDisconnected, NotifyDown, LoopClose, CloseConn, shared, senders, fates
  <2>2. \/ loop.pc = "disc" /\ gauge' = gauge
           /\ loop'.pc = IF connected THEN "notifyDown" ELSE AfterDisconnect
        \/ loop.pc = "notifyDown" /\ gauge' = FALSE /\ loop'.pc = AfterDisconnect
        \/ loop.pc = "close" /\ gauge' = gauge /\ loop'.pc = "endloop"
    BY Zenon, <1>9 DEF SetDisconnected, NotifyDown, LoopClose
  <2>3. AfterDisconnect \in {"close", "endloop"}
    BY Zenon DEF AfterDisconnect
  <2> QED BY Zenon, <2>1, <2>2, <2>3
<1>10. CASE HeartbeatNext
  <2>1. UNCHANGED <<cur, connected, gauge, loop, app, lost>> /\ hb # "off"
    BY Zenon, <1>10, Frames DEF HeartbeatNext, HeartbeatTick, HeartbeatSend, HeartbeatExit, shared, fates
  <2> QED BY Zenon, <2>1
<1>11. CASE OtherPick \/ OtherSend \/ ParentCancelled \/ StreamBreaks \/ Terminated \/ UNCHANGED vars
  <2>1. UNCHANGED <<cur, connected, gauge, hb, loop, app, lost>>
    BY Zenon, <1>11, Frames DEF shared, senders, fates, Terminated, vars
  <2> QED BY Zenon, <2>1
<1>12. CASE AppNext
  <2>1. UNCHANGED <<loop, hb, gauge>>
    BY Zenon, <1>12, Frames
  <2>2. CASE SendMetrics \/ SendMetricsSend \/ SendMetricsAdd
    <3>1. UNCHANGED <<cur, connected, lost>> /\ app.pc \in Serving
      BY Zenon, <2>2 DEF SendMetrics, SendMetricsSend, SendMetricsAdd, shared, fates
    <3>2. app'.pc \in Serving
      <4>1. CASE SendMetrics
        BY <4>1 DEF SendMetrics
      <4>2. CASE app' = AppStart
        BY Zenon, <4>2 DEF AppStart
      <4>3. CASE app' = [app EXCEPT !.pc = "add", !.s = NoStream]
        BY Zenon, <4>3
      <4>4. CASE app' = [app EXCEPT !.held = Tail(@)]
        BY Zenon, <3>1, <4>4
      <4> QED BY Zenon, <2>2, <4>1, <4>2, <4>3, <4>4 DEF SendMetricsSend, SendMetricsAdd
    <3> QED BY Zenon, <2>1, <3>1, <3>2
  <2>3. CASE FlushDrain \/ FlushCancel \/ FlushStream \/ StopCancel
    <3>1. UNCHANGED <<cur, connected, lost>>
      BY Zenon, <2>3 DEF FlushDrain, FlushCancel, FlushStream, StopCancel, notApp, shared, fates
    <3>2. \/ app'.pc \in {"cancel", "flushClose", "flushStream", "persist", "flush"}
          \/ app.pc = "select" /\ app'.pc = "stopWait"
      BY Zenon, <2>3 DEF FlushDrain, FlushCancel, FlushStream, StopCancel
    <3> QED BY Zenon, <2>1, <3>1, <3>2
  <2>4. CASE Flush \/ Persist
    <3>1. UNCHANGED <<cur, connected>>
      BY Zenon, <2>4 DEF Flush, Persist, shared
    <3>2. app'.pc \in {"flush", "persist", "flushClose"}
      <4>1. CASE app' = [AppStart EXCEPT !.pc = "flushClose"]
        BY Zenon, <4>1 DEF AppStart
      <4>2. CASE app.pc = "flush" /\ app' = [app EXCEPT !.held = AfterBatch(app.held)]
        BY Zenon, <4>2
      <4>3. CASE app' = [app EXCEPT !.pc = "persist", !.s = NoStream]
        BY Zenon, <4>3
      <4> QED BY Zenon, <2>4, <4>1, <4>2, <4>3 DEF Flush, Persist
    <3> QED BY Zenon, <2>1, <3>1, <3>2
  <2>5. CASE FlushClose \/ StopClose
    <3>1. /\ cur' = NoStream /\ connected' = FALSE /\ UNCHANGED lost
          /\ \/ app'.pc = "wait"
             \/ app.pc = "stopClose" /\ app'.pc = "stopped"
      BY Zenon, <2>5 DEF FlushClose, StopClose, CloseConn, fates
    <3> QED BY Zenon, <2>1, <3>1
  <2>6. CASE FlushWait \/ StopWait
    <3>1. /\ UNCHANGED <<cur, connected, lost>> /\ loop.pc = "exit"
          /\ \/ app'.pc = "done"
             \/ app.pc = "stopWait" /\ app'.pc = "stopClose"
      BY Zenon, <2>6 DEF FlushWait, StopWait, notApp, shared, fates
    <3> QED BY Zenon, <2>1, <3>1
  <2> QED BY <1>12, <2>2, <2>3, <2>4, <2>5, <2>6 DEF AppNext, StopNext
<1> QED
  BY Zenon, <1>2, <1>3, <1>4, <1>5, <1>6, <1>7, <1>8, <1>9, <1>10, <1>11, <1>12 DEF Next, LoopRun

\* The control of the client keeps its invariant.
LEMMA ControlInvariant == Spec => []Control
<1>1. Control /\ [Next]_vars => Control'
  BY Zenon, TypeStep, RegisteredStep, ControlStep DEF Control
<1> QED BY <1>1, Starts, PTL DEF Spec

-----------------------------------------------------------------------------
(* How often a sequence has a metric *)

\* A metric occurs a natural number of times in a sequence.
LEMMA OccurrencesType ==
    ASSUME NEW s \in Seq(Metric), NEW m
    PROVE  /\ IsFiniteSet({i \in DOMAIN s : s[i] = m})
           /\ Occurrences(s, m) \in Nat
           /\ Occurrences(s, m) = 0 <=> m \notin Elems(s)
<1> DEFINE I == {i \in DOMAIN s : s[i] = m}
<1>1. DOMAIN s = 1 .. Len(s) /\ Len(s) \in Nat
  BY Zenon, LenProperties
<1>2. IsFiniteSet(DOMAIN s)
  BY <1>1, FS_Interval
<1>3. IsFiniteSet(I) /\ Cardinality(I) \in Nat
  BY Zenon, <1>2, FS_Subset, FS_CardinalityType
<1>4. Cardinality(I) = 0 <=> I = {}
  BY Zenon, <1>3, FS_EmptySet
<1>5. I = {} <=> m \notin Elems(s)
  BY Zenon DEF Elems
<1> QED BY Zenon, <1>3, <1>4, <1>5 DEF Occurrences

\* Nothing occurs in the empty cache or batch.
LEMMA OccurrencesEmpty ==
    ASSUME NEW m PROVE Occurrences(<< >>, m) = 0
<1>1. {i \in DOMAIN << >> : << >>[i] = m} = {}
  BY EmptySeq, LenProperties
<1> QED BY Zenon, <1>1, FS_EmptySet DEF Occurrences

\* The second half of a concatenation is the sequence moved.
LEMMA OccurrencesConcat ==
    ASSUME NEW s \in Seq(Metric), NEW t \in Seq(Metric), NEW m
    PROVE  Occurrences(s \o t, m) = Occurrences(s, m) + Occurrences(t, m)
<1> DEFINE u == s \o t
           n == Len(s)
           I == {i \in DOMAIN s : s[i] = m}
           J == {i \in DOMAIN t : t[i] = m}
           U == {i \in DOMAIN u : u[i] = m}
           K == {i \in n + 1 .. n + Len(t) : t[i - n] = m}
           f == [j \in J |-> j + n]
<1>1. /\ n \in Nat /\ Len(t) \in Nat /\ DOMAIN s = 1 .. n /\ DOMAIN t = 1 .. Len(t)
  BY Zenon, LenProperties
<1>2. /\ u \in Seq(Metric) /\ Len(u) = n + Len(t)
      /\ \A i \in 1 .. n + Len(t) : u[i] = IF i <= n THEN s[i] ELSE t[i - n]
  BY Zenon, ConcatProperties
<1>3. DOMAIN u = 1 .. n + Len(t)
  BY Zenon, <1>2, LenProperties
<1>4. U = I \cup K /\ I \cap K = {}
  <2> HIDE DEF u
  <2> QED BY <1>1, <1>2, <1>3
<1>5. f \in Bijection(J, K)
  <2>1. f \in [J -> K] /\ \A a, b \in J : f[a] = f[b] => a = b
    BY <1>1
  <2>2. \A k \in K : k - n \in J /\ f[k - n] = k
    BY <1>1
  <2>3. \A k \in K : \E j \in J : f[j] = k
    BY Zenon, <2>2
  <2> QED BY Zenon, <2>1, <2>3, Fun_IsBij
<1>6. IsFiniteSet(I) /\ IsFiniteSet(J) /\ Cardinality(I) \in Nat /\ Cardinality(J) \in Nat
  BY Zenon, OccurrencesType, FS_CardinalityType
<1>7. IsFiniteSet(K) /\ Cardinality(K) = Cardinality(J)
  <2>1. ExistsBijection(J, K)
    BY Zenon, <1>5 DEF ExistsBijection
  <2> QED BY Zenon, <1>6, <2>1, FS_Bijection
<1>8. Cardinality(I \cup K) = Cardinality(I) + Cardinality(K) - Cardinality(I \cap K)
  BY Zenon, <1>6, <1>7, FS_Union
<1>9. Cardinality(U) = Cardinality(I) + Cardinality(J)
  <2>1. Cardinality(I \cap K) = 0
    BY Zenon, <1>4, FS_EmptySet
  <2>2. U = I \cup K
    BY Zenon, <1>4
  <2> HIDE DEF I, J, K, U
  <2> QED BY <1>6, <1>7, <1>8, <2>1, <2>2
<1> QED BY Zenon, <1>9 DEF Occurrences

\* A sequence of one metric holds that metric once.
LEMMA OccurrencesSingle ==
    ASSUME NEW e \in Metric, NEW m
    PROVE  /\ <<e>> \in Seq(Metric)
           /\ Occurrences(<<e>>, m) = Count(e = m)
<1>1. {i \in DOMAIN <<e>> : <<e>>[i] = m} = IF e = m THEN {1} ELSE {}
  OBVIOUS
<1>2. Cardinality({1}) = 1 /\ Cardinality({}) = 0
  BY Zenon, FS_Singleton, FS_EmptySet
<1>3. Occurrences(<<e>>, m) = Count(e = m)
  BY Zenon, <1>1, <1>2 DEF Occurrences, Count
<1> QED BY <1>3

\* Appending a metric adds one occurrence of it and of no other.
LEMMA OccurrencesAppend ==
    ASSUME NEW s \in Seq(Metric), NEW e \in Metric, NEW m
    PROVE  Occurrences(Append(s, e), m) = Occurrences(s, m) + Count(e = m)
<1>1. Append(s, e) = s \o <<e>>
  BY Zenon, AppendIsConcat
<1>2. <<e>> \in Seq(Metric) /\ Occurrences(<<e>>, m) = Count(e = m)
  BY OccurrencesSingle
<1>3. Occurrences(s \o <<e>>, m) = Occurrences(s, m) + Occurrences(<<e>>, m)
  BY Zenon, <1>2, OccurrencesConcat
<1> QED BY Zenon, <1>1, <1>2, <1>3

\* Dropping the oldest metric takes one occurrence of it away.
LEMMA OccurrencesTail ==
    ASSUME NEW s \in Seq(Metric), s # << >>, NEW m
    PROVE  Occurrences(s, m) = Count(Head(s) = m) + Occurrences(Tail(s), m)
<1>1. Len(s) \in Nat \ {0} /\ Head(s) \in Metric /\ Tail(s) \in Seq(Metric)
  BY Zenon, TailType
<1>2. SubSeq(s, 1, Len(s)) = <<s[1]>> \o SubSeq(s, 1 + 1, Len(s))
  BY <1>1, SubSeqRecursiveFirst
<1>3. SubSeq(s, 1, Len(s)) = s
  BY Zenon, SubSeqFull
<1>4. SubSeq(s, 1 + 1, Len(s)) = Tail(s)
  BY TailIsSubSeq
<1>5. s[1] = Head(s)
  BY <1>1
<1>6. s = <<Head(s)>> \o Tail(s)
  BY Zenon, <1>2, <1>3, <1>4, <1>5
<1>7. /\ <<Head(s)>> \in Seq(Metric)
      /\ Occurrences(<<Head(s)>>, m) = Count(Head(s) = m)
  BY <1>1, OccurrencesSingle
<1>8. Occurrences(<<Head(s)>> \o Tail(s), m) = Occurrences(<<Head(s)>>, m) + Occurrences(Tail(s), m)
  BY Zenon, <1>1, <1>7, OccurrencesConcat
<1> QED BY Zenon, <1>6, <1>7, <1>8

\* A batch and the rest are the whole.
LEMMA OccurrencesBatch ==
    ASSUME NEW s \in Seq(Metric), NEW m
    PROVE  /\ Batch(s) \in Seq(Metric)
           /\ Occurrences(s, m) = Occurrences(Batch(s), m)
                 + IF Len(s) <= BatchSize THEN 0 ELSE Occurrences(AfterBatch(s), m)
<1>0. BatchSize \in Nat \ {0} /\ Len(s) \in Nat
  BY Zenon, BoundAssumption, LenProperties
<1>1. CASE Len(s) <= BatchSize
  <2>1. Batch(s) = SubSeq(s, 1, Len(s))
    BY <1>0, <1>1 DEF Batch, Smaller
  <2>2. Batch(s) = s
    BY Zenon, <2>1, SubSeqFull
  <2>3. Occurrences(s, m) \in Nat
    BY Zenon, OccurrencesType
  <2> QED BY <1>1, <2>2, <2>3
<1>2. CASE ~(Len(s) <= BatchSize)
  <2>1. Batch(s) = SubSeq(s, 1, BatchSize)
    BY <1>0, <1>2 DEF Batch, Smaller
  <2>2. 1 \in 1 .. Len(s) + 1 /\ BatchSize \in 1 - 1 .. Len(s) /\ Len(s) \in BatchSize .. Len(s)
    BY <1>0, <1>2
  <2>3. SubSeq(s, 1, BatchSize) \o SubSeq(s, BatchSize + 1, Len(s)) = SubSeq(s, 1, Len(s))
    BY Zenon, <2>2, ConcatAdjacentSubSeq
  <2>4. Batch(s) \o AfterBatch(s) = s
    BY Zenon, <2>1, <2>3, SubSeqFull DEF AfterBatch
  <2>5. \A i \in 1 .. BatchSize : s[i] \in Metric
    BY <1>0, <1>2, ElementOfSeq
  <2>6. Batch(s) \in Seq(Metric)
    BY <1>0, <2>1, <2>5, SubSeqProperties
  <2>7. AfterBatch(s) \in Seq(Metric)
    BY Zenon, <1>2, AfterBatchType
  <2>8. Occurrences(Batch(s) \o AfterBatch(s), m)
          = Occurrences(Batch(s), m) + Occurrences(AfterBatch(s), m)
    BY <2>6, <2>7, OccurrencesConcat
  <2> QED BY Zenon, <1>2, <2>4, <2>6, <2>8
<1> QED BY Zenon, <1>1, <1>2

\* A batch of the next k metrics holds each of them once and no other.
LEMMA OccurrencesFresh ==
    ASSUME NEW n \in Nat, NEW k \in Nat, NEW m \in Metric
    PROVE  Occurrences([i \in 1 .. k |-> n + i], m) = Count(n < m /\ m <= n + k)
<1>0. m \in Nat
  BY BoundAssumption DEF Metric
<1>1. {i \in 1 .. k : n + i = m} = IF n < m /\ m <= n + k THEN {m - n} ELSE {}
  BY <1>0
<1>2. Cardinality({m - n}) = 1 /\ Cardinality({}) = 0
  BY Zenon, FS_Singleton, FS_EmptySet
<1>3. {i \in DOMAIN [j \in 1 .. k |-> n + j] : [j \in 1 .. k |-> n + j][i] = m}
        = {i \in 1 .. k : n + i = m}
  BY Zenon
<1> QED BY Zenon, <1>1, <1>2, <1>3 DEF Occurrences, Count

-----------------------------------------------------------------------------
(* Where every metric is *)

\* The terms of the sum.
LEMMA Terms ==
    ASSUME TypeOK, Balanced, NEW m \in Metric
    PROVE  /\ Occurrences(cache, m) \in Nat /\ Occurrences(loop.held, m) \in Nat
           /\ Occurrences(app.held, m) \in Nat /\ Occurrences(file, m) \in Nat
           /\ sent[m] \in Nat /\ Count(m \in evicted) \in {0, 1} /\ Count(m \in lost) \in {0, 1}
           /\ Count(m <= submitted) \in {0, 1}
           /\ Places(m) = Count(m <= submitted)
BY Zenon, OccurrencesType DEF TypeOK, Balanced, Count

\* The metrics of a message, each once.
LEMMA AcceptCounts ==
    ASSUME TypeOK, NEW q \in Seq(Metric), NEW s, NEW kind, Accept(s, kind, Elems(q)),
           NEW m \in Metric, Occurrences(q, m) <= 1
    PROVE  sent'[m] = sent[m] + Occurrences(q, m)
<1>1. Occurrences(q, m) \in Nat /\ (Occurrences(q, m) = 0 <=> m \notin Elems(q))
  BY Zenon, OccurrencesType
<1>2. sent'[m] = IF m \in Elems(q) THEN sent[m] + 1 ELSE sent[m]
  BY Zenon DEF Accept
<1>3. sent[m] \in Nat
  BY Zenon DEF TypeOK
<1>4. Occurrences(q, m) = IF m \in Elems(q) THEN 1 ELSE 0
  BY <1>1
<1> HIDE DEF Occurrences, Elems
<1> QED BY <1>2, <1>3, <1>4

\* The metrics dropped with a sequence, each once.
LEMMA DropCounts ==
    ASSUME NEW q \in Seq(Metric), NEW S, NEW m, Occurrences(q, m) + Count(m \in S) <= 1
    PROVE  Count(m \in S \cup Elems(q)) = Count(m \in S) + Occurrences(q, m)
<1>1. Occurrences(q, m) \in Nat /\ (Occurrences(q, m) = 0 <=> m \notin Elems(q))
  BY Zenon, OccurrencesType
<1>2. CASE m \in Elems(q)
  BY <1>1, <1>2 DEF Count
<1>3. CASE m \notin Elems(q)
  BY <1>1, <1>3 DEF Count
<1> QED BY Zenon, <1>2, <1>3

\* Add takes a metric in and may evict the oldest one.
LEMMA AddCounts ==
    ASSUME TypeOK, NEW e \in Metric, CacheAdd(e), NEW m \in Metric,
           Occurrences(cache, m) + Count(m \in evicted) <= 1
    PROVE  Occurrences(cache', m) + Count(m \in evicted')
             = Occurrences(cache, m) + Count(m \in evicted) + Count(e = m)
<1>0. /\ cache \in Seq(Metric) /\ CacheMaxSize \in Nat \ {0} /\ Occurrences(cache, m) \in Nat
      /\ Len(<< >>) = 0 /\ Count(m \in evicted) \in {0, 1} /\ Count(e = m) \in {0, 1}
  BY Zenon, OccurrencesType, BoundAssumption, EmptySeq DEF TypeOK, Count
<1>1. CASE Len(cache) = CacheMaxSize
  <2>1. cache # << >>
    BY Zenon, <1>0, <1>1
  <2>2. Tail(cache) \in Seq(Metric) /\ Occurrences(Tail(cache), m) \in Nat
    BY Zenon, <1>0, <2>1, TailType, OccurrencesType
  <2>3. Occurrences(cache, m) = Count(Head(cache) = m) + Occurrences(Tail(cache), m)
    BY Zenon, <1>0, <2>1, OccurrencesTail
  <2>4. cache' = Append(Tail(cache), e) /\ evicted' = evicted \cup {Head(cache)}
    BY Zenon, <1>1 DEF CacheAdd, Fifo!Push
  <2>5. Occurrences(cache', m) = Occurrences(Tail(cache), m) + Count(e = m)
    <3> DEFINE t == Tail(cache)
    <3>1. t \in Seq(Metric)
      BY Zenon, <2>2
    <3> HIDE DEF t
    <3>2. Occurrences(Append(t, e), m) = Occurrences(t, m) + Count(e = m)
      BY <3>1, OccurrencesAppend
    <3> QED BY Zenon, <2>4, <3>2 DEF t
  <2>6. Count(m \in evicted') = Count(m \in evicted) + Count(Head(cache) = m)
    <3>1. CASE Head(cache) = m
      <4>1. Count(Head(cache) = m) = 1
        BY Zenon, <3>1 DEF Count
      <4>2. Count(m \in evicted) = 0
        BY <1>0, <2>2, <2>3, <4>1
      <4>3. Count(m \in evicted') = 1
        BY Zenon, <2>4, <3>1 DEF Count
      <4> QED BY <4>1, <4>2, <4>3
    <3>2. CASE Head(cache) # m
      <4>1. Count(Head(cache) = m) = 0 /\ (m \in evicted' <=> m \in evicted)
        BY Zenon, <2>4, <3>2 DEF Count
      <4>2. Count(m \in evicted') = Count(m \in evicted)
        BY Zenon, <4>1 DEF Count
      <4> QED BY <1>0, <4>1, <4>2
    <3> QED BY Zenon, <3>1, <3>2
  <2>7. Count(Head(cache) = m) \in {0, 1}
    BY Zenon DEF Count
  <2> QED BY <1>0, <2>2, <2>3, <2>5, <2>6, <2>7
<1>2. CASE Len(cache) # CacheMaxSize
  <2>1. cache' = Append(cache, e) /\ evicted' = evicted
    BY Zenon, <1>2 DEF CacheAdd, Fifo!Push
  <2>2. Occurrences(cache', m) = Occurrences(cache, m) + Count(e = m)
    BY <1>0, <2>1, OccurrencesAppend
  <2>3. Count(m \in evicted') = Count(m \in evicted)
    BY Zenon, <2>1 DEF Count
  <2> QED BY <1>0, <2>2, <2>3
<1> QED BY Zenon, <1>1, <1>2

\* What is left of a sequence after its head, or nothing when it was the last.
LEMMA RestCounts ==
    ASSUME NEW s \in Seq(Metric), s # << >>, NEW m
    PROVE  Occurrences(s, m)
             = Count(Head(s) = m) + Occurrences(IF Len(s) = 1 THEN << >> ELSE Tail(s), m)
<1>1. /\ Tail(s) \in Seq(Metric) /\ Len(s) \in Nat \ {0} /\ Len(Tail(s)) = Len(s) - 1
  BY Zenon, TailType
<1>2. Len(s) = 1 => Tail(s) = << >>
  <2> DEFINE t == Tail(s)
  <2>1. t \in Seq(Metric) /\ Len(t) = Len(s) - 1
    BY Zenon, <1>1
  <2> HIDE DEF t
  <2>2. Len(s) = 1 => t = << >>
    BY <2>1, EmptySeq
  <2> QED BY Zenon, <2>2 DEF t
<1>3. (IF Len(s) = 1 THEN << >> ELSE Tail(s)) = Tail(s)
  BY Zenon, <1>2
<1>4. Occurrences(s, m) = Count(Head(s) = m) + Occurrences(Tail(s), m)
  BY Zenon, OccurrencesTail
<1> QED BY <1>3, <1>4, Zenon

\* What is left of a sequence after a batch.
LEMMA RestBatchCounts ==
    ASSUME NEW s \in Seq(Metric), NEW r, NEW m,
           r = IF Len(s) <= BatchSize THEN << >> ELSE AfterBatch(s)
    PROVE  /\ Occurrences(s, m) = Occurrences(Batch(s), m) + Occurrences(r, m)
           /\ Batch(s) \in Seq(Metric)
           /\ Occurrences(Batch(s), m) \in Nat /\ Occurrences(r, m) \in Nat
<1>1. /\ Batch(s) \in Seq(Metric)
      /\ Occurrences(s, m) = Occurrences(Batch(s), m)
           + IF Len(s) <= BatchSize THEN 0 ELSE Occurrences(AfterBatch(s), m)
  BY Zenon, OccurrencesBatch
<1>2. CASE Len(s) <= BatchSize
  <2>1. Occurrences(r, m) = 0
    BY <1>2, OccurrencesEmpty, Zenon
  <2>2. Occurrences(Batch(s), m) \in Nat
    BY Zenon, <1>1, OccurrencesType
  <2> QED BY <1>1, <1>2, <2>1, <2>2
<1>3. CASE ~(Len(s) <= BatchSize)
  <2>1. r \in Seq(Metric)
    BY Zenon, <1>3, AfterBatchType
  <2> QED BY Zenon, <1>1, <1>3, <2>1, OccurrencesType
<1> QED BY Zenon, <1>2, <1>3

\* Every step moves metrics from one place to one other.
LEMMA BalanceStep ==
    ASSUME Control, Balanced, [Next]_vars
    PROVE  Balanced'
<1> SUFFICES ASSUME NEW m \in Metric
             PROVE  Places(m)' = Count(m <= submitted')
  BY Zenon DEF Balanced
<1> DEFINE Goal == Places(m)' = Count(m <= submitted')
           C == Occurrences(cache, m)
           L == Occurrences(loop.held, m)
           A == Occurrences(app.held, m)
           F == Occurrences(file, m)
           E == Count(m \in evicted)
           X == Count(m \in lost)
           Sum == Count(m <= submitted)
           C1 == Occurrences(cache', m)
           L1 == Occurrences(loop'.held, m)
           A1 == Occurrences(app'.held, m)
           F1 == Occurrences(file', m)
           E1 == Count(m \in evicted')
           X1 == Count(m \in lost')
<1>t. /\ TypeOK /\ LoopOK /\ AppOK /\ cache \in Seq(Metric) /\ file \in Seq(Metric)
      /\ loop \in [pc : LoopPC, inner : BOOLEAN, s : Stream \cup {NoStream},
                   held : Seq(Metric), err : BOOLEAN]
      /\ app \in [pc : AppPC, s : Stream \cup {NoStream}, held : Seq(Metric)]
      /\ loop.held \in Seq(Metric) /\ app.held \in Seq(Metric)
  BY Zenon DEF Control, TypeOK
<1>n. /\ C \in Nat /\ L \in Nat /\ A \in Nat /\ F \in Nat /\ sent[m] \in Nat
      /\ E \in {0, 1} /\ X \in {0, 1} /\ Sum \in {0, 1}
      /\ C + L + A + F + sent[m] + E + X = Sum
  BY Zenon, <1>t, Terms DEF Places
<1>z. Occurrences(<< >>, m) = 0
  BY Zenon, OccurrencesEmpty
<1>c. \A ok \in BOOLEAN : AfterConnect(ok).held = << >>
  BY Zenon DEF AfterConnect, LoopStart
<1>p. Places(m)' = C1 + L1 + A1 + F1 + sent'[m] + E1 + X1
  BY Zenon DEF Places
<1> HIDE DEF C, L, A, F, E, X, Sum, C1, L1, A1, F1, E1, X1
\* Nothing moves.
<1>1. ASSUME UNCHANGED <<cache, file, sent, evicted, lost, submitted>>,
             loop'.held = loop.held, app'.held = app.held
      PROVE  Goal
  <2>1. C1 = C /\ L1 = L /\ A1 = A /\ F1 = F /\ E1 = E /\ X1 = X /\ Count(m <= submitted') = Sum
    BY Zenon, <1>1 DEF C, L, A, F, E, X, Sum, C1, L1, A1, F1, E1, X1
  <2> QED BY <1>1, <1>n, <1>p, <2>1
<1>2. CASE DialFails \/ Dial \/ Register \/ Publish \/ NotifyUp
  <2>1. UNCHANGED <<cache, file, evicted, lost, submitted, app>>
    BY Zenon, <1>2 DEF DialFails, Dial, Register, Publish, NotifyUp, notLoop, fates
  <2>2. sent' = sent
    <3>1. \A s, kind : Accept(s, kind, {}) => sent' = sent
      BY Zenon, <1>t DEF Accept, TypeOK
    <3> QED BY Zenon, <1>2, <3>1 DEF DialFails, Dial, Register, Publish, NotifyUp, notLoop, wire
  <2>3. loop.held = << >>
    BY Zenon, <1>2, <1>t DEF DialFails, Dial, Register, Publish, NotifyUp, LoopOK
  <2>4. loop'.held = << >>
    <3>1. CASE \E ok \in BOOLEAN : loop' = AfterConnect(ok)
      BY Zenon, <1>c, <3>1
    <3>2. CASE loop'.held = loop.held
      BY Zenon, <2>3, <3>2
    <3>3. CASE DialFails
      BY Zenon, <1>t, <3>1, <3>2, <3>3 DEF DialFails
    <3>4. CASE Dial
      BY Zenon, <1>t, <3>1, <3>2, <3>4 DEF Dial
    <3>5. CASE Register
      BY Zenon, <1>t, <3>1, <3>2, <3>5 DEF Register
    <3>6. CASE Publish
      BY Zenon, <1>t, <3>1, <3>2, <3>6 DEF Publish
    <3>7. CASE NotifyUp
      BY Zenon, <1>t, <3>1, <3>2, <3>7 DEF NotifyUp
    <3> QED BY Zenon, <1>2, <3>3, <3>4, <3>5, <3>6, <3>7
  <2> QED BY <1>1, <2>1, <2>2, <2>3, <2>4
<1>3. CASE ReplayDrain
  <2>1. /\ UNCHANGED <<file, evicted, lost, submitted, app, sent>>
        /\ cache' = << >> /\ loop.held = << >>
    BY Zenon, <1>3, <1>t DEF ReplayDrain, LoopOK, fates, wire
  <2>2. loop'.held = cache
    BY Zenon, <1>3, <1>t, <1>c DEF ReplayDrain
  <2>3. C1 = 0 /\ L = 0 /\ L1 = C /\ A1 = A /\ F1 = F /\ E1 = E /\ X1 = X
        /\ Count(m <= submitted') = Sum
    BY <1>z, <2>1, <2>2 DEF C, L, A, F, E, X, Sum, C1, L1, A1, F1, E1, X1
  <2> QED BY <1>n, <1>p, <2>1, <2>3
<1>4. CASE ReplayStream
  <2>1. UNCHANGED <<cache, file, evicted, submitted, app, sent>>
    BY Zenon, <1>4 DEF ReplayStream, wire
  <2>2. CASE cur = NoStream
    <3>1. lost' = lost \cup Elems(loop.held) /\ loop'.held = << >>
      BY Zenon, <1>4, <1>c, <2>2 DEF ReplayStream
    <3>2. Count(m \in lost \cup Elems(loop.held)) = Count(m \in lost) + Occurrences(loop.held, m)
      <4>1. Occurrences(loop.held, m) + Count(m \in lost) <= 1
        <5>1. L + X <= 1
          BY <1>n
        <5> QED BY Zenon, <5>1 DEF L, X
      <4> QED BY Zenon, <1>t, <4>1, DropCounts
    <3>3. C1 = C /\ L1 = 0 /\ A1 = A /\ F1 = F /\ E1 = E /\ X1 = X + L
          /\ Count(m <= submitted') = Sum
      BY Zenon, <1>z, <2>1, <3>1, <3>2 DEF C, L, A, F, E, X, Sum, C1, L1, A1, F1, E1, X1
    <3> QED BY <1>n, <1>p, <2>1, <3>3
  <2>3. CASE cur # NoStream
    <3>1. UNCHANGED lost /\ loop'.held = loop.held
      BY Zenon, <1>4, <1>t, <2>3 DEF ReplayStream
    <3> QED BY Zenon, <1>1, <2>1, <3>1
  <2> QED BY Zenon, <2>2, <2>3
<1>5. CASE Replay
  <2>1. UNCHANGED <<cache, file, evicted, lost, submitted, app>>
    BY Zenon, <1>5 DEF Replay, fates
  <2>2. CASE Accept(loop.s, "other", Elems(Batch(loop.held))) /\ loop' # [loop EXCEPT !.pc = "recache"]
    <3>1. loop'.held = IF Len(loop.held) <= BatchSize THEN << >> ELSE AfterBatch(loop.held)
      BY Zenon, <1>5, <1>t, <1>c, <2>2 DEF Replay
    <3> DEFINE B == Occurrences(Batch(loop.held), m)
    <3>2. L = B + L1 /\ B \in Nat /\ L1 \in Nat /\ Batch(loop.held) \in Seq(Metric)
      <4> DEFINE h == loop.held
                 r == IF Len(h) <= BatchSize THEN << >> ELSE AfterBatch(h)
      <4>1. h \in Seq(Metric)
        BY Zenon, <1>t
      <4>2. r = IF Len(h) <= BatchSize THEN << >> ELSE AfterBatch(h)
        BY Zenon
      <4> HIDE DEF h, r
      <4>3. /\ Occurrences(h, m) = Occurrences(Batch(h), m) + Occurrences(r, m)
            /\ Batch(h) \in Seq(Metric)
            /\ Occurrences(Batch(h), m) \in Nat /\ Occurrences(r, m) \in Nat
        BY <4>1, <4>2, RestBatchCounts
      <4> QED BY <3>1, <4>3, Zenon DEF h, r, L, L1
    <3>3. B <= 1
      <4> HIDE DEF B
      <4> QED BY <1>n, <3>2
    <3>4. sent'[m] = sent[m] + B
      BY Zenon, <1>t, <2>2, <3>2, <3>3, AcceptCounts
    <3> HIDE DEF B
    <3>5. C1 = C /\ A1 = A /\ F1 = F /\ E1 = E /\ X1 = X /\ Count(m <= submitted') = Sum
      BY Zenon, <2>1 DEF C, A, F, E, X, Sum, C1, A1, F1, E1, X1
    <3> QED BY <1>n, <1>p, <3>2, <3>4, <3>5
  <2>3. CASE UNCHANGED wire /\ loop' = [loop EXCEPT !.pc = "recache"]
    <3>1. loop'.held = loop.held /\ sent' = sent
      BY Zenon, <1>t, <2>3 DEF wire
    <3> QED BY Zenon, <1>1, <2>1, <3>1
  <2>4. CASE Accept(loop.s, "other", Elems(Batch(loop.held))) /\ loop' = [loop EXCEPT !.pc = "recache"]
             /\ ~UNCHANGED wire
    BY Zenon, <1>5, <1>c, <1>t, <2>4 DEF Replay, AfterConnect, LoopStart
  <2> QED BY Zenon, <1>5, <2>2, <2>3, <2>4 DEF Replay
<1>6. CASE Recache
  <2>1. /\ UNCHANGED <<file, lost, submitted, app, sent>> /\ CacheAdd(Head(loop.held))
        /\ loop.held # << >>
    BY Zenon, <1>6, <1>t DEF Recache, LoopOK, wire
  <2>2. loop'.held = IF Len(loop.held) = 1 THEN << >> ELSE Tail(loop.held)
    BY Zenon, <1>6, <1>t, <1>c DEF Recache
  <2> DEFINE H == Count(Head(loop.held) = m)
  <2>3. L = H + L1
    <3> DEFINE h == loop.held
    <3>1. h \in Seq(Metric) /\ h # << >>
      BY Zenon, <1>t, <2>1
    <3> HIDE DEF h
    <3>2. Occurrences(h, m)
            = Count(Head(h) = m) + Occurrences(IF Len(h) = 1 THEN << >> ELSE Tail(h), m)
      BY Zenon, <3>1, RestCounts
    <3> QED BY <2>2, <3>2, Zenon DEF h, L, L1
  <2>4. C1 + E1 = C + E + H
    <3>1. Head(loop.held) \in Metric /\ C + E <= 1
      BY <1>t, <1>n, <2>1, TailType
    <3> QED BY <1>t, <2>1, <3>1, AddCounts DEF C, E, C1, E1
  <2>5. H \in {0, 1} /\ C1 \in Nat /\ E1 \in {0, 1} /\ L1 \in Nat
    <3>1. TypeOK' /\ LoopOK'
      BY Zenon, <1>t, TypeStep
    <3>2. cache' \in Seq(Metric) /\ (loop').held \in Seq(Metric)
      BY Zenon, <3>1 DEF TypeOK
    <3> QED BY Zenon, <3>2, OccurrencesType DEF C1, E1, L1, Count
  <2>6. A1 = A /\ F1 = F /\ X1 = X /\ Count(m <= submitted') = Sum
    BY Zenon, <2>1 DEF A, F, X, Sum, A1, F1, X1
  <2> HIDE DEF H
  <2> QED BY <1>n, <1>p, <2>1, <2>3, <2>4, <2>5, <2>6
<1>7. CASE BackoffTimer \/ BackoffCancelled \/ EnterMessageLoop \/ CheckContext \/ PickStream
           \/ Recv \/ RecvFails \/ SetDisconnected \/ NotifyDown \/ LoopClose
  <2>1. UNCHANGED <<cache, file, evicted, lost, submitted, app, sent>>
    BY Zenon, <1>7 DEF BackoffTimer, BackoffCancelled, EnterMessageLoop, CheckContext, PickStream, Recv,
       RecvFails, SetDisconnected, NotifyDown, LoopClose, notLoop, fates, wire
  <2>2. loop'.held = loop.held
    <3>1. CASE BackoffTimer \/ BackoffCancelled \/ EnterMessageLoop
      BY Zenon, <1>t, <3>1 DEF BackoffTimer, BackoffCancelled, EnterMessageLoop
    <3>2. CASE CheckContext \/ PickStream
      BY Zenon, <1>t, <3>2 DEF CheckContext, PickStream
    <3>3. CASE Recv \/ RecvFails
      BY Zenon, <1>t, <3>3 DEF Recv, RecvFails
    <3>4. CASE SetDisconnected \/ NotifyDown \/ LoopClose
      BY Zenon, <1>t, <3>4 DEF SetDisconnected, NotifyDown, LoopClose
    <3> QED BY Zenon, <1>7, <3>1, <3>2, <3>3, <3>4
  <2> QED BY Zenon, <1>1, <2>1, <2>2
<1>8. CASE LeaveMessageLoop
  <2>1. UNCHANGED <<cache, file, evicted, lost, submitted, app, sent>>
    BY Zenon, <1>8 DEF LeaveMessageLoop, notLoop, fates, wire
  <2>2. loop'.held = << >> /\ loop.held = << >>
    BY Zenon, <1>8, <1>t DEF LeaveMessageLoop, LoopStart, LoopOK
  <2> QED BY Zenon, <1>1, <2>1, <2>2
<1>9. CASE HeartbeatNext \/ OtherPick \/ OtherSend \/ ParentCancelled \/ StreamBreaks
           \/ Terminated \/ UNCHANGED vars
  <2>1. UNCHANGED <<cache, file, evicted, lost, submitted, app, loop>>
    BY Zenon, <1>9, Frames DEF fates, Terminated, vars
  <2>2. sent' = sent
    <3>1. \A s, kind : Accept(s, kind, {}) => sent' = sent
      BY Zenon, <1>t DEF Accept, TypeOK
    <3> QED BY <1>9, <3>1 DEF HeartbeatNext, HeartbeatTick, HeartbeatSend, HeartbeatExit, OtherPick,
       OtherSend, ParentCancelled, StreamBreaks, Terminated, vars, wire
  <2> QED BY Zenon, <1>1, <2>1, <2>2
<1>10. CASE SendMetrics
  <2>1. PICK k \in 1 .. MaxBatch :
          /\ submitted' = submitted + k
          /\ app' = [pc |-> IF Usable = NoStream THEN "add" ELSE "send",
                     s |-> Usable, held |-> [i \in 1 .. k |-> submitted + i]]
    BY Zenon, <1>10 DEF SendMetrics
  <2>2. UNCHANGED <<cache, loop, file, sent, evicted, lost>> /\ app.held = << >>
    BY Zenon, <1>10, <1>t DEF SendMetrics, AppOK, wire, fates
  <2>3. submitted \in Nat /\ k \in Nat /\ m \in Nat
    BY <1>t, BoundAssumption DEF TypeOK, Metric
  <2>4. Occurrences([i \in 1 .. k |-> submitted + i], m)
          = Count(submitted < m /\ m <= submitted + k)
    BY Zenon, <2>3, OccurrencesFresh
  <2>5. A1 = Count(submitted < m /\ m <= submitted + k)
    BY Zenon, <2>1, <2>4 DEF A1
  <2>6. /\ C1 = C /\ L1 = L /\ A = 0 /\ F1 = F /\ E1 = E /\ X1 = X
    BY Zenon, <1>z, <2>2 DEF C, L, A, F, E, X, C1, L1, F1, E1, X1
  <2>7. Sum + Count(submitted < m /\ m <= submitted + k) = Count(m <= submitted + k)
    BY <2>3 DEF Sum, Count
  <2>8. Count(m <= submitted + k) \in {0, 1} /\ A1 \in {0, 1}
    BY Zenon, <2>5 DEF Count
  <2>9. Count(m <= submitted') = Count(m <= submitted + k)
    BY Zenon, <2>1
  <2>10. Places(m)' = C + L + A1 + F + sent[m] + E + X
    BY Zenon, <1>p, <2>2, <2>6
  <2>11. C + L + F + sent[m] + E + X = Sum
    BY <1>n, <2>6
  <2> DEFINE S == Sum
             K == Count(m <= submitted + k)
  <2> HIDE DEF C, L, A1, F, E, X, S, K
  <2>12. S + A1 = K
    BY Zenon, <2>5, <2>7 DEF S, K
  <2>13. C + L + A1 + F + sent[m] + E + X = S + A1
    BY <1>n, <2>8, <2>11 DEF S
  <2> QED BY <2>9, <2>10, <2>12, <2>13 DEF K
<1>11. CASE SendMetricsSend
  <2>1. UNCHANGED <<cache, loop, file, evicted, lost, submitted>>
    BY Zenon, <1>11 DEF SendMetricsSend, fates
  <2>2. CASE Accept(app.s, "other", Elems(app.held)) /\ app' = AppStart
    <3>1. Occurrences(app.held, m) <= 1
      <4>1. A <= 1
        BY <1>n
      <4> QED BY Zenon, <4>1 DEF A
    <3>2. sent'[m] = sent[m] + A
      BY Zenon, <1>t, <2>2, <3>1, AcceptCounts DEF A
    <3>3. app'.held = << >>
      BY Zenon, <2>2 DEF AppStart
    <3>4. C1 = C /\ L1 = L /\ A1 = 0 /\ F1 = F /\ E1 = E /\ X1 = X /\ Count(m <= submitted') = Sum
      BY Zenon, <1>z, <2>1, <3>3 DEF C, L, A, F, E, X, Sum, C1, L1, A1, F1, E1, X1
    <3> QED BY <1>n, <1>p, <3>2, <3>4
  <2>3. CASE UNCHANGED wire /\ app' = [app EXCEPT !.pc = "add", !.s = NoStream]
    <3>1. app'.held = app.held /\ sent' = sent
      BY Zenon, <1>t, <2>3 DEF wire
    <3> QED BY Zenon, <1>1, <2>1, <3>1
  <2> QED BY Zenon, <1>11, <2>2, <2>3 DEF SendMetricsSend
<1>12. CASE SendMetricsAdd
  <2>1. /\ UNCHANGED <<file, lost, submitted, loop, sent>> /\ CacheAdd(Head(app.held))
        /\ app.held # << >>
    BY Zenon, <1>12, <1>t DEF SendMetricsAdd, AppOK, wire
  <2>2. app'.held = IF Len(app.held) = 1 THEN << >> ELSE Tail(app.held)
    BY <1>12, <1>t DEF SendMetricsAdd, AppStart
  <2> DEFINE H == Count(Head(app.held) = m)
  <2>3. A = H + A1
    <3> DEFINE h == app.held
    <3>1. h \in Seq(Metric) /\ h # << >>
      BY <1>t, <2>1
    <3> HIDE DEF h
    <3>2. Occurrences(h, m)
            = Count(Head(h) = m) + Occurrences(IF Len(h) = 1 THEN << >> ELSE Tail(h), m)
      BY Zenon, <3>1, RestCounts
    <3> QED BY <2>2, <3>2, Zenon DEF h, A, A1
  <2>4. C1 + E1 = C + E + H
    <3>1. Head(app.held) \in Metric /\ C + E <= 1
      BY <1>t, <1>n, <2>1, TailType
    <3> QED BY <1>t, <2>1, <3>1, AddCounts DEF C, E, C1, E1
  <2>5. H \in {0, 1} /\ C1 \in Nat /\ E1 \in {0, 1} /\ A1 \in Nat
    <3>1. TypeOK' /\ AppOK'
      BY Zenon, <1>t, TypeStep
    <3>2. cache' \in Seq(Metric) /\ (app').held \in Seq(Metric)
      BY Zenon, <3>1 DEF TypeOK
    <3> QED BY Zenon, <3>2, OccurrencesType DEF C1, E1, A1, Count
  <2>6. L1 = L /\ F1 = F /\ X1 = X /\ Count(m <= submitted') = Sum
    BY Zenon, <2>1 DEF L, F, X, Sum, L1, F1, X1
  <2> HIDE DEF H
  <2> QED BY <1>n, <1>p, <2>1, <2>3, <2>4, <2>5, <2>6
<1>13. CASE FlushDrain
  <2>1. /\ UNCHANGED <<file, evicted, lost, submitted, loop, sent>>
        /\ cache' = << >> /\ app.held = << >> /\ app'.held = cache
    BY Zenon, <1>13, <1>t DEF FlushDrain, AppOK, fates, wire
  <2>2. C1 = 0 /\ A = 0 /\ A1 = C /\ L1 = L /\ F1 = F /\ E1 = E /\ X1 = X
        /\ Count(m <= submitted') = Sum
    BY Zenon, <1>z, <2>1 DEF C, L, A, F, E, X, Sum, C1, L1, A1, F1, E1, X1
  <2> QED BY <1>n, <1>p, <2>1, <2>2
<1>14. CASE Flush
  <2>1. UNCHANGED <<cache, file, evicted, lost, submitted, loop>>
    BY Zenon, <1>14 DEF Flush, fates
  <2>2. CASE /\ Accept(app.s, "other", Elems(Batch(app.held)))
             /\ app' = IF Len(app.held) <= BatchSize
                       THEN [AppStart EXCEPT !.pc = "flushClose"]
                       ELSE [app EXCEPT !.held = AfterBatch(app.held)]
    <3>1. app'.held = IF Len(app.held) <= BatchSize THEN << >> ELSE AfterBatch(app.held)
      BY <1>t, <2>2 DEF AppStart
    <3> DEFINE B == Occurrences(Batch(app.held), m)
    <3>2. A = B + A1 /\ B \in Nat /\ A1 \in Nat /\ Batch(app.held) \in Seq(Metric)
      <4> DEFINE h == app.held
                 r == IF Len(h) <= BatchSize THEN << >> ELSE AfterBatch(h)
      <4>1. h \in Seq(Metric)
        BY <1>t
      <4>2. r = IF Len(h) <= BatchSize THEN << >> ELSE AfterBatch(h)
        BY Zenon
      <4> HIDE DEF h, r
      <4>3. /\ Occurrences(h, m) = Occurrences(Batch(h), m) + Occurrences(r, m)
            /\ Batch(h) \in Seq(Metric)
            /\ Occurrences(Batch(h), m) \in Nat /\ Occurrences(r, m) \in Nat
        BY <4>1, <4>2, RestBatchCounts
      <4> QED BY <3>1, <4>3, Zenon DEF h, r, A, A1
    <3>3. B <= 1
      <4> HIDE DEF B
      <4> QED BY <1>n, <3>2
    <3>4. sent'[m] = sent[m] + B
      BY <1>t, <2>2, <3>2, <3>3, AcceptCounts
    <3> HIDE DEF B
    <3>5. C1 = C /\ L1 = L /\ F1 = F /\ E1 = E /\ X1 = X /\ Count(m <= submitted') = Sum
      BY Zenon, <2>1 DEF C, L, F, E, X, Sum, C1, L1, F1, E1, X1
    <3> QED BY <1>n, <1>p, <3>2, <3>4, <3>5
  <2>3. CASE UNCHANGED wire /\ app' = [app EXCEPT !.pc = "persist", !.s = NoStream]
    <3>1. app'.held = app.held /\ sent' = sent
      BY Zenon, <1>t, <2>3 DEF wire
    <3> QED BY Zenon, <1>1, <2>1, <3>1
  <2> QED BY Zenon, <1>14, <2>2, <2>3 DEF Flush
<1>15. CASE Persist
  <2>1. /\ UNCHANGED <<cache, evicted, submitted, loop, sent>> /\ app'.held = << >>
        /\ file = << >>
    BY Zenon, <1>15, <1>t DEF Persist, AppStart, AppOK, wire
  <2>2. /\ C1 = C /\ L1 = L /\ A1 = 0 /\ F = 0 /\ E1 = E /\ Count(m <= submitted') = Sum
    BY Zenon, <1>z, <2>1 DEF C, L, A, F, E, Sum, C1, L1, A1, E1
  <2>3. CASE file' = app.held /\ UNCHANGED lost
    <3>1. F1 = A /\ X1 = X
      BY Zenon, <2>3 DEF F1, A, X, X1
    <3> QED BY <1>n, <1>p, <2>1, <2>2, <3>1
  <2>4. CASE lost' = lost \cup Elems(app.held) /\ UNCHANGED file
    <3>1. Count(m \in lost \cup Elems(app.held)) = Count(m \in lost) + Occurrences(app.held, m)
      <4>1. Occurrences(app.held, m) + Count(m \in lost) <= 1
        <5>1. A + X <= 1
          BY <1>n
        <5> QED BY Zenon, <5>1 DEF A, X
      <4> QED BY <1>t, <4>1, DropCounts
    <3>2. X1 = X + A /\ F1 = F
      BY Zenon, <2>4, <3>1 DEF X1, X, A, F1, F
    <3> QED BY <1>n, <1>p, <2>1, <2>2, <3>2
  <2> QED BY Zenon, <1>15, <2>3, <2>4 DEF Persist
<1>16. CASE StopCancel \/ FlushCancel \/ FlushStream \/ FlushClose \/ FlushWait \/ StopWait \/ StopClose
  <2>1. UNCHANGED <<cache, file, evicted, lost, submitted, loop, sent>>
    BY Zenon, <1>16 DEF StopCancel, FlushCancel, FlushStream, FlushClose, FlushWait, StopWait, StopClose,
       notApp, fates, wire
  <2>2. app'.held = app.held
    BY Zenon, <1>16, <1>t DEF StopCancel, FlushCancel, FlushStream, FlushClose, FlushWait, StopWait, StopClose
  <2> QED BY Zenon, <1>1, <2>1, <2>2
<1> QED
  BY <1>2, <1>3, <1>4, <1>5, <1>6, <1>7, <1>8, <1>9, <1>10, <1>11, <1>12, <1>13, <1>14, <1>15, <1>16
  DEF Next, LoopRun, AppNext, StopNext

\* At the start no metric is anywhere.
LEMMA BalanceStarts == Init => Balanced
<1> SUFFICES ASSUME Init, NEW m \in Metric PROVE Places(m) = Count(m <= submitted)
  BY Zenon DEF Balanced
<1>1. Occurrences(<< >>, m) = 0
  BY Zenon, OccurrencesEmpty
<1>2. /\ cache = << >> /\ loop.held = << >> /\ app.held = << >> /\ file = << >>
      /\ sent[m] = 0 /\ m \notin evicted /\ m \notin lost /\ submitted = 0
  BY Zenon DEF Init, Start, LoopStart, AppStart
<1>3. m \in Nat /\ ~(m <= 0)
  BY BoundAssumption DEF Metric
<1> QED BY <1>1, <1>2, <1>3 DEF Places, Count

\* The inductive invariant holds in every state of the client.
LEMMA ClientInvariant == Spec => []ClientInv
<1>1. ClientInv /\ [Next]_vars => ClientInv'
  BY Zenon, TypeStep, RegisteredStep, ControlStep, BalanceStep DEF ClientInv, Control
<1>2. Init => ClientInv
  BY Zenon, Starts, BalanceStarts DEF ClientInv
<1> QED BY <1>1, <1>2, PTL DEF Spec

-----------------------------------------------------------------------------

\* Whatever the sizes, the cache and what connectLoop drained from it never hold
\* more than CacheMaxSize metrics, and every goroutine is in a phase of its code.
THEOREM ClientTypeCorrect == Spec => []TypeOK
<1>1. Control => TypeOK
  BY Zenon DEF Control
<1> QED BY <1>1, ControlInvariant, PTL

\* No stream carries anything before its registration.
THEOREM RegistrationCorrect == Spec => []RegistrationFirst
<1>1. Control => RegistrationFirst
  BY Zenon DEF Control
<1> QED BY <1>1, ControlInvariant, PTL

\* Until a stop begins, the gauge agrees with c.connected whenever connectLoop is
\* not on its way to the callback.
THEOREM GaugeCorrect == Spec => []GaugeFollows
<1>1. Control => GaugeFollows
  BY Zenon DEF Control
<1> QED BY <1>1, ControlInvariant, PTL

\* Stop and FlushAndStop leave neither connectLoop nor a heartbeat behind.
THEOREM GoroutinesCorrect == Spec => []NoGoroutineLeft
<1>1. Control => NoGoroutineLeft
  BY Zenon DEF Control
<1> QED BY <1>1, ControlInvariant, PTL

\* Stop leaves no stream and drops no metric.
THEOREM StopCorrect == Spec => []StopDisconnects
<1>1. Control => StopDisconnects
  BY Zenon DEF Control
<1> QED BY <1>1, ControlInvariant, PTL

\* Every metric handed to SendMetrics is in exactly one place, for every size of
\* the cache and of a batch and however the goroutines interleave.
THEOREM AccountedCorrect == Spec => []Accounted
<1>1. ASSUME ClientInv PROVE Accounted
  <2>0. /\ TypeOK /\ Balanced /\ Kept /\ submitted \in 0 .. MaxMetrics /\ MaxMetrics \in Nat
        /\ cache \in Seq(Metric) /\ loop.held \in Seq(Metric) /\ app.held \in Seq(Metric)
        /\ file \in Seq(Metric)
    BY Zenon, <1>1, BoundAssumption DEF ClientInv, Control, TypeOK
  <2>1. app.pc \in Serving => lost = {}
    BY Zenon, <2>0 DEF Kept
  <2>2. ASSUME NEW m \in 1 .. submitted
        PROVE  Occurrences(cache \o loop.held \o app.held \o file, m) + sent[m]
                 + Count(m \in evicted) + Count(m \in lost) = 1
    <3>1. m \in Metric /\ Count(m <= submitted) = 1
      BY <2>0 DEF Metric, Count
    <3>2. /\ Occurrences(cache, m) \in Nat /\ Occurrences(loop.held, m) \in Nat
          /\ Occurrences(app.held, m) \in Nat /\ Occurrences(file, m) \in Nat
          /\ sent[m] \in Nat /\ Count(m \in evicted) \in {0, 1} /\ Count(m \in lost) \in {0, 1}
          /\ Places(m) = 1
      BY Zenon, <2>0, <3>1, Terms
    <3> DEFINE u == cache \o loop.held
               v == u \o app.held
    <3>3. u \in Seq(Metric) /\ Occurrences(u, m) = Occurrences(cache, m) + Occurrences(loop.held, m)
      BY <2>0, ConcatProperties, OccurrencesConcat
    <3> HIDE DEF u
    <3>4. v \in Seq(Metric) /\ Occurrences(v, m) = Occurrences(u, m) + Occurrences(app.held, m)
      BY Zenon, <2>0, <3>3, ConcatProperties, OccurrencesConcat
    <3> HIDE DEF v
    <3>5. Occurrences(v \o file, m) = Occurrences(v, m) + Occurrences(file, m)
      BY <2>0, <3>4, OccurrencesConcat
    <3>6. Occurrences(v \o file, m) + sent[m] + Count(m \in evicted) + Count(m \in lost) = 1
      BY Zenon, <3>2, <3>3, <3>4, <3>5 DEF Places
    <3> QED BY <3>6, Zenon DEF u, v
  <2> QED BY Zenon, <2>1, <2>2 DEF Accounted
<1> QED BY <1>1, ClientInvariant, PTL

=============================================================================
