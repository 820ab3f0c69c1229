----------------------------- MODULE GrpcClient -----------------------------
(***************************************************************************)
(* The platform connection of internal/grpcclient/client.go.  Three        *)
(* goroutines share the Client: connectLoop (with messageLoop in it), the  *)
(* heartbeat of the running messageLoop, and the agent's own goroutine,    *)
(* which submits metrics from its event loop and then stops the client.    *)
(* A section under c.mu, a cache method and a call on a stream are one     *)
(* step each; everything between two of them interleaves.                  *)
(*                                                                         *)
(* The metric cache is the queue of DropOldestFifo, which MetricCache is   *)
(* proved to implement.                                                    *)
(***************************************************************************)
EXTENDS Naturals, Sequences, FiniteSets

CONSTANTS
    MaxMetrics,     \* bound: metrics submitted in a behaviour
    MaxBatch,       \* bound: metrics per SendMetrics call
    CacheMaxSize,   \* capacity of the cache
    BatchSize,      \* metrics per replayed message (100 in the code)
    MaxDials,       \* bound: streams opened in a behaviour
    PersistPath     \* TRUE when a persist path is configured

ASSUME BoundAssumption ==
    /\ MaxMetrics \in Nat /\ MaxDials \in Nat
    /\ MaxBatch \in Nat \ {0} /\ CacheMaxSize \in Nat \ {0}
    /\ BatchSize \in Nat \ {0}
    /\ PersistPath \in BOOLEAN

VARIABLES
    cache,      \* c.cache
    cur,        \* c.conn with c.stream, NoStream for nil
    connected,  \* c.connected
    gauge,      \* what onStateChange reported last
    ctxDone,    \* the context of connectLoop is cancelled
    loop,       \* the connectLoop goroutine
    hb,         \* the heartbeat goroutine: off, idle, or sending on hbs
    hbs,
    oth,        \* the stream some other sender is about to use
    app,        \* the agent's goroutine
    link,       \* the transport of every stream
    first,      \* the kind of the first message every stream accepted
    submitted,  \* metrics handed to SendMetrics so far
    sent,       \* how often a stream accepted each metric
    evicted,    \* metrics the full cache dropped
    file,       \* the metrics in the persist file
    lost        \* metrics dropped in any other way

vars == <<cache, cur, connected, gauge, ctxDone, loop, hb, hbs, oth, app, link,
          first, submitted, sent, evicted, file, lost>>

shared == <<cur, connected>>
senders == <<hb, hbs, oth>>
wire == <<link, first, sent>>
fates == <<evicted, file, lost>>
notLoop == <<cache, shared, gauge, ctxDone, senders, app, wire, submitted, fates>>
notApp == <<cache, shared, gauge, ctxDone, senders, loop, wire, submitted, fates>>

NoStream == 0
Stream == 1 .. MaxDials
Metric == 1 .. MaxMetrics

Fifo == INSTANCE DropOldestFifo WITH
                  Capacity <- CacheMaxSize, q <- cache, drained <- file

Serving == {"select", "send", "add"}

LoopPC == {"dial", "register", "publish", "notifyUp", "drain", "replayStream",
           "replay", "recache", "backoff", "enter", "check", "snap", "recv",
           "disc", "notifyDown", "close", "endloop", "exit"}

AppPC == Serving \cup
         {"cancel", "flushStream", "flush", "persist", "flushClose", "wait",
          "done", "stopWait", "stopClose", "stopped"}

TypeOK ==
    /\ cache \in Seq(Metric) /\ Len(cache) <= CacheMaxSize
    /\ cur \in Stream \cup {NoStream}
    /\ connected \in BOOLEAN /\ gauge \in BOOLEAN /\ ctxDone \in BOOLEAN
    /\ loop \in [pc : LoopPC, inner : BOOLEAN, s : Stream \cup {NoStream},
                 held : Seq(Metric), err : BOOLEAN]
    /\ Len(loop.held) <= CacheMaxSize
    /\ hb \in {"off", "idle", "send"} /\ hbs \in Stream \cup {NoStream}
    /\ oth \in Stream \cup {NoStream}
    /\ app \in [pc : AppPC, s : Stream \cup {NoStream}, held : Seq(Metric)]
    /\ link \in [Stream -> {"unused", "up", "down", "closed"}]
    /\ first \in [Stream -> {"none", "registration", "other"}]
    /\ submitted \in 0 .. MaxMetrics
    /\ sent \in [Metric -> Nat]
    /\ evicted \subseteq Metric /\ lost \subseteq Metric
    /\ file \in Seq(Metric)

-----------------------------------------------------------------------------
(* Helpers *)

Elems(s) == {s[i] : i \in DOMAIN s}
Smaller(a, b) == IF a < b THEN a ELSE b
Batch(s) == SubSeq(s, 1, Smaller(BatchSize, Len(s)))

\* The rest after a batch, one metric too early.
AfterBatchOverlapping(s) == SubSeq(s, BatchSize, Len(s))

AfterBatch(s) == SubSeq(s, BatchSize + 1, Len(s))

\* c.cache.Add(m)
CacheAdd(m) ==
    /\ cache' = Fifo!Push(cache, m)
    /\ evicted' = IF Len(cache) = CacheMaxSize
                  THEN evicted \cup {Head(cache)} ELSE evicted

\* stream.Send(msg) returns nil: the transport took the message.  It may still
\* do so after the stream's context was cancelled.
Accepts(s) == link[s] = "up"

\* stream.Send(msg) returns an error.
Refuses(s) == link[s] # "up" \/ ctxDone

\* Stream s accepts a message of the kind given that carries the metrics ms.
Accept(s, kind, ms) ==
    /\ Accepts(s)
    /\ first' = [first EXCEPT ![s] = IF @ = "none" THEN kind ELSE @]
    /\ sent' = [m \in Metric |-> IF m \in ms THEN sent[m] + 1 ELSE sent[m]]
    /\ UNCHANGED link

\* The stream a sender finds under c.mu when it checks that it is connected.
Usable == IF connected THEN cur ELSE NoStream

LoopStart == [pc |-> "dial", inner |-> FALSE, s |-> NoStream, held |-> << >>,
              err |-> FALSE]

\* connect returned; only the connect of the inner loop leads on to messageLoop.
AfterConnect(ok) ==
    [LoopStart EXCEPT !.inner = TRUE,
                      !.pc = IF loop.inner /\ ok THEN "enter" ELSE "backoff"]

AppStart == [pc |-> "select", s |-> NoStream, held |-> << >>]

\* NewClient and Start, in the agent's startSubsystems
Start ==
    /\ cache = << >> /\ cur = NoStream
    /\ connected = FALSE /\ gauge = FALSE /\ ctxDone = FALSE
    /\ loop = LoopStart
    /\ hb = "off" /\ hbs = NoStream /\ oth = NoStream
    /\ app = AppStart

Init ==
    /\ Start
    /\ link = [s \in Stream |-> "unused"]
    /\ first = [s \in Stream |-> "none"]
    /\ submitted = 0
    /\ sent = [m \in Metric |-> 0]
    /\ evicted = {} /\ lost = {} /\ file = << >>

-----------------------------------------------------------------------------
(* connect: dial, register, publish, report, replay *)

DialFails ==
    /\ loop.pc = "dial"
    /\ loop' = AfterConnect(FALSE)
    /\ UNCHANGED notLoop

\* client.Connect(ctx) fails once ctx is cancelled.
Dial ==
    /\ loop.pc = "dial"
    /\ ~ctxDone
    /\ \E s \in Stream :
         /\ \A t \in Stream : link[t] = "unused" <=> t >= s
         /\ link' = [link EXCEPT ![s] = "up"]
         /\ loop' = [loop EXCEPT !.pc = "register", !.s = s]
    /\ UNCHANGED <<cache, shared, gauge, ctxDone, senders, app, first, sent,
                   submitted, fates>>

Register ==
    /\ loop.pc = "register"
    /\ \/ /\ Accept(loop.s, "registration", {})
          /\ loop' = [loop EXCEPT !.pc = "publish"]
       \/ /\ Refuses(loop.s)
          /\ link' = [link EXCEPT ![loop.s] = "closed"]
          /\ loop' = AfterConnect(FALSE)
          /\ UNCHANGED <<first, sent>>
    /\ UNCHANGED <<cache, shared, gauge, ctxDone, senders, app, submitted,
                   fates>>

Publish ==
    /\ loop.pc = "publish"
    /\ cur' = loop.s
    /\ connected' = TRUE
    /\ loop' = [loop EXCEPT !.pc = "notifyUp", !.s = NoStream]
    /\ UNCHANGED <<cache, gauge, ctxDone, senders, app, wire, submitted,
                   fates>>

NotifyUp ==
    /\ loop.pc = "notifyUp"
    /\ gauge' = TRUE
    /\ loop' = [loop EXCEPT !.pc = "drain"]
    /\ UNCHANGED <<cache, shared, ctxDone, senders, app, wire, submitted,
                   fates>>

ReplayDrain ==
    /\ loop.pc = "drain"
    /\ cache' = << >>
    /\ loop' = IF cache = << >> THEN AfterConnect(TRUE)
               ELSE [loop EXCEPT !.pc = "replayStream", !.held = cache]
    /\ UNCHANGED <<shared, gauge, ctxDone, senders, app, wire, submitted,
                   fates>>

\* replayCache finds no stream when closeConn ran since connect published it:
\* the drained metrics are dropped.
ReplayStream ==
    /\ loop.pc = "replayStream"
    /\ IF cur = NoStream
       THEN /\ lost' = lost \cup Elems(loop.held)
            /\ loop' = AfterConnect(TRUE)
       ELSE /\ loop' = [loop EXCEPT !.pc = "replay", !.s = cur]
            /\ UNCHANGED lost
    /\ UNCHANGED <<cache, shared, gauge, ctxDone, senders, app, wire,
                   submitted, evicted, file>>

\* A failed batch is put back with everything after it, not with what was sent.
Replay ==
    /\ loop.pc = "replay"
    /\ \/ /\ Accept(loop.s, "other", Elems(Batch(loop.held)))
          /\ loop' = IF Len(loop.held) <= BatchSize THEN AfterConnect(TRUE)
                     ELSE [loop EXCEPT !.held = AfterBatch(loop.held)]
       \/ /\ Refuses(loop.s)
          /\ loop' = [loop EXCEPT !.pc = "recache"]
          /\ UNCHANGED wire
    /\ UNCHANGED <<cache, shared, gauge, ctxDone, senders, app, submitted,
                   fates>>

Recache ==
    /\ loop.pc = "recache"
    /\ CacheAdd(Head(loop.held))
    /\ loop' = IF Len(loop.held) = 1 THEN AfterConnect(TRUE)
               ELSE [loop EXCEPT !.held = Tail(@)]
    /\ UNCHANGED <<shared, gauge, ctxDone, senders, app, wire, submitted,
                   file, lost>>

-----------------------------------------------------------------------------
(* connectLoop and messageLoop *)

\* The select of connectLoop: the timer of the backoff, or the cancellation.
BackoffTimer ==
    /\ loop.pc = "backoff"
    /\ loop' = [loop EXCEPT !.pc = "dial"]
    /\ UNCHANGED notLoop

BackoffCancelled ==
    /\ loop.pc = "backoff"
    /\ ctxDone
    /\ loop' = [loop EXCEPT !.pc = "exit"]
    /\ UNCHANGED notLoop

EnterMessageLoop ==
    /\ loop.pc = "enter"
    /\ hb' = "idle"
    /\ loop' = [loop EXCEPT !.pc = "check"]
    /\ UNCHANGED <<cache, shared, gauge, ctxDone, hbs, oth, app, wire,
                   submitted, fates>>

CheckContext ==
    /\ loop.pc = "check"
    /\ loop' = [loop EXCEPT !.pc = IF ctxDone THEN "disc" ELSE "snap"]
    /\ UNCHANGED notLoop

PickStream ==
    /\ loop.pc = "snap"
    /\ loop' = IF cur = NoStream THEN [loop EXCEPT !.pc = "disc"]
               ELSE [loop EXCEPT !.pc = "recv", !.s = cur]
    /\ UNCHANGED notLoop

\* stream.Recv() returns a message, which the receiver handles before the next
\* turn of the loop, ...
Recv ==
    /\ loop.pc = "recv"
    /\ link[loop.s] = "up"
    /\ loop' = [loop EXCEPT !.pc = "check", !.s = NoStream]
    /\ UNCHANGED notLoop

\* closeConn without setConnected(false) before it.
RecvFailsClosing ==
    /\ loop.pc = "recv"
    /\ link[loop.s] # "up" \/ ctxDone
    /\ loop' = [loop EXCEPT !.pc = "close", !.s = NoStream, !.err = TRUE]
    /\ UNCHANGED notLoop

\* ... or an error, after which the connection is closed.
RecvFails ==
    /\ loop.pc = "recv"
    /\ link[loop.s] # "up" \/ ctxDone
    /\ loop' = [loop EXCEPT !.pc = "disc", !.s = NoStream, !.err = TRUE]
    /\ UNCHANGED notLoop

AfterDisconnect == IF loop.err THEN "close" ELSE "endloop"

\* setConnected(false): the callback runs only when the state changed.
SetDisconnected ==
    /\ loop.pc = "disc"
    /\ connected' = FALSE
    /\ loop' = [loop EXCEPT !.pc =
                    IF connected THEN "notifyDown" ELSE AfterDisconnect]
    /\ UNCHANGED <<cache, cur, gauge, ctxDone, senders, app, wire, submitted,
                   fates>>

NotifyDown ==
    /\ loop.pc = "notifyDown"
    /\ gauge' = FALSE
    /\ loop' = [loop EXCEPT !.pc = AfterDisconnect]
    /\ UNCHANGED <<cache, shared, ctxDone, senders, app, wire, submitted,
                   fates>>

\* closeConn
CloseConn ==
    /\ link' = IF cur = NoStream THEN link ELSE [link EXCEPT ![cur] = "closed"]
    /\ cur' = NoStream
    /\ connected' = FALSE

LoopClose ==
    /\ loop.pc = "close"
    /\ CloseConn
    /\ loop' = [loop EXCEPT !.pc = "endloop", !.err = FALSE]
    /\ UNCHANGED <<cache, gauge, ctxDone, senders, app, first, sent,
                   submitted, fates>>

\* messageLoop returns once its heartbeat has; connectLoop starts over unless
\* its context is cancelled.
LeaveMessageLoop ==
    /\ loop.pc = "endloop"
    /\ hb = "off"
    /\ loop' = IF ctxDone THEN [LoopStart EXCEPT !.pc = "exit"] ELSE LoopStart
    /\ UNCHANGED notLoop

-----------------------------------------------------------------------------
(* The heartbeat, and the other senders *)

HeartbeatTick ==
    /\ hb = "idle"
    /\ Usable # NoStream
    /\ hb' = "send" /\ hbs' = Usable
    /\ UNCHANGED <<cache, shared, gauge, ctxDone, loop, oth, app, wire,
                   submitted, fates>>

HeartbeatSend ==
    /\ hb = "send"
    /\ \/ Accept(hbs, "other", {})
       \/ Refuses(hbs) /\ UNCHANGED wire
    /\ hb' = "idle" /\ hbs' = NoStream
    /\ UNCHANGED <<cache, shared, gauge, ctxDone, loop, oth, app, submitted,
                   fates>>

\* loopCtx is done when messageLoop leaves or its parent is cancelled.
HeartbeatExit ==
    /\ hb = "idle"
    /\ loop.pc = "endloop" \/ ctxDone
    /\ hb' = "off"
    /\ UNCHANGED <<cache, shared, gauge, ctxDone, loop, hbs, oth, app, wire,
                   submitted, fates>>

\* SendExecOutput, SendExecResult, SendHealthCheckResult, SendTunnel* and
\* SendProxy*: one call in flight, dropped without a connection.
OtherPick ==
    /\ oth = NoStream
    /\ Usable # NoStream
    /\ oth' = Usable
    /\ UNCHANGED <<cache, shared, gauge, ctxDone, loop, hb, hbs, app, wire,
                   submitted, fates>>

OtherSend ==
    /\ oth # NoStream
    /\ \/ Accept(oth, "other", {})
       \/ Refuses(oth) /\ UNCHANGED wire
    /\ oth' = NoStream
    /\ UNCHANGED <<cache, shared, gauge, ctxDone, loop, hb, hbs, app,
                   submitted, fates>>

-----------------------------------------------------------------------------
(* The agent's goroutine: SendMetrics from the event loop, then the stop *)

SendMetrics ==
    /\ app.pc = "select"
    /\ \E k \in 1 .. MaxBatch :
         /\ submitted + k <= MaxMetrics
         /\ submitted' = submitted + k
         /\ app' = [pc |-> IF Usable = NoStream THEN "add" ELSE "send",
                    s |-> Usable,
                    held |-> [i \in 1 .. k |-> submitted + i]]
    /\ UNCHANGED <<cache, shared, gauge, ctxDone, loop, senders, wire, fates>>

SendMetricsSend ==
    /\ app.pc = "send"
    /\ \/ /\ Accept(app.s, "other", Elems(app.held))
          /\ app' = AppStart
       \/ /\ Refuses(app.s)
          /\ app' = [app EXCEPT !.pc = "add", !.s = NoStream]
          /\ UNCHANGED wire
    /\ UNCHANGED <<cache, shared, gauge, ctxDone, loop, senders, submitted,
                   fates>>

SendMetricsAdd ==
    /\ app.pc = "add"
    /\ CacheAdd(Head(app.held))
    /\ app' = IF Len(app.held) = 1 THEN AppStart
              ELSE [app EXCEPT !.held = Tail(@)]
    /\ UNCHANGED <<shared, gauge, ctxDone, loop, senders, wire, submitted,
                   file, lost>>

\* SIGTERM cancels the agent's context, the parent of connectLoop's.
ParentCancelled ==
    /\ ~ctxDone
    /\ ctxDone' = TRUE
    /\ UNCHANGED <<cache, shared, gauge, loop, senders, app, wire, submitted,
                   fates>>

\* The event loop ended, by its context or an HTTP server error: FlushAndStop
\* drains the cache before it cancels.
FlushDrain ==
    /\ app.pc = "select"
    /\ cache' = << >>
    /\ app' = [app EXCEPT !.pc = "cancel", !.held = cache]
    /\ UNCHANGED <<shared, gauge, ctxDone, loop, senders, wire, submitted,
                   fates>>

\* FlushAndStop that forgets to cancel connectLoop.
FlushWithoutCancel ==
    /\ app.pc = "cancel"
    /\ app' = [app EXCEPT !.pc = IF app.held = << >> THEN "flushClose"
                                 ELSE "flushStream"]
    /\ UNCHANGED notApp

FlushCancel ==
    /\ app.pc = "cancel"
    /\ ctxDone' = TRUE
    /\ app' = [app EXCEPT !.pc = IF app.held = << >> THEN "flushClose"
                                 ELSE "flushStream"]
    /\ UNCHANGED <<cache, shared, gauge, loop, senders, wire, submitted,
                   fates>>

FlushStream ==
    /\ app.pc = "flushStream"
    /\ app' = [app EXCEPT !.pc = IF cur = NoStream THEN "persist" ELSE "flush",
                          !.s = cur]
    /\ UNCHANGED notApp

\* One turn of the batch loop; the shutdown context may have expired.
Flush ==
    /\ app.pc = "flush"
    /\ \/ /\ Accept(app.s, "other", Elems(Batch(app.held)))
          /\ app' = IF Len(app.held) <= BatchSize
                    THEN [AppStart EXCEPT !.pc = "flushClose"]
                    ELSE [app EXCEPT !.held = AfterBatch(app.held)]
       \/ /\ app' = [app EXCEPT !.pc = "persist", !.s = NoStream]
          /\ UNCHANGED wire
    /\ UNCHANGED <<cache, shared, gauge, ctxDone, loop, senders, submitted,
                   fates>>

\* persistMetrics writes the file, or fails.
Persist ==
    /\ app.pc = "persist"
    /\ app' = [AppStart EXCEPT !.pc = "flushClose"]
    /\ \/ /\ PersistPath
          /\ file' = app.held
          /\ UNCHANGED lost
       \/ /\ lost' = lost \cup Elems(app.held)
          /\ UNCHANGED file
    /\ UNCHANGED <<cache, shared, gauge, ctxDone, loop, senders, wire,
                   submitted, evicted>>

FlushClose ==
    /\ app.pc = "flushClose"
    /\ CloseConn
    /\ app' = [app EXCEPT !.pc = "wait"]
    /\ UNCHANGED <<cache, gauge, ctxDone, loop, senders, first, sent,
                   submitted, fates>>

FlushWait ==
    /\ app.pc = "wait"
    /\ loop.pc = "exit"
    /\ app' = [app EXCEPT !.pc = "done"]
    /\ UNCHANGED notApp

\* Stop: cancel, wait, close.
StopCancel ==
    /\ app.pc = "select"
    /\ ctxDone' = TRUE
    /\ app' = [app EXCEPT !.pc = "stopWait"]
    /\ UNCHANGED <<cache, shared, gauge, loop, senders, wire, submitted,
                   fates>>

StopWait ==
    /\ app.pc = "stopWait"
    /\ loop.pc = "exit"
    /\ app' = [app EXCEPT !.pc = "stopClose"]
    /\ UNCHANGED notApp

StopClose ==
    /\ app.pc = "stopClose"
    /\ CloseConn
    /\ app' = [app EXCEPT !.pc = "stopped"]
    /\ UNCHANGED <<cache, gauge, ctxDone, loop, senders, first, sent,
                   submitted, fates>>

-----------------------------------------------------------------------------
(* The environment *)

\* The network or the platform ends a stream.
StreamBreaks ==
    /\ \E s \in Stream : /\ link[s] = "up"
                         /\ link' = [link EXCEPT ![s] = "down"]
    /\ UNCHANGED <<cache, shared, gauge, ctxDone, loop, senders, app, first,
                   sent, submitted, fates>>

Terminated ==
    /\ app.pc \in {"done", "stopped"}
    /\ UNCHANGED vars

\* The steps of connectLoop that do not wait for the platform.
LoopRun ==
    \/ DialFails \/ Dial \/ Register \/ Publish \/ NotifyUp
    \/ ReplayDrain \/ ReplayStream \/ Replay \/ Recache
    \/ BackoffTimer \/ BackoffCancelled \/ EnterMessageLoop
    \/ CheckContext \/ PickStream \/ RecvFails
    \/ SetDisconnected \/ NotifyDown \/ LoopClose \/ LeaveMessageLoop

HeartbeatNext == HeartbeatTick \/ HeartbeatSend \/ HeartbeatExit

StopNext ==
    \/ FlushCancel \/ FlushStream \/ Flush \/ Persist \/ FlushClose \/ FlushWait
    \/ StopWait \/ StopClose

AppNext ==
    \/ SendMetrics \/ SendMetricsSend \/ SendMetricsAdd
    \/ FlushDrain \/ StopCancel \/ StopNext

Next ==
    \/ LoopRun \/ Recv \/ HeartbeatNext \/ OtherPick \/ OtherSend \/ AppNext
    \/ ParentCancelled \/ StreamBreaks \/ Terminated

Spec == Init /\ [][Next]_vars

\* Goroutines that can run do, a stop that was begun goes on, and a select that
\* finds the cancellation ready again and again takes it.
Fairness ==
    /\ WF_vars(LoopRun) /\ SF_vars(BackoffCancelled)
    /\ WF_vars(HeartbeatSend) /\ SF_vars(HeartbeatExit)
    /\ WF_vars(SendMetricsSend) /\ WF_vars(SendMetricsAdd)
    /\ WF_vars(StopNext)

FairSpec == Spec /\ Fairness

-----------------------------------------------------------------------------
(* Properties *)

Occurrences(s, m) == Cardinality({i \in DOMAIN s : s[i] = m})
Count(b) == IF b THEN 1 ELSE 0

\* Every metric handed to SendMetrics is in exactly one place: in the cache,
\* with the goroutine that replays, sends or flushes it, with the platform, on
\* disk, evicted by a full cache, or dropped; and until the client is being
\* stopped none is dropped.  No interleaving of SendMetrics, replayCache and a
\* breaking stream sends a metric twice or forgets it.
Accounted ==
    /\ \A m \in 1 .. submitted :
         Occurrences(cache \o loop.held \o app.held \o file, m) + sent[m]
           + Count(m \in evicted) + Count(m \in lost) = 1
    /\ app.pc \in Serving => lost = {}

\* The first message of every stream is the registration: no sender finds a
\* stream before connect has registered on it.
RegistrationFirst == \A s \in Stream : first[s] # "other"

\* The GRPCConnected gauge and the audit log follow c.connected: they differ
\* only while connectLoop is on its way to the callback, until a stop begins.
GaugeFollows ==
    app.pc \in Serving /\ loop.pc \notin {"notifyUp", "notifyDown"}
        => gauge = connected

\* Stop and FlushAndStop return only when connectLoop and the heartbeat it
\* started have ended ("Wait for goroutines.").
NoGoroutineLeft ==
    app.pc \in {"done", "stopped"} => loop.pc = "exit" /\ hb = "off"

\* After Stop the client is disconnected and holds no stream, and no metric it
\* had accepted was dropped.
StopDisconnects ==
    app.pc = "stopped" =>
        cur = NoStream /\ ~connected /\ lost = {}

\* A stop that has begun completes, wherever connectLoop is.
StopCompletes ==
    app.pc \in {"cancel", "stopWait"} ~> app.pc \in {"done", "stopped"}

\* What the comment of FlushAndStop promises: it "drains the cache, sends all
\* metrics", or writes them to disk: none stays behind in the cache.
FlushEmptiesCache == app.pc = "done" => cache = << >>

\* What the architecture guide says: all data goes "through a single
\* bidirectional stream".
SingleStream == Cardinality({s \in Stream : link[s] = "up"}) <= 1
=============================================================================
