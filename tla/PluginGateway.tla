---------------------------- MODULE PluginGateway ----------------------------
(***************************************************************************)
(* The life of one plugin under the plugin gateway                         *)
(* (internal/pluginruntime/gateway.go, watcher.go): Start loads it, the    *)
(* health check restarts it, callers reload, enable, disable or, as the    *)
(* file watcher does for a removed manifest, unload it, and Stop ends it.  *)
(* Only a few sections are under g.mu or p.mu; between them the goroutines *)
(* interleave.                                                             *)
(*                                                                         *)
(* The n-th load makes the n-th ManagedPlugin and the n-th process.  All   *)
(* of them listen on the same socket path.                                 *)
(***************************************************************************)
EXTENDS Naturals, FiniteSets

CONSTANTS
    Caller,         \* goroutines that call the gateway
    MaxCalls,       \* bound: calls
    MaxLoads,       \* bound: processes that can be started
    MaxRestarts,    \* cfg.MaxRestarts
    None            \* no goroutine

\* NewGateway replaces a limit that is not positive.
ASSUME BoundsAssumption ==
    MaxCalls \in Nat /\ MaxLoads \in Nat /\ MaxRestarts \in Nat \ {0}
ASSUME CallerAssumption == {"main", "health", None} \cap Caller = {}

Actor == Caller \cup {"main", "health"}
Plugin == 1 .. MaxLoads

VARIABLES
    entry,          \* g.plugins[name], 0 when there is none
    status,         \* Status of every ManagedPlugin
    held,           \* those whose Process and Client are not nil
    restartCount,   \* RestartCount of every ManagedPlugin
    gmu,            \* who holds g.mu across steps
    process,        \* the processes
    reaped,         \* those whose waitCh has been received from
    sock,           \* the process that bound the socket path last, 0 for no file
    registered,     \* the dispatcher has the plugin's task types
    ctxDone,        \* g.ctx is cancelled
    at,             \* of every actor: its next step pc, the operation op it is in,
                    \* the ManagedPlugin obj it works on, and the process mine it
                    \* kills or has started
    loads, calls,   \* counters
    overlap         \* history: an operation began while another was going on

vars == <<entry, status, held, restartCount, gmu, process, reaped, sock,
          registered, ctxDone, at, loads, calls, overlap>>

table == <<entry, status, held, restartCount>>
system == <<process, reaped, sock>>
counts == <<loads, calls, overlap>>

PC == {"idle", "mark", "kill", "remove", "unregister", "enable", "disable",
       "delete", "check", "ping", "backoff", "load", "await", "abort", "publish",
       "register", "failed", "snapshot", "join", "over"}

Op == {"none", "start", "check", "stop", "reload", "enable", "disable", "unload"}

\* Between two operations.
Idle == [pc |-> "idle", op |-> "none", obj |-> 0, mine |-> 0]

TypeOK ==
    /\ entry \in {0} \cup Plugin
    /\ status \in [Plugin -> {"none", "running", "stopped", "error", "disabled"}]
    /\ held \subseteq Plugin /\ restartCount \in [Plugin -> 0 .. MaxRestarts]
    /\ gmu \in Caller \cup {None}
    /\ process \in [Plugin -> {"none", "booting", "listening", "exited"}]
    /\ reaped \subseteq {n \in Plugin : process[n] = "exited"}
    /\ sock \in {0} \cup Plugin
    /\ registered \in BOOLEAN /\ ctxDone \in BOOLEAN /\ overlap \in BOOLEAN
    /\ at \in [Actor -> [pc : PC, op : Op, obj : {0} \cup Plugin,
                         mine : {0} \cup Plugin]]
    /\ loads \in 0 .. MaxLoads /\ calls \in 0 .. MaxCalls

\* Start is about to load the plugin it discovered.
Init ==
    /\ entry = 0 /\ status = [n \in Plugin |-> "none"] /\ held = {}
    /\ restartCount = [n \in Plugin |-> 0] /\ gmu = None
    /\ process = [n \in Plugin |-> "none"] /\ reaped = {} /\ sock = 0
    /\ registered = FALSE /\ ctxDone = FALSE
    /\ at = [a \in Actor |-> IF a = "main"
                              THEN [Idle EXCEPT !.pc = "load", !.op = "start"]
                              ELSE Idle]
    /\ loads = 0 /\ calls = 0 /\ overlap = FALSE

-----------------------------------------------------------------------------

Goto(a, step) ==
    at' = [at EXCEPT ![a] = IF step = "idle" THEN Idle ELSE [@ EXCEPT !.pc = step]]

Busy(a) == at[a].pc \notin {"idle", "over"}

Serving == at["main"].op # "start"

\* An operation begins.
Begin(a, o, step, n) ==
    /\ at' = [at EXCEPT ![a] = [Idle EXCEPT !.pc = step, !.op = o, !.obj = n]]
    /\ overlap' = (overlap \/ \E b \in Actor \ {a} : Busy(b))

\* Someone can be dialled at the socket path.
Answers == sock # 0 /\ process[sock] = "listening"

-----------------------------------------------------------------------------
(* stopPlugin *)

\* Where its caller goes on.
Return(o) ==
    CASE o = "reload" -> "load"
      [] o = "disable" -> "disable"
      [] o = "unload" -> "delete"
      [] o = "check" -> "backoff"
      [] o = "stop" -> "join"

\* The section under p.mu.
Mark(a) ==
    /\ at[a].pc = "mark"
    /\ LET n == at[a].obj IN
       IF status[n] \in {"stopped", "disabled"}
       THEN /\ Goto(a, Return(at[a].op))
            /\ UNCHANGED <<status, held>>
       ELSE /\ status' = [status EXCEPT ![n] = "stopped"]
            /\ held' = held \ {n}
            /\ at' = [at EXCEPT ![a].pc = IF n \in held THEN "kill" ELSE "remove",
                                ![a].mine = n]
    /\ UNCHANGED <<entry, restartCount, gmu, system, registered, ctxDone,
                   counts>>

\* killProcess has signalled; it takes the one message of waitCh.
Kill(a) ==
    /\ at[a].pc = "kill"
    /\ process[at[a].mine] = "exited" /\ at[a].mine \notin reaped
    /\ reaped' = reaped \cup {at[a].mine}
    /\ Goto(a, "remove")
    /\ UNCHANGED <<table, gmu, process, sock, registered, ctxDone, counts>>

\* os.Remove of the socket, whosever it is.
Remove(a) ==
    /\ at[a].pc = "remove"
    /\ sock' = 0
    /\ Goto(a, "unregister")
    /\ UNCHANGED <<table, gmu, process, reaped, registered, ctxDone, counts>>

\* onUnloaded
Unregister(a) ==
    /\ at[a].pc = "unregister"
    /\ registered' = FALSE
    /\ Goto(a, Return(at[a].op))
    /\ UNCHANGED <<table, gmu, system, ctxDone, counts>>

-----------------------------------------------------------------------------
(* loadPlugin *)

LoadFailed(a) == IF at[a].op = "check" THEN "failed" ELSE "idle"

\* The old socket is removed and the process started, or the start fails.
Load(a) ==
    /\ at[a].pc = "load"
    /\ sock' = 0
    /\ \/ /\ loads < MaxLoads
          /\ loads' = loads + 1
          /\ process' = [process EXCEPT ![loads + 1] = "booting"]
          /\ at' = [at EXCEPT ![a].pc = "await", ![a].mine = loads + 1]
       \/ Goto(a, LoadFailed(a)) /\ UNCHANGED <<loads, process>>
    /\ UNCHANGED <<table, gmu, reaped, registered, ctxDone, calls, overlap>>

\* waitForPlugin without its deadline.
AwaitForever(a) ==
    /\ at[a].pc = "await"
    /\ IF Answers THEN Goto(a, "publish") ELSE UNCHANGED at
    /\ UNCHANGED <<table, gmu, system, registered, ctxDone, counts>>

\* waitForPlugin: somebody answers at the path, or the time is over.
Await(a) ==
    /\ at[a].pc = "await"
    /\ \/ Answers /\ Goto(a, "publish")
       \/ Goto(a, "abort")
    /\ UNCHANGED <<table, gmu, system, registered, ctxDone, counts>>

\* A plugin that did not come up is left alone.
AbortLeaving(a) ==
    /\ at[a].pc = "abort"
    /\ Goto(a, LoadFailed(a))
    /\ UNCHANGED <<table, gmu, system, registered, ctxDone, counts>>

\* killProcess of a plugin that did not come up.
Abort(a) ==
    /\ at[a].pc = "abort"
    /\ process[at[a].mine] = "exited" /\ at[a].mine \notin reaped
    /\ reaped' = reaped \cup {at[a].mine}
    /\ Goto(a, LoadFailed(a))
    /\ UNCHANGED <<table, gmu, process, sock, registered, ctxDone, counts>>

\* The section under g.mu.
Publish(a) ==
    /\ at[a].pc = "publish" /\ gmu = None
    /\ entry' = at[a].mine
    /\ status' = [status EXCEPT ![at[a].mine] = "running"]
    /\ held' = held \cup {at[a].mine}
    /\ restartCount' = [restartCount EXCEPT ![at[a].mine] =
                           IF entry # 0 THEN restartCount[entry] ELSE 0]
    /\ Goto(a, "register")
    /\ UNCHANGED <<gmu, system, registered, ctxDone, counts>>

\* onLoaded
Register(a) ==
    /\ at[a].pc = "register"
    /\ registered' = TRUE
    /\ Goto(a, "idle")
    /\ UNCHANGED <<table, gmu, system, ctxDone, counts>>

-----------------------------------------------------------------------------
(* Calls; one that finds no plugin changes nothing *)

\* ReloadPlugin, EnablePlugin, DisablePlugin and the watcher's removal, which
\* keeps g.mu.
Call(c) ==
    /\ at[c].pc = "idle" /\ Serving /\ calls < MaxCalls /\ gmu = None /\ entry # 0
    /\ calls' = calls + 1
    /\ \/ Begin(c, "reload", "mark", entry) /\ UNCHANGED gmu
       \/ Begin(c, "enable", "enable", entry) /\ UNCHANGED gmu
       \/ Begin(c, "disable", "mark", entry) /\ UNCHANGED gmu
       \/ Begin(c, "unload", "mark", entry) /\ gmu' = c
    /\ UNCHANGED <<table, system, registered, ctxDone, loads>>

Enable(c) ==
    /\ at[c].pc = "enable"
    /\ Goto(c, IF status[at[c].obj] = "disabled" THEN "load" ELSE "idle")
    /\ UNCHANGED <<table, gmu, system, registered, ctxDone, counts>>

Disable(c) ==
    /\ at[c].pc = "disable"
    /\ status' = [status EXCEPT ![at[c].obj] = "disabled"]
    /\ Goto(c, "idle")
    /\ UNCHANGED <<entry, held, restartCount, gmu, system, registered,
                   ctxDone, counts>>

Delete(c) ==
    /\ at[c].pc = "delete"
    /\ entry' = 0 /\ gmu' = None
    /\ Goto(c, "idle")
    /\ UNCHANGED <<status, held, restartCount, system, registered, ctxDone,
                   counts>>

-----------------------------------------------------------------------------
(* The health check *)

\* A tick copies the map, ...
Tick ==
    /\ at["health"].pc = "idle" /\ Serving /\ gmu = None /\ entry # 0
    /\ Begin("health", "check", "check", entry)
    /\ UNCHANGED <<table, gmu, system, registered, ctxDone, loads, calls>>

\* ... looks at the plugin under p.mu ...
Check ==
    /\ at["health"].pc = "check"
    /\ LET n == at["health"].obj IN
       Goto("health", IF status[n] = "running" /\ n \in held THEN "ping" ELSE "idle")
    /\ UNCHANGED <<table, gmu, system, registered, ctxDone, counts>>

shouldRestart(n) == restartCount[n] < MaxRestarts

\* A ping whose error is only logged.
PingIgnoring ==
    /\ at["health"].pc = "ping"
    /\ Goto("health", "idle")
    /\ UNCHANGED <<table, gmu, system, registered, ctxDone, counts>>

\* ... and pings it.
Ping ==
    /\ at["health"].pc = "ping"
    /\ \/ Answers /\ ~ctxDone /\ Goto("health", "idle")
       \/ Goto("health", IF shouldRestart(at["health"].obj) THEN "mark" ELSE "failed")
    /\ UNCHANGED <<table, gmu, system, registered, ctxDone, counts>>

\* After stopPlugin: the select on the context and the backoff.
Backoff ==
    /\ at["health"].pc = "backoff"
    /\ \/ ctxDone /\ Goto("health", "idle")
       \/ Goto("health", "load")
    /\ UNCHANGED <<table, gmu, system, registered, ctxDone, counts>>

\* The plugin that is in the map now gets the error.
Failed ==
    /\ at["health"].pc = "failed" /\ gmu = None
    /\ status' = IF entry = 0 THEN status ELSE [status EXCEPT ![entry] = "error"]
    /\ Goto("health", "idle")
    /\ UNCHANGED <<entry, held, restartCount, gmu, system, registered,
                   ctxDone, counts>>

HealthOver ==
    /\ at["health"].pc = "idle" /\ ctxDone
    /\ Goto("health", "over")
    /\ UNCHANGED <<table, gmu, system, registered, ctxDone, counts>>

-----------------------------------------------------------------------------
(* Stop *)

StopCancel ==
    /\ at["main"].pc = "idle"
    /\ ctxDone' = TRUE
    /\ Begin("main", "stop", "snapshot", 0)
    /\ UNCHANGED <<table, gmu, system, registered, loads, calls>>

StopSnapshot ==
    /\ at["main"].pc = "snapshot" /\ gmu = None
    /\ at' = [at EXCEPT !["main"].pc = IF entry = 0 THEN "join" ELSE "mark",
                        !["main"].obj = entry]
    /\ UNCHANGED <<table, gmu, system, registered, ctxDone, counts>>

\* g.wg.Wait, then the empty map.
StopJoin ==
    /\ at["main"].pc = "join" /\ at["health"].pc = "over" /\ gmu = None
    /\ entry' = 0
    /\ Goto("main", "over")
    /\ UNCHANGED <<status, held, restartCount, gmu, system, registered,
                   ctxDone, counts>>

-----------------------------------------------------------------------------
(* The plugin's processes *)

Listen(n) ==
    /\ process[n] = "booting"
    /\ process' = [process EXCEPT ![n] = "listening"]
    /\ sock' = n
    /\ UNCHANGED <<table, gmu, reaped, registered, ctxDone, at, counts>>

\* By itself or signalled; a process that ends in order removes its socket path.
Exit(n) ==
    /\ process[n] \in {"booting", "listening"}
    /\ process' = [process EXCEPT ![n] = "exited"]
    /\ sock' \in {sock, 0}
    /\ UNCHANGED <<table, gmu, reaped, registered, ctxDone, at, counts>>

-----------------------------------------------------------------------------

Terminated == at["main"].pc = "over" /\ UNCHANGED vars

Step(a) ==
    \/ Mark(a) \/ Kill(a) \/ Remove(a) \/ Unregister(a)
    \/ Load(a) \/ Await(a) \/ Abort(a) \/ Publish(a) \/ Register(a)

CallerStep(c) == Step(c) \/ Enable(c) \/ Disable(c) \/ Delete(c)

HealthStep ==
    Step("health") \/ Tick \/ Check \/ Ping \/ Backoff \/ Failed \/ HealthOver

MainStep == Step("main") \/ StopSnapshot \/ StopJoin

Next ==
    \/ \E c \in Caller : Call(c) \/ CallerStep(c)
    \/ HealthStep \/ StopCancel \/ MainStep
    \/ \E n \in Plugin : Listen(n) \/ Exit(n)
    \/ Terminated

Spec == Init /\ [][Next]_vars

\* Goroutines run and the ticker ticks; the select of the health check takes the
\* cancellation in the end although the ticker may be ready, too; a process that
\* killProcess waits for is killed at last.
Killed(n) == \E a \in Actor : at[a].pc \in {"kill", "abort"} /\ at[a].mine = n

Fairness ==
    /\ \A c \in Caller : WF_vars(CallerStep(c))
    /\ WF_vars(HealthStep) /\ SF_vars(HealthOver) /\ WF_vars(MainStep)
    /\ \A n \in Plugin : WF_vars(Killed(n) /\ Exit(n))

FairSpec == Spec /\ Fairness

-----------------------------------------------------------------------------
(* Properties *)

Alive == {n \in Plugin : process[n] \in {"booting", "listening"}}

AtRest == \A a \in Actor : ~Busy(a)

\* As long as operations do not overlap, the plugin has at most one process, and
\* at rest that is the process of a running entry: none is left behind by a
\* failed load, a restart, a crash or Stop.
OneProcess ==
    ~overlap =>
        /\ Cardinality(Alive) <= 1
        /\ AtRest => \A n \in Alive : entry = n /\ status[n] = "running" /\ n \in held

\* As long as operations do not overlap, at rest the dispatcher has the task types
\* exactly when the plugin is running.
HandlersMatch ==
    ~overlap /\ AtRest =>
        (registered <=> entry # 0 /\ status[entry] = "running")

\* Whatever overlaps, every call returns and so does Stop: no goroutine waits for
\* a process another one has waited for.
CallsReturn ==
    /\ \A c \in Caller : Busy(c) ~> ~Busy(c)
    /\ ctxDone ~> at["main"].pc = "over"

\* The health check finds a plugin whose process has ended.
DeadIsNoticed ==
    \A n \in Plugin :
        (entry = n /\ status[n] = "running" /\ process[n] = "exited")
        ~> (entry # n \/ status[n] # "running" \/ overlap)
=============================================================================
