----------------------------- MODULE AgentTasks -----------------------------
(***************************************************************************)
(* The commands an agent runs and its shutdown (internal/app/agent.go).    *)
(* HTTP requests run tasks through the dispatcher, or a command directly;  *)
(* the platform's commands run on the goroutine that receives from the     *)
(* stream, one at a time, and so do its cancellations.  Sandboxed commands *)
(* take one of a limited number of slots (internal/sandbox/executor.go).   *)
(* Shutdown rejects new tasks, waits for the registered ones, stops the    *)
(* platform client and then the HTTP server.                               *)
(*                                                                         *)
(* How long a command takes, and whether it ends at all, is left open.     *)
(***************************************************************************)
EXTENDS Naturals, FiniteSets

CONSTANTS
    Request,        \* HTTP requests
    TaskId,         \* the task ids callers choose
    Slots,          \* capacity of the sandbox
    MaxMessages,    \* bound: messages of the platform
    None            \* no request

ASSUME SlotsAssumption == Slots \in Nat \ {0}
ASSUME MessagesAssumption == MaxMessages \in Nat
ASSUME RequestAssumption == IsFiniteSet(Request)
ASSUME NoneAssumption == None \notin Request

VARIABLES
    kind, id,       \* what every request asks for, and under which task id
    sandboxed,      \* a.sandboxExec is not nil
    shuttingDown,   \* a.shuttingDown
    active,         \* a.activeTasks: the request whose cancel function it holds
    taskMu,         \* who holds a.taskMu
    req,            \* where every request is
    cancelled,      \* requests whose cancel function was called
    sem,            \* taken slots of the sandbox
    recv,           \* the goroutine that receives from the platform
    messages,       \* how much it has received
    ctxDone,        \* its context is cancelled
    shut,           \* the agent's goroutine
    expired,        \* the shutdown context is over
    early, late     \* history: registered before shutdown, arrived after it began

vars == <<kind, id, sandboxed, shuttingDown, active, taskMu, req, cancelled, sem,
          recv, messages, ctxDone, shut, expired, early, late>>

asked == <<kind, id, sandboxed>>
platform == <<recv, messages, ctxDone>>
stopping == <<shuttingDown, shut, expired>>
history == <<early, late>>

Registered == {"exec", "sandbox"}

TypeOK ==
    /\ kind \in [Request -> Registered \cup {"plugin", "direct"}]
    /\ id \in [Request -> TaskId] /\ sandboxed \in BOOLEAN
    /\ shuttingDown \in BOOLEAN /\ ctxDone \in BOOLEAN /\ expired \in BOOLEAN
    /\ active \in [TaskId -> Request \cup {None}]
    /\ taskMu \in Request \cup {None}
    /\ req \in [Request -> {"new", "dispatched", "admitted", "storing", "stored",
                            "queued", "boxed", "running", "ending", "done"}]
    /\ cancelled \subseteq Request /\ sem \in 0 .. Slots
    /\ recv \in {"idle", "queued", "boxed", "running", "answer", "over"}
    /\ messages \in 0 .. MaxMessages
    /\ shut \in {"serving", "wait", "scheduler", "flush", "http", "closing",
                 "stopped"}
    /\ early \subseteq Request /\ late \subseteq Request

Init ==
    /\ kind \in [Request -> Registered \cup {"plugin", "direct"}]
    /\ id \in [Request -> TaskId] /\ sandboxed \in BOOLEAN
    /\ shuttingDown = FALSE /\ shut = "serving" /\ expired = FALSE
    /\ active = [i \in TaskId |-> None] /\ taskMu = None
    /\ req = [r \in Request |-> "new"]
    /\ cancelled = {} /\ sem = 0
    /\ recv = "idle" /\ messages = 0 /\ ctxDone = FALSE
    /\ early = {} /\ late = {}

-----------------------------------------------------------------------------
(* A request to the HTTP server *)

\* handleTask, handleExec; the listener is open until the server shuts down.
Arrive(r) ==
    /\ req[r] = "new" /\ shut \notin {"closing", "stopped"}
    /\ req' = [req EXCEPT ![r] = IF kind[r] = "direct" THEN "running"
                                 ELSE "dispatched"]
    /\ late' = IF shuttingDown THEN late \cup {r} ELSE late
    /\ UNCHANGED <<asked, active, taskMu, cancelled, sem, platform, stopping,
                   early>>

\* Dispatch, which may find no handler for a plugin, and withTaskMiddleware.
Admit(r) ==
    /\ req[r] = "dispatched"
    /\ \/ ~shuttingDown /\ req' = [req EXCEPT ![r] = "admitted"]
       \/ /\ shuttingDown \/ kind[r] = "plugin"
          /\ req' = [req EXCEPT ![r] = "done"]
    /\ UNCHANGED <<asked, active, taskMu, cancelled, sem, platform, stopping,
                   history>>

\* Plugin tasks are not registered; those of the gateway look at shuttingDown
\* once more.
RunPlugin(r) ==
    /\ req[r] = "admitted" /\ kind[r] = "plugin"
    /\ \/ req' = [req EXCEPT ![r] = "running"]
       \/ shuttingDown /\ req' = [req EXCEPT ![r] = "done"]
    /\ UNCHANGED <<asked, active, taskMu, cancelled, sem, platform, stopping,
                   history>>

\* a.taskMu is taken and shuttingDown read, which shutdown sets without it, ...
CheckShutdown(r) ==
    /\ req[r] = "admitted" /\ kind[r] \in Registered /\ taskMu = None
    /\ IF shuttingDown \/ (kind[r] = "sandbox" /\ ~sandboxed)
       THEN req' = [req EXCEPT ![r] = "done"] /\ UNCHANGED taskMu
       ELSE req' = [req EXCEPT ![r] = "storing"] /\ taskMu' = r
    /\ UNCHANGED <<asked, active, cancelled, sem, platform, stopping, history>>

\* ... before the cancel function is stored.
Store(r) ==
    /\ req[r] = "storing"
    /\ active' = [active EXCEPT ![id[r]] = r]
    /\ taskMu' = None
    /\ req' = [req EXCEPT ![r] = "stored"]
    /\ early' = IF shuttingDown THEN early ELSE early \cup {r}
    /\ UNCHANGED <<asked, cancelled, sem, platform, stopping, late>>

\* An invalid payload, or one the policy refuses, ends the task.
Parse(r) ==
    /\ req[r] = "stored"
    /\ \E pc \in {"ending", IF kind[r] = "exec" THEN "running" ELSE "queued"} :
         req' = [req EXCEPT ![r] = pc]
    /\ UNCHANGED <<asked, active, taskMu, cancelled, sem, platform, stopping,
                   history>>

\* The select on the slots and the context, which also ends with the request's
\* time-out.
Acquire(r) ==
    /\ req[r] = "queued"
    /\ \/ /\ sem < Slots
          /\ sem' = sem + 1
          /\ req' = [req EXCEPT ![r] = "boxed"]
       \/ req' = [req EXCEPT ![r] = "ending"] /\ UNCHANGED sem
    /\ UNCHANGED <<asked, active, taskMu, cancelled, platform, stopping, history>>

\* The command ends, by itself, cancelled or timed out, and frees its slot.
RunEnds(r) ==
    /\ req[r] \in {"running", "boxed"}
    /\ req' = [req EXCEPT ![r] = IF kind[r] \in Registered THEN "ending"
                                 ELSE "done"]
    /\ sem' = IF req[r] = "boxed" THEN sem - 1 ELSE sem
    /\ UNCHANGED <<asked, active, taskMu, cancelled, platform, stopping, history>>

\* The deferred Delete and cancel.
End(r) ==
    /\ req[r] = "ending"
    /\ active' = [active EXCEPT ![id[r]] = None]
    /\ cancelled' = cancelled \cup {r}
    /\ req' = [req EXCEPT ![r] = "done"]
    /\ UNCHANGED <<asked, taskMu, sem, platform, stopping, history>>

-----------------------------------------------------------------------------
(* The goroutine that receives from the platform; Receiver.Handle returns     *)
(* when the handler does                                                      *)

\* ExecuteCommand and ExecuteScript: rejected without an answer in a shutdown,
\* answered at once when neither sandbox nor fallback is there or the policy
\* refuses, else run.
RecvCommand ==
    /\ recv = "idle" /\ ~ctxDone /\ messages < MaxMessages
    /\ messages' = messages + 1
    /\ recv' \in IF shuttingDown THEN {"idle"}
                 ELSE {"answer", IF sandboxed THEN "queued" ELSE "running"}
    /\ UNCHANGED <<asked, active, taskMu, req, cancelled, sem, ctxDone, stopping,
                   history>>

RecvAcquire ==
    /\ recv = "queued"
    /\ \/ sem < Slots /\ sem' = sem + 1 /\ recv' = "boxed"
       \/ ctxDone /\ recv' = "answer" /\ UNCHANGED sem
    /\ UNCHANGED <<asked, active, taskMu, req, cancelled, messages, ctxDone,
                   stopping, history>>

RecvRunEnds ==
    /\ recv \in {"running", "boxed"}
    /\ recv' = "answer"
    /\ sem' = IF recv = "boxed" THEN sem - 1 ELSE sem
    /\ UNCHANGED <<asked, active, taskMu, req, cancelled, messages, ctxDone,
                   stopping, history>>

\* SendExecResult
RecvAnswer ==
    /\ recv = "answer"
    /\ recv' = "idle"
    /\ UNCHANGED <<asked, active, taskMu, req, cancelled, sem, messages, ctxDone,
                   stopping, history>>

\* CancelJob
RecvCancel(i) ==
    /\ recv = "idle" /\ ~ctxDone /\ messages < MaxMessages
    /\ messages' = messages + 1
    /\ cancelled' = cancelled \cup ({active[i]} \ {None})
    /\ UNCHANGED <<asked, active, taskMu, req, sem, recv, ctxDone, stopping,
                   history>>

RecvExit ==
    /\ recv = "idle" /\ ctxDone
    /\ recv' = "over"
    /\ UNCHANGED <<asked, active, taskMu, req, cancelled, sem, messages, ctxDone,
                   stopping, history>>

-----------------------------------------------------------------------------
(* The agent's goroutine: shutdown *)

BeginShutdown ==
    /\ shut = "serving"
    /\ shuttingDown' = TRUE
    /\ shut' = "wait"
    /\ UNCHANGED <<asked, active, taskMu, req, cancelled, sem, platform, expired,
                   history>>

\* The shutdown context times out.
Expire ==
    /\ shut \notin {"serving", "stopped"} /\ ~expired
    /\ expired' = TRUE
    /\ UNCHANGED <<asked, active, taskMu, req, cancelled, sem, platform,
                   shuttingDown, shut, history>>

\* waitForActiveTasks that returns at its first tick.
TickReturning ==
    /\ shut = "wait"
    /\ shut' = "scheduler"
    /\ UNCHANGED <<asked, active, taskMu, req, cancelled, sem, platform,
                   shuttingDown, expired, history>>

\* waitForActiveTasks: a tick that finds no task ends it, and ...
Tick ==
    /\ shut = "wait" /\ \A i \in TaskId : active[i] = None
    /\ shut' = "scheduler"
    /\ UNCHANGED <<asked, active, taskMu, req, cancelled, sem, platform,
                   shuttingDown, expired, history>>

\* The time-out cancels what is registered and goes on waiting.
ExpiredWaiting ==
    /\ shut = "wait" /\ expired
    /\ cancelled' = cancelled \cup ({active[i] : i \in TaskId} \ {None})
    /\ UNCHANGED <<asked, active, taskMu, req, sem, platform, stopping, history>>

\* ... so does the time-out, which cancels what is registered.
WaitExpired ==
    /\ shut = "wait" /\ expired
    /\ cancelled' = cancelled \cup ({active[i] : i \in TaskId} \ {None})
    /\ shut' = "scheduler"
    /\ UNCHANGED <<asked, active, taskMu, req, sem, platform, shuttingDown,
                   expired, history>>

\* scheduler.Stop, then FlushAndStop, which cancels the receiving goroutine ...
FlushAndStop ==
    /\ shut = "scheduler"
    /\ ctxDone' = TRUE
    /\ shut' = "flush"
    /\ UNCHANGED <<asked, active, taskMu, req, cancelled, sem, recv, messages,
                   shuttingDown, expired, history>>

\* ... and waits for it.
FlushWait ==
    /\ shut = "flush" /\ recv = "over"
    /\ shut' = "http"
    /\ UNCHANGED <<asked, active, taskMu, req, cancelled, sem, platform,
                   shuttingDown, expired, history>>

\* After the plugins, the gateway and the federation: server.Shutdown closes the
\* listener ...
HttpShutdown ==
    /\ shut = "http"
    /\ shut' = "closing"
    /\ UNCHANGED <<asked, active, taskMu, req, cancelled, sem, platform,
                   shuttingDown, expired, history>>

\* ... and waits for the open requests or its context.
HttpDone ==
    /\ shut = "closing"
    /\ expired \/ \A r \in Request : req[r] \in {"new", "done"}
    /\ shut' = "stopped"
    /\ UNCHANGED <<asked, active, taskMu, req, cancelled, sem, platform,
                   shuttingDown, expired, history>>

-----------------------------------------------------------------------------

Terminated == shut = "stopped" /\ UNCHANGED vars

Handle(r) ==
    \/ Admit(r) \/ RunPlugin(r) \/ CheckShutdown(r) \/ Store(r) \/ Parse(r)
    \/ Acquire(r) \/ End(r)

Receive == RecvAcquire \/ RecvRunEnds \/ RecvAnswer \/ RecvExit

Shutdown ==
    \/ Expire \/ Tick \/ WaitExpired \/ FlushAndStop \/ FlushWait
    \/ HttpShutdown \/ HttpDone

Next ==
    \/ \E r \in Request : Arrive(r) \/ Handle(r) \/ RunEnds(r)
    \/ RecvCommand \/ Receive \/ \E i \in TaskId : RecvCancel(i)
    \/ BeginShutdown \/ Shutdown \/ Terminated

Spec == Init /\ [][Next]_vars

\* The goroutines run; the shutdown context times out.  Of the commands only the
\* platform's are taken to end, once their context is cancelled: the others may
\* hang, held by a descendant that keeps their output open.
Fairness ==
    /\ WF_vars(Receive) /\ WF_vars(Shutdown)
    /\ WF_vars(Expire) /\ WF_vars(WaitExpired)

FairSpec == Spec /\ Fairness

-----------------------------------------------------------------------------
(* Properties *)

Executing(r) == req[r] \in {"stored", "queued", "boxed", "running", "ending"}

\* Another request is registered under the same id.
Shared(r) == \E q \in Request \ {r} : id[q] = id[r] /\ kind[q] \in Registered

Boxed == {r \in Request : req[r] = "boxed"}

\* Whatever ids collide, a cancel function in activeTasks is that of a request
\* that runs under its id: CancelJob cancels nothing else, and
\* waitForActiveTasks does not wait for a task that is over.
EntryIsLive ==
    \A i \in TaskId : active[i] # None =>
        id[active[i]] = i /\ Executing(active[i])

\* "Mark as shutting down (reject new tasks)": a task that arrives after that
\* never runs, registered or not.
LateIsRefused ==
    \A r \in late : kind[r] # "direct" => req[r] \in {"dispatched", "done"}

\* A task that was registered before the shutdown began, under an id of its own,
\* is over when waitForActiveTasks returns before its time-out.
RegisteredIsWaitedFor ==
    shut \notin {"serving", "wait"} /\ ~expired =>
        \A r \in early : Executing(r) => Shared(r)

\* The slots taken are those of the commands in the sandbox, whichever way they
\* or their waiting ended.
SlotsAreExact == sem = Cardinality(Boxed) + (IF recv = "boxed" THEN 1 ELSE 0)

\* Shutdown ends although the commands of HTTP requests may hang for ever.
ShutdownCompletes == shut = "wait" ~> shut = "stopped"

\* "Wait for active tasks to complete": unless it timed out, no task of the
\* dispatcher and no command of the platform runs when the subsystems are torn
\* down.
TasksAreOver ==
    shut \notin {"serving", "wait"} /\ ~expired =>
        /\ \A r \in Request : kind[r] \in Registered => ~Executing(r)
        /\ recv \notin {"queued", "boxed", "running"}
=============================================================================
