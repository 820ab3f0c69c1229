---- MODULE AgentLifecycle ----
\* The life of the agent process: the run command (internal/app/commands.go),
\* what NewAgent builds, the order in which startSubsystems starts the parts and
\* shutdown stops them, and RunOnce (internal/app/agent.go); and the plugin
\* runtime process the agent starts and stops (internal/pluginruntime/
\* runtime.go). The parts themselves are modelled elsewhere; here a part runs or
\* does not.
EXTENDS Naturals, Sequences, FiniteSets

CONSTANT AgentConfig  \* [inputs: "none" | "good" | "bad"; plugin: "off" | "external" |
                      \*  "auto"; audit: "off" | "good" | "bad"; parts: the optional
                      \*  parts that are enabled; dryRun: BOOLEAN]

VARIABLES conf,      \* the loaded configuration
          at,        \* where the run command is
          step,      \* position in startOrder or stopOrder
          running,   \* the parts that run
          ctxDone,   \* the signal context is cancelled
          stopDone,  \* shutdown's five-second stop context is over
          process,   \* the plugin runtime process: "none", "starting", "up", "gone"
                     \* (ended, not waited for)
          returned   \* what the command returned: "no", "nil", "error", "panic"

agentVars == <<conf, at, step, running, ctxDone, stopDone, process, returned>>

\* startSubsystems and shutdown, in the order of the code.
startOrder == <<"runtime", "plugins", "scheduler", "grpc", "gateway", "discovery",
                "hub", "leaf", "http">>
stopOrder  == <<"tasks", "scheduler", "grpc", "runtime", "plugins", "gateway",
                "hub", "leaf", "http">>

AgentInit ==
  /\ conf \in AgentConfig
  /\ at = "load" /\ step = 1 /\ running = {} /\ ctxDone = FALSE /\ stopDone = FALSE
  /\ process = "none" /\ returned = "no"

Return(what) ==
  /\ at' = "over" /\ returned' = what
  /\ UNCHANGED <<conf, step, running, ctxDone, stopDone, process>>

----
\* Building.

\* config.Load fails on a bad file.
LoadConfig ==
  /\ at = "load"
  /\ \/ Return("error")
     \/ /\ at' = "build"
        /\ UNCHANGED <<conf, step, running, ctxDone, stopDone, process, returned>>

\* The scheduler buildScheduler returns: an error for an input (or a processor,
\* an aggregator, an output) that is unknown or whose Init fails, a nil pointer
\* without inputs.
buildScheduler(inputs) ==
  CASE inputs = "bad" -> "error" [] inputs = "none" -> "nil" [] OTHER -> "scheduler"

\* NewAgent stores the *Scheduler in the interface field a.scheduler, so the
\* comparison with nil is true of an injected nil only, never of buildScheduler's.
SchedulerIsNil == FALSE

\* The parts NewAgent builds. The hub or the leaf comes with the agent's mode.
Built(s) ==
  CASE s \in {"runtime", "grpc", "http"} -> TRUE
    [] s = "scheduler"                   -> ~SchedulerIsNil
    [] OTHER                             -> s \in conf.parts

NewAgent ==
  /\ at = "build"
  /\ IF conf.audit = "bad" \/ buildScheduler(conf.inputs) = "error" THEN Return("error")
     ELSE /\ at' = IF conf.dryRun THEN "once" ELSE "start"
          /\ UNCHANGED <<conf, step, running, ctxDone, stopDone, process, returned>>

----
\* The plugin runtime process.

StartingRuntime == at = "start" /\ step = 1  \* startOrder[1] = "runtime"

\* Runtime.Start up to the launch. Without autostart the process is not the
\* agent's.
RuntimeStart ==
  /\ StartingRuntime
  /\ \/ /\ conf.plugin # "auto"
        /\ running' = IF conf.plugin = "off" THEN running ELSE running \cup {"runtime"}
        /\ step' = step + 1 /\ UNCHANGED <<at, process, returned>>
     \/ /\ conf.plugin = "auto" /\ process = "none"
        /\ \/ at' = "over" /\ returned' = "error" /\ UNCHANGED process
           \/ process' = "starting" /\ UNCHANGED <<at, returned>>
        /\ UNCHANGED <<step, running>>
  /\ UNCHANGED <<conf, ctxDone, stopDone>>

\* waitForSocket sees the socket: a process that has ended may have left it.
RuntimeReady ==
  /\ StartingRuntime /\ process \in {"starting", "gone"}
  /\ process' = IF process = "starting" THEN "up" ELSE process
  /\ running' = running \cup {"runtime"} /\ step' = step + 1
  /\ UNCHANGED <<conf, at, ctxDone, stopDone, returned>>

\* StartupTimeout passes: the process is killed and waited for. waitForSocket
\* does not look at the agent's context.
StartupTimeout ==
  /\ StartingRuntime /\ process \in {"starting", "gone"}
  /\ process' = "none" /\ at' = "over" /\ returned' = "error"
  /\ UNCHANGED <<conf, step, running, ctxDone, stopDone>>

\* The process ends: by itself, on the interrupt of Stop, or killed because it was
\* started with exec.CommandContext on the agent's context.
ProcessEnds ==
  /\ process \in {"starting", "up"}
  /\ process' = "gone"
  /\ UNCHANGED <<conf, at, step, running, ctxDone, stopDone, returned>>

\* Variant: on the context's end Stop returns at once.
RuntimeStopGivesUp ==
  /\ at = "stop" /\ stopOrder[step] = "runtime"
  /\ conf.plugin = "auto" => process # "up" \/ stopDone
  /\ running' = running \ {"runtime"} /\ step' = step + 1
  /\ process' = IF process = "gone" THEN "none" ELSE process
  /\ UNCHANGED <<conf, at, ctxDone, stopDone, returned>>

\* Variant: Stop waits for the process whatever the context says.
RuntimeStopWaits ==
  /\ at = "stop" /\ stopOrder[step] = "runtime"
  /\ conf.plugin = "auto" => process # "up"
  /\ running' = running \ {"runtime"} /\ step' = step + 1
  /\ process' = "none"
  /\ UNCHANGED <<conf, at, ctxDone, stopDone, returned>>

\* Runtime.Stop: an interrupt, then the end of the process or of the context,
\* which kills it; either way it is waited for.
RuntimeStop ==
  /\ at = "stop" /\ stopOrder[step] = "runtime"
  /\ conf.plugin = "auto" => process # "up" \/ stopDone
  /\ running' = running \ {"runtime"} /\ step' = step + 1
  /\ process' = "none"
  /\ UNCHANGED <<conf, at, ctxDone, stopDone, returned>>

----
\* startSubsystems.

\* A part that is not there is skipped; the plugin gateway and the tunnel gateway
\* may fail, which ends Run without stopping what has been started; Start on the
\* nil scheduler locks a mutex through a nil pointer.
StartNext ==
  /\ at = "start" /\ step \in 2..Len(startOrder)
  /\ LET s == startOrder[step] IN
     \/ /\ ~Built(s) /\ step' = step + 1
        /\ UNCHANGED <<at, running, returned>>
     \/ /\ Built(s) /\ ~(s = "scheduler" /\ conf.inputs = "none")
        /\ running' = running \cup {s} /\ step' = step + 1
        /\ UNCHANGED <<at, returned>>
     \/ /\ Built(s) /\ s \in {"plugins", "gateway"}
        /\ at' = "over" /\ returned' = "error"
        /\ UNCHANGED <<step, running>>
     \/ /\ Built(s) /\ s = "scheduler" /\ conf.inputs = "none"
        /\ at' = "over" /\ returned' = "panic"
        /\ UNCHANGED <<step, running>>
  /\ UNCHANGED <<conf, ctxDone, stopDone, process>>

\* SIGINT or SIGTERM.
Signal ==
  /\ at # "over" /\ ~ctxDone /\ ctxDone' = TRUE
  /\ UNCHANGED <<conf, at, step, running, stopDone, process, returned>>

\* Run enters the event loop once every part is started.
EnterLoop ==
  /\ at = "start" /\ step > Len(startOrder)
  /\ at' = "loop"
  /\ UNCHANGED <<conf, step, running, ctxDone, stopDone, process, returned>>

\* DiscoveryService.Run returns on the context's end.
DiscoveryEnds ==
  /\ "discovery" \in running /\ ctxDone
  /\ running' = running \ {"discovery"}
  /\ UNCHANGED <<conf, at, step, ctxDone, stopDone, process, returned>>

\* The HTTP server cannot listen, or fails later.
HttpFails ==
  /\ at = "loop" /\ "http" \in running
  /\ running' = running \ {"http"}
  /\ UNCHANGED <<conf, at, step, ctxDone, stopDone, process, returned>>

\* The event loop ends with the context or with the HTTP server; shutdown runs
\* on a context of its own.
EventLoopEnds ==
  /\ at = "loop" /\ (ctxDone \/ "http" \notin running)
  /\ at' = "stop" /\ step' = 1
  /\ UNCHANGED <<conf, running, ctxDone, stopDone, process, returned>>

\* The stop context of five seconds is over: it is shared by the plugin runtime,
\* the plugin gateway and the tunnel gateway.
StopTimeout ==
  /\ at = "stop" /\ stopOrder[step] \in {"runtime", "plugins", "gateway"} /\ ~stopDone
  /\ stopDone' = TRUE
  /\ UNCHANGED <<conf, at, step, running, ctxDone, process, returned>>

\* One step of shutdown: the wait for the tasks, then each part in turn; errors
\* are logged and the next step follows.
StopNext ==
  /\ at = "stop" /\ stopOrder[step] # "runtime"
  /\ running' = running \ {stopOrder[step]}
  /\ IF step < Len(stopOrder)
     THEN step' = step + 1 /\ UNCHANGED <<at, returned>>
     ELSE at' = "over" /\ returned' = "nil" /\ UNCHANGED step
  /\ UNCHANGED <<conf, ctxDone, stopDone, process>>

----
\* RunOnce: the scheduler alone, for one batch; its comparison of a.scheduler
\* with nil is as false as SchedulerIsNil. A cancelled context returns
\* before the scheduler's Stop; gathering ends with the context.
RunOnce ==
  /\ at = "once"
  /\ \/ conf.inputs = "none" /\ Return("panic")
     \/ /\ conf.inputs = "good" /\ "scheduler" \notin running
        /\ running' = running \cup {"scheduler"}
        /\ UNCHANGED <<conf, at, step, ctxDone, stopDone, process, returned>>
     \/ /\ "scheduler" \in running
        /\ \/ ctxDone /\ returned' = "error"
           \/ returned' = "nil"
        /\ running' = {} /\ at' = "over"
        /\ UNCHANGED <<conf, step, ctxDone, stopDone, process>>

AgentStep ==
  \/ LoadConfig \/ NewAgent \/ RuntimeStart \/ StartNext \/ EnterLoop
  \/ EventLoopEnds \/ StopNext \/ RuntimeStop \/ RunOnce

AgentNext ==
  \/ AgentStep \/ RuntimeReady \/ StartupTimeout \/ ProcessEnds
  \/ Signal \/ DiscoveryEnds \/ HttpFails \/ StopTimeout

\* The run command's own steps, and what a cancelled context ends.
AgentFairness ==
  /\ WF_agentVars(AgentStep)
  /\ WF_agentVars(RuntimeReady \/ StartupTimeout)
  /\ WF_agentVars(StopTimeout)

AgentSpec == AgentInit /\ [][AgentNext]_agentVars /\ AgentFairness

----
\* Run returns nil only when nothing it started is left: every part was stopped,
\* whichever of the signal and the HTTP server ended the loop, and the plugin
\* runtime process was waited for even when the stop context ran out. Discovery
\* is the exception: nothing stops it but the context.
NilMeansStopped ==
  returned = "nil" => running \subseteq {"discovery"} /\ process = "none"

\* A start that fails at the plugin runtime leaves no process behind.
NoOrphanRuntime ==
  returned = "error" /\ "runtime" \notin running => process = "none"

\* Whether Run returns nil or an error, no plugin runtime is left without its
\* agent, and with nil nothing else is left either.
ReturnLeavesNothing == NilMeansStopped /\ NoOrphanRuntime

\* The signal ends the command, whatever is being started or waited for.
SignalEnds == ctxDone ~> at = "over"
====
