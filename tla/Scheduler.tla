----------------------------- MODULE Scheduler -----------------------------
(***************************************************************************)
(* The collection pipeline of internal/collector/scheduler.go with the two *)
(* goroutines that drive it: the agent's (Start, the event loop that reads *)
(* the pipeline channel, Stop) and the one that reloads the configuration  *)
(* (Reload, called by CollectorReloader under ConfigReloader's lock, so    *)
(* one at a time).  Every input runs in a goroutine of its own, and one    *)
(* more pushes the aggregators.                                            *)
(*                                                                         *)
(* s.mu is held across steps only by Reload; the other sections under it   *)
(* are single steps.  The wait group counts the goroutines that are not    *)
(* over; who waits for it is released at the moment it falls to zero.      *)
(* Every context Reload creates descends from context.Background(), not    *)
(* from the agent's context.  A panic ends the process, and every step.    *)
(***************************************************************************)
EXTENDS Naturals, FiniteSets

CONSTANTS
    Input,          \* the inputs a configuration can have
    MaxReloads      \* bound: calls of Reload

ASSUME InputAssumption == IsFiniteSet(Input) /\ Input # {}
ASSUME ReloadAssumption == MaxReloads \in Nat

VARIABLES
    inputs,     \* s.inputs
    hasAgg,     \* s.aggregators is not empty
    running,    \* s.running
    locked,     \* Reload holds s.mu
    cancelled,  \* s.cancel was called for the present goroutines
    detached,   \* their context does not descend from the agent's
    parentDone, \* the agent's context is cancelled
    gin,        \* the goroutine of every input
    push,       \* the goroutine of the aggregators
    closer,     \* the goroutine that closes the channel
    cap,        \* the capacity of the channel
    queued,     \* batches in it
    closed,     \* it is closed
    reload,     \* the goroutine that reloads
    reloads,    \* how often it did
    agent,      \* the agent's goroutine
    panicked    \* the process has panicked

vars == <<inputs, hasAgg, running, locked, cancelled, detached, parentDone, gin,
          push, closer, cap, queued, closed, reload, reloads,
          agent, panicked>>

config == <<inputs, hasAgg>>
context == <<cancelled, detached, parentDone>>
channel == <<cap, queued, closed>>
notAgent == <<config, running, locked, context, gin, push, closer, channel,
              reload, reloads, panicked>>
notGin == <<config, running, locked, context, push, closer, channel, reload,
            reloads, agent, panicked>>

TypeOK ==
    /\ inputs \subseteq Input
    /\ hasAgg \in BOOLEAN /\ running \in BOOLEAN /\ locked \in BOOLEAN
    /\ cancelled \in BOOLEAN /\ detached \in BOOLEAN /\ parentDone \in BOOLEAN
    /\ closed \in BOOLEAN /\ panicked \in BOOLEAN
    /\ gin \in [Input -> {"over", "idle", "gathered", "stamp", "send"}]
    /\ push \in {"over", "idle", "push", "lastPush"}
    /\ closer \in {"none", "waiting", "released", "closing", "over"}
    /\ cap \in 0 .. Cardinality(Input) /\ queued \in 0 .. cap
    /\ reload \in {"idle", "wait", "rebuild"} /\ reloads \in 0 .. MaxReloads
    /\ agent \in {"new", "loop", "nilchan", "shutdown", "stopWait", "stopped"}

-----------------------------------------------------------------------------
(* Helpers *)

\* ctx.Done() of the present goroutines is ready.
Done == cancelled \/ (parentDone /\ ~detached)

\* The wait group's counter is zero.
Quiet == push = "over" /\ \A i \in Input : gin[i] = "over"

\* A goroutine ends: when it is the last one, the waiting closer is released.
Release(last) ==
    closer' = IF last /\ closer = "waiting" THEN "released" ELSE closer

\* A goroutine for every input of ins, and one for the aggregators if any.
Launch(ins, withAgg) ==
    /\ gin' = [i \in Input |-> IF i \in ins THEN "idle" ELSE "over"]
    /\ push' = IF withAgg THEN "idle" ELSE "over"

\* NewScheduler, by buildScheduler, which makes none without inputs
NewScheduler ==
    /\ inputs \in (SUBSET Input) \ {{}} /\ hasAgg \in BOOLEAN
    /\ running = FALSE /\ locked = FALSE
    /\ cancelled = FALSE /\ detached = FALSE /\ parentDone = FALSE
    /\ gin = [i \in Input |-> "over"] /\ push = "over"
    /\ closer = "none" /\ cap = 0 /\ queued = 0 /\ closed = FALSE
    /\ reload = "idle" /\ reloads = 0
    /\ agent = "new" /\ panicked = FALSE

-----------------------------------------------------------------------------
(* The agent's goroutine *)

StartWith(size, first) ==
    /\ agent = "new" /\ ~locked /\ ~panicked
    /\ agent' = "loop"
    /\ running' = TRUE
    /\ cap' = size
    /\ cancelled' = FALSE
    /\ Launch(inputs, hasAgg)
    /\ closer' = first
    /\ UNCHANGED <<config, locked, detached, parentDone, queued, closed,
                   reload, reloads, panicked>>

Start ==
    StartWith(Cardinality(inputs),
              IF inputs = {} /\ ~hasAgg THEN "closing" ELSE "waiting")

\* The event loop hands a batch to SendMetrics, ...
EventLoopReceive ==
    /\ agent = "loop" /\ queued > 0 /\ ~panicked
    /\ queued' = queued - 1
    /\ UNCHANGED <<config, running, locked, context, gin, push, closer, cap,
                   closed, reload, reloads, agent, panicked>>

\* ... ignores the channel once it is closed, ...
EventLoopClosed ==
    /\ agent = "loop" /\ closed /\ queued = 0 /\ ~panicked
    /\ agent' = "nilchan"
    /\ UNCHANGED notAgent

\* ... and ends when its context is cancelled or the HTTP server stops.
EventLoopEnds ==
    /\ agent \in {"loop", "nilchan"} /\ ~panicked
    /\ agent' = "shutdown"
    /\ UNCHANGED notAgent

ParentCancelled ==
    /\ ~parentDone /\ ~panicked
    /\ parentDone' = TRUE
    /\ UNCHANGED <<config, running, locked, cancelled, detached, gin, push,
                   closer, channel, reload, reloads, agent, panicked>>

Stop ==
    /\ agent = "shutdown" /\ ~locked /\ ~panicked
    /\ agent' = "stopWait"
    /\ cancelled' = TRUE
    /\ running' = FALSE
    /\ UNCHANGED <<config, locked, detached, parentDone, gin, push, closer,
                   channel, reload, reloads, panicked>>

StopWait ==
    /\ agent = "stopWait" /\ Quiet /\ ~panicked
    /\ agent' = "stopped"
    /\ UNCHANGED notAgent

-----------------------------------------------------------------------------
(* Reload *)

ReloadLock ==
    /\ reload = "idle" /\ ~locked /\ reloads < MaxReloads /\ ~panicked
    /\ reloads' = reloads + 1
    /\ reload' = "wait"
    /\ locked' = TRUE
    /\ cancelled' = TRUE
    /\ UNCHANGED <<config, running, detached, parentDone, gin, push, closer,
                   channel, agent, panicked>>

\* Reload without its wait.
ReloadNotWaiting ==
    /\ reload = "wait" /\ ~panicked
    /\ reload' = "rebuild"
    /\ UNCHANGED <<config, running, locked, context, gin, push, closer,
                   channel, reloads, agent, panicked>>

\* After the wait: the aggregators are pushed into an accumulator nobody reads.
ReloadWait ==
    /\ reload = "wait" /\ Quiet /\ ~panicked
    /\ reload' = "rebuild"
    /\ UNCHANGED <<config, running, locked, context, gin, push, closer,
                   channel, reloads, agent, panicked>>

\* An unknown type or a failing Init: Reload returns with nothing running.
ReloadFails ==
    /\ reload = "rebuild" /\ ~panicked
    /\ reload' = "idle" /\ locked' = FALSE
    /\ UNCHANGED <<config, running, context, gin, push, closer, channel,
                   reloads, agent, panicked>>

ReloadRestarts ==
    /\ reload = "rebuild" /\ ~panicked
    /\ inputs' \in SUBSET Input /\ hasAgg' \in BOOLEAN
    /\ IF running
       THEN Launch(inputs', hasAgg') /\ cancelled' = FALSE /\ detached' = TRUE
       ELSE UNCHANGED <<gin, push, cancelled, detached>>
    /\ reload' = "idle" /\ locked' = FALSE
    /\ UNCHANGED <<running, parentDone, closer, channel, reloads, agent,
                   panicked>>

-----------------------------------------------------------------------------
(* runInput and gatherOnce; a failing or empty Gather is a tick that leaves   *)
(* everything as it is                                                        *)

Gather(i) ==
    /\ gin[i] = "idle" /\ ~panicked
    /\ gin' = [gin EXCEPT ![i] = "gathered"]
    /\ UNCHANGED notGin

\* Processors, aggregators and outputs
Process(i) ==
    /\ gin[i] = "gathered" /\ ~panicked
    /\ gin' = [gin EXCEPT ![i] = "stamp"]
    /\ UNCHANGED notGin

\* s.lastCollection under s.mu
Stamp(i) ==
    /\ gin[i] = "stamp" /\ ~locked /\ ~panicked
    /\ gin' = [gin EXCEPT ![i] = "send"]
    /\ UNCHANGED notGin

\* A send that does not watch the cancellation.
SendOnly(i) ==
    /\ gin[i] = "send" /\ ~panicked
    /\ \/ /\ ~closed /\ queued < cap
          /\ queued' = queued + 1
          /\ UNCHANGED panicked
       \/ closed /\ panicked' = TRUE /\ UNCHANGED queued
    /\ gin' = [gin EXCEPT ![i] = "idle"]
    /\ UNCHANGED <<config, running, locked, context, push, closer, cap,
                   closed, reload, reloads, agent>>

\* The select between the channel and the cancellation; a closed channel is
\* ready, and sending to it panics.
Send(i) ==
    /\ gin[i] = "send" /\ ~panicked
    /\ \/ /\ ~closed /\ queued < cap
          /\ queued' = queued + 1
          /\ UNCHANGED panicked
       \/ closed /\ panicked' = TRUE /\ UNCHANGED queued
       \/ Done /\ UNCHANGED <<queued, panicked>>
    /\ gin' = [gin EXCEPT ![i] = "idle"]
    /\ UNCHANGED <<config, running, locked, context, push, closer, cap,
                   closed, reload, reloads, agent>>

InputExit(i) ==
    /\ gin[i] = "idle" /\ Done /\ ~panicked
    /\ gin' = [gin EXCEPT ![i] = "over"]
    /\ Release(push = "over" /\ \A j \in Input \ {i} : gin[j] = "over")
    /\ UNCHANGED <<config, running, locked, context, push, channel, reload,
                   reloads, agent, panicked>>

-----------------------------------------------------------------------------
(* runAggregatorPush and the closer *)

\* pushAggregators begins, on a tick or, for the last time, on the cancellation,
AggPush ==
    /\ push = "idle" /\ ~panicked
    /\ \/ push' = "push"
       \/ Done /\ push' = "lastPush"
    /\ UNCHANGED <<config, running, locked, context, gin, closer, channel,
                   reload, reloads, agent, panicked>>

\* and ends, its results written to the outputs.
AggPushed ==
    /\ push \in {"push", "lastPush"} /\ ~panicked
    /\ push' = IF push = "push" THEN "idle" ELSE "over"
    /\ Release(push = "lastPush" /\ \A i \in Input : gin[i] = "over")
    /\ UNCHANGED <<config, running, locked, context, gin, channel, reload,
                   reloads, agent, panicked>>

\* wg.Wait returns; it panics if the wait group is in use again.
CloserWakes ==
    /\ closer = "released" /\ ~panicked
    /\ IF Quiet THEN closer' = "closing" /\ UNCHANGED panicked
       ELSE panicked' = TRUE /\ UNCHANGED closer
    /\ UNCHANGED <<config, running, locked, context, gin, push, channel,
                   reload, reloads, agent>>

CloseChannel ==
    /\ closer = "closing" /\ ~panicked
    /\ closer' = "over" /\ closed' = TRUE
    /\ UNCHANGED <<config, running, locked, context, gin, push, cap, queued,
                   reload, reloads, agent, panicked>>

-----------------------------------------------------------------------------

Terminated ==
    /\ panicked \/ (agent = "stopped" /\ closer = "over")
    /\ UNCHANGED vars

InputStep(i) == Process(i) \/ Stamp(i) \/ Send(i) \/ InputExit(i)
AgentStep == EventLoopReceive \/ EventLoopClosed \/ Stop \/ StopWait
ReloadStep == ReloadWait \/ ReloadFails \/ ReloadRestarts
PushStep == AggPush \/ AggPushed
CloserStep == CloserWakes \/ CloseChannel

Next ==
    \/ Start \/ AgentStep \/ EventLoopEnds \/ ParentCancelled
    \/ ReloadLock \/ ReloadStep
    \/ \E i \in Input : Gather(i) \/ InputStep(i)
    \/ PushStep \/ CloserStep \/ Terminated

Spec == NewScheduler /\ [][Next]_vars

\* Every goroutine that can run does; a select that finds the cancellation
\* ready again and again takes it; a cancelled context ends the event loop.
Fairness ==
    /\ \A i \in Input : WF_vars(InputStep(i)) /\ SF_vars(InputExit(i))
    /\ WF_vars(AgentStep) /\ WF_vars(ReloadStep)
    /\ WF_vars(AggPushed) /\ SF_vars(AggPush /\ push' = "lastPush")
    /\ WF_vars(CloserStep) /\ WF_vars(parentDone /\ EventLoopEnds)

FairSpec == Spec /\ Fairness

-----------------------------------------------------------------------------
(* Properties *)

\* Reload replaces the processors, aggregators and outputs, which gatherOnce
\* and pushAggregators read without s.mu, only while none of them runs.
SwapIsExclusive == reload = "rebuild" => Quiet

\* Once Stop has returned no collection goroutine runs, and a Reload that comes
\* late starts none.
StopIsFinal == agent = "stopped" => Quiet /\ ~running

\* Until the pipeline is first reloaded no input sends on the closed channel and
\* the wait group is never reused under a waiter.
NeverPanics == reloads = 0 => ~panicked

\* Stop completes although nobody reads the channel any more: a blocked send
\* gives way to the cancellation, unless a reload gets in its way.
StopCompletes == agent = "shutdown" ~> agent = "stopped" \/ reloads > 0

\* "The channel is closed when Stop is called" and not before it, unless the
\* agent's context is cancelled: a reload does not interrupt it.
OpenUntilStop == closed => parentDone \/ ~running

\* Reload "stops the current pipeline, rebuilds all plugin instances, and
\* restarts collection": it returns.
ReloadCompletes == reload = "wait" ~> reload = "idle" \/ panicked
=============================================================================
