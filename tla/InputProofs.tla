---------------------------- MODULE InputProofs -----------------------------
(***************************************************************************)
(* Proofs about the scheduler and the inputs it gathers from, for every    *)
(* value of their constants: any number of reloads, files, journal entries *)
(* and items asked.  Each part has its own inductive invariant; its        *)
(* theorems follow it.                                                     *)
(***************************************************************************)
EXTENDS Scheduler, InputGather, TailInput, JournaldInput, FiniteSetTheorems,
        TLAPS

\* The prover of every leaf that names none.
USE SMTT(30)

-----------------------------------------------------------------------------
(* The scheduler *)

\* Reload holds s.mu from its first step to its last.
Locked == locked <=> reload # "idle"

\* Before Start nothing runs and the channel is not there; s.running is set by
\* Start alone and cleared by Stop for good.
Phases ==
    /\ agent = "new" => Quiet /\ ~running /\ closer = "none" /\ cap = 0 /\ queued = 0 /\ ~closed
    /\ agent \in {"stopWait", "stopped"} => ~running

\* Until the first reload the closer passes its wait only when every goroutine is
\* over, and none is started again.
Unreloaded ==
    reloads = 0 =>
        /\ reload = "idle"
        /\ closer \in {"released", "closing", "over"} => Quiet
        /\ closed => closer = "over"

\* The inductive invariant.
SchedInv ==
    /\ TypeOK /\ Locked /\ Phases /\ Unreloaded
    /\ SwapIsExclusive /\ StopIsFinal /\ NeverPanics

-----------------------------------------------------------------------------

\* The channel Start makes is no larger than the number of inputs.
LEMMA ChannelSize ==
    ASSUME NEW S \in SUBSET Input
    PROVE  Cardinality(S) \in 0 .. Cardinality(Input)
<1>1. IsFiniteSet(S) /\ Cardinality(S) <= Cardinality(Input)
  BY Zenon, InputAssumption, FS_Subset
<1>2. Cardinality(S) \in Nat /\ Cardinality(Input) \in Nat
  BY Zenon, <1>1, InputAssumption, FS_CardinalityType
<1> QED BY <1>1, <1>2

\* The scheduler starts with the invariant.
LEMMA SchedStarts == NewScheduler => SchedInv
<1> SUFFICES ASSUME NewScheduler PROVE SchedInv
  BY Zenon
<1>1. 0 \in 0 .. Cardinality(Input)
  BY InputAssumption, FS_CardinalityType
<1>a. hasAgg \in BOOLEAN /\ running \in BOOLEAN /\ locked \in BOOLEAN
        /\ cancelled \in BOOLEAN /\ detached \in BOOLEAN /\ parentDone \in BOOLEAN
        /\ closed \in BOOLEAN /\ panicked \in BOOLEAN
  BY Zenon DEF NewScheduler
<1>b. inputs \subseteq Input /\ gin \in [Input -> {"over", "idle", "gathered", "stamp", "send"}]
  BY Zenon DEF NewScheduler
<1>c. reloads \in 0 .. MaxReloads /\ cap \in 0 .. Cardinality(Input) /\ queued \in 0 .. cap
  BY <1>1, ReloadAssumption DEF NewScheduler
<1>2. TypeOK
  BY Zenon, <1>a, <1>b, <1>c DEF NewScheduler, TypeOK
<1> QED
  BY Zenon, <1>2 DEF NewScheduler, SchedInv, Locked, Phases, Unreloaded, SwapIsExclusive, StopIsFinal,
     NeverPanics, Quiet

\* The Boolean variables stay Boolean.
LEMMA BooleanStep ==
    ASSUME TypeOK, [Next]_vars
    PROVE  /\ hasAgg' \in BOOLEAN /\ running' \in BOOLEAN /\ locked' \in BOOLEAN
           /\ cancelled' \in BOOLEAN /\ detached' \in BOOLEAN /\ parentDone' \in BOOLEAN
           /\ closed' \in BOOLEAN /\ panicked' \in BOOLEAN
<1> USE DEF TypeOK, config, context, channel, notAgent, notGin
<1>1. CASE Start \/ AgentStep \/ EventLoopEnds \/ ParentCancelled
  BY Zenon, <1>1 DEF Start, StartWith, AgentStep, EventLoopReceive, EventLoopClosed, Stop, StopWait,
     EventLoopEnds, ParentCancelled
<1>2. CASE ReloadLock \/ ReloadStep
  BY Zenon, <1>2 DEF ReloadLock, ReloadStep, ReloadWait, ReloadFails, ReloadRestarts
<1>3. ASSUME NEW i \in Input, Gather(i) \/ InputStep(i) PROVE UNCHANGED <<hasAgg, running, locked, cancelled, detached, parentDone, closed>> /\ panicked' \in BOOLEAN
  BY Zenon, <1>3 DEF Gather, InputStep, Process, Stamp, Send, InputExit
<1>4. CASE PushStep \/ CloserStep
  <2>1. CASE AggPush
    BY Zenon, <2>1 DEF AggPush
  <2>2. CASE AggPushed
    BY Zenon, <2>2 DEF AggPushed, Release
  <2>3. CASE CloserWakes
    BY Zenon, <2>3 DEF CloserWakes
  <2>4. CASE CloseChannel
    BY Zenon, <2>4 DEF CloseChannel
  <2> QED BY Zenon, <1>4, <2>1, <2>2, <2>3, <2>4 DEF PushStep, CloserStep
<1>5. CASE Terminated \/ UNCHANGED vars
  BY Zenon, <1>5 DEF Terminated, vars
<1> QED BY Zenon, <1>1, <1>2, <1>3, <1>4, <1>5 DEF Next

\* The other variables keep their types.
LEMMA TypeStep ==
    ASSUME TypeOK, Phases, [Next]_vars
    PROVE  TypeOK'
<1> DEFINE Rest ==
        /\ inputs \subseteq Input
        /\ gin \in [Input -> {"over", "idle", "gathered", "stamp", "send"}]
        /\ push \in {"over", "idle", "push", "lastPush"}
        /\ closer \in {"none", "waiting", "released", "closing", "over"}
        /\ cap \in 0 .. Cardinality(Input) /\ queued \in 0 .. cap
        /\ reload \in {"idle", "wait", "rebuild"} /\ reloads \in 0 .. MaxReloads
        /\ agent \in {"new", "loop", "nilchan", "shutdown", "stopWait", "stopped"}
<1>0. Rest /\ Cardinality(Input) \in Nat /\ MaxReloads \in Nat
  BY Zenon, InputAssumption, ReloadAssumption, FS_CardinalityType DEF TypeOK
<1> SUFFICES Rest'
  BY Zenon, BooleanStep DEF TypeOK
<1> USE <1>0 DEF config, context, channel, notAgent, notGin
<1>1. CASE Start
  <2>1. cap' \in 0 .. Cardinality(Input) /\ queued' = 0
    BY Zenon, <1>1, ChannelSize DEF Start, StartWith, Phases
  <2> QED BY <1>1, <2>1 DEF Start, StartWith, Launch
<1>2. CASE AgentStep \/ EventLoopEnds \/ ParentCancelled
  <2>1. CASE EventLoopReceive
    BY <2>1 DEF EventLoopReceive
  <2>2. CASE EventLoopClosed
    BY Zenon, <2>2 DEF EventLoopClosed
  <2>3. CASE Stop
    BY Zenon, <2>3 DEF Stop
  <2>4. CASE StopWait
    BY Zenon, <2>4 DEF StopWait
  <2>5. CASE EventLoopEnds
    BY Zenon, <2>5 DEF EventLoopEnds
  <2>6. CASE ParentCancelled
    BY Zenon, <2>6 DEF ParentCancelled
  <2> QED BY Zenon, <1>2, <2>1, <2>2, <2>3, <2>4, <2>5, <2>6 DEF AgentStep
<1>3. CASE ReloadLock \/ ReloadWait \/ ReloadFails
  <2>1. CASE ReloadLock
    BY <2>1 DEF ReloadLock
  <2>2. CASE ReloadWait
    BY Zenon, <2>2 DEF ReloadWait
  <2>3. CASE ReloadFails
    BY Zenon, <2>3 DEF ReloadFails
  <2> QED BY Zenon, <1>3, <2>1, <2>2, <2>3
<1>4. CASE ReloadRestarts
  BY Zenon, <1>4 DEF ReloadRestarts, Launch
<1>5. ASSUME NEW i \in Input, Gather(i) \/ InputStep(i) PROVE Rest'
  <2>1. CASE Gather(i) \/ Process(i) \/ Stamp(i)
    BY Zenon, <2>1 DEF Gather, Process, Stamp
  <2>2. CASE Send(i)
    BY <2>2 DEF Send
  <2>3. CASE InputExit(i)
    BY Zenon, <2>3 DEF InputExit, Release
  <2> QED BY Zenon, <1>5, <2>1, <2>2, <2>3 DEF InputStep
<1>6. CASE PushStep \/ CloserStep
  <2>1. CASE AggPush
    BY Zenon, <2>1 DEF AggPush
  <2>2. CASE AggPushed
    BY Zenon, <2>2 DEF AggPushed, Release
  <2>3. CASE CloserWakes
    BY Zenon, <2>3 DEF CloserWakes
  <2>4. CASE CloseChannel
    BY Zenon, <2>4 DEF CloseChannel
  <2> QED BY Zenon, <1>6, <2>1, <2>2, <2>3, <2>4 DEF PushStep, CloserStep
<1>7. CASE Terminated \/ UNCHANGED vars
  BY Zenon, <1>7 DEF Terminated, vars
<1> QED BY Zenon, <1>1, <1>2, <1>3, <1>4, <1>5, <1>6, <1>7 DEF Next, ReloadStep

\* Who holds s.mu, and what precedes Start.
LEMMA PhaseStep ==
    ASSUME TypeOK, Locked, Phases, [Next]_vars
    PROVE  Locked' /\ Phases'
<1> USE DEF TypeOK, Locked, Phases, Quiet, config, context, channel, notAgent, notGin
<1>1. CASE Start
  BY Zenon, <1>1 DEF Start, StartWith
<1>2. CASE AgentStep \/ EventLoopEnds \/ ParentCancelled
  <2>1. CASE EventLoopReceive
    BY Zenon, <2>1 DEF EventLoopReceive
  <2>2. CASE EventLoopClosed
    BY Zenon, <2>2 DEF EventLoopClosed
  <2>3. CASE Stop
    BY Zenon, <2>3 DEF Stop
  <2>4. CASE StopWait
    BY Zenon, <2>4 DEF StopWait
  <2>5. CASE EventLoopEnds
    BY Zenon, <2>5 DEF EventLoopEnds
  <2>6. CASE ParentCancelled
    BY Zenon, <2>6 DEF ParentCancelled
  <2> QED BY Zenon, <1>2, <2>1, <2>2, <2>3, <2>4, <2>5, <2>6 DEF AgentStep
<1>3. CASE ReloadLock \/ ReloadWait \/ ReloadFails
  <2>1. CASE ReloadLock
    BY Zenon, <2>1 DEF ReloadLock
  <2>2. CASE ReloadWait
    BY Zenon, <2>2 DEF ReloadWait
  <2>3. CASE ReloadFails
    BY Zenon, <2>3 DEF ReloadFails
  <2> QED BY Zenon, <1>3, <2>1, <2>2, <2>3
<1>4. CASE ReloadRestarts
  BY Zenon, <1>4 DEF ReloadRestarts
<1>5. ASSUME NEW i \in Input, Gather(i) \/ InputStep(i) PROVE Locked' /\ Phases'
  <2>1. gin[i] # "over" /\ agent # "new"
    BY Zenon, <1>5 DEF Gather, InputStep, Process, Stamp, Send, InputExit
  <2>2. UNCHANGED <<running, locked, reload, agent>>
    BY Zenon, <1>5 DEF Gather, InputStep, Process, Stamp, Send, InputExit
  <2> QED BY Zenon, <2>1, <2>2
<1>6. CASE PushStep \/ CloserStep
  <2>1. CASE AggPush
    BY Zenon, <2>1 DEF AggPush
  <2>2. CASE AggPushed
    BY Zenon, <2>2 DEF AggPushed, Release
  <2>3. CASE CloserWakes
    BY Zenon, <2>3 DEF CloserWakes
  <2>4. CASE CloseChannel
    BY Zenon, <2>4 DEF CloseChannel
  <2> QED BY Zenon, <1>6, <2>1, <2>2, <2>3, <2>4 DEF PushStep, CloserStep
<1>7. CASE Terminated \/ UNCHANGED vars
  BY <1>7 DEF Terminated, vars
<1> QED BY Zenon, <1>1, <1>2, <1>3, <1>4, <1>5, <1>6, <1>7 DEF Next, ReloadStep

\* Nothing runs while Reload swaps the plugins or after Stop has returned, and
\* the channel outlives its senders until the first reload.
LEMMA SafeStep ==
    ASSUME SchedInv, [Next]_vars
    PROVE  (Unreloaded /\ SwapIsExclusive /\ StopIsFinal /\ NeverPanics)'
<1> DEFINE Safe == Unreloaded /\ SwapIsExclusive /\ StopIsFinal /\ NeverPanics
<1> SUFFICES Safe'
  BY Zenon
<1>0. TypeOK /\ Locked /\ Phases /\ Safe /\ MaxReloads \in Nat
  BY Zenon, ReloadAssumption DEF SchedInv
<1> USE <1>0 DEF TypeOK, Locked, Phases, Unreloaded, SwapIsExclusive, StopIsFinal, NeverPanics,
        Quiet, config, context, channel, notAgent, notGin
<1>1. CASE Start
  BY Zenon, <1>1 DEF Start, StartWith, Launch
<1>2. CASE AgentStep \/ EventLoopEnds \/ ParentCancelled
  <2>1. CASE EventLoopReceive
    BY Zenon, <2>1 DEF EventLoopReceive
  <2>2. CASE EventLoopClosed
    BY Zenon, <2>2 DEF EventLoopClosed
  <2>3. CASE Stop
    BY Zenon, <2>3 DEF Stop
  <2>4. CASE StopWait
    BY Zenon, <2>4 DEF StopWait
  <2>5. CASE EventLoopEnds
    BY Zenon, <2>5 DEF EventLoopEnds
  <2>6. CASE ParentCancelled
    BY Zenon, <2>6 DEF ParentCancelled
  <2> QED BY Zenon, <1>2, <2>1, <2>2, <2>3, <2>4, <2>5, <2>6 DEF AgentStep
<1>3. CASE ReloadLock \/ ReloadWait \/ ReloadFails
  <2>1. CASE ReloadLock
    BY <2>1 DEF ReloadLock
  <2>2. CASE ReloadWait
    BY Zenon, <2>2 DEF ReloadWait
  <2>3. CASE ReloadFails
    BY Zenon, <2>3 DEF ReloadFails
  <2> QED BY Zenon, <1>3, <2>1, <2>2, <2>3
<1>4. CASE ReloadRestarts
  BY Zenon, <1>4 DEF ReloadRestarts
<1>5. ASSUME NEW i \in Input, Gather(i) \/ InputStep(i) PROVE Safe'
  \* A running input excludes the swap, the end of Stop and the closed channel.
  <2>1. gin[i] # "over" /\ ~Quiet
    BY Zenon, <1>5 DEF Gather, InputStep, Process, Stamp, Send, InputExit
  <2>2. UNCHANGED <<running, locked, reload, reloads, agent, closed, push>>
    BY Zenon, <1>5 DEF Gather, InputStep, Process, Stamp, Send, InputExit
  <2>3. reloads = 0 => ~closed /\ closer \in {"none", "waiting"}
    BY Zenon, <2>1
  <2>4. reloads = 0 => ~panicked'
    BY Zenon, <1>5, <2>3 DEF Gather, InputStep, Process, Stamp, Send, InputExit
  <2>5. reloads = 0 => closer' \in {"none", "waiting"} \/ (closer' = "released" /\ Quiet')
    <3>1. CASE InputExit(i)
      BY Zenon, <3>1, <2>3 DEF InputExit, Release
    <3>2. CASE Gather(i) \/ Process(i) \/ Stamp(i) \/ Send(i)
      BY Zenon, <3>2, <2>3 DEF Gather, Process, Stamp, Send
    <3> QED BY Zenon, <1>5, <3>1, <3>2 DEF InputStep
  <2> QED BY Zenon, <2>1, <2>2, <2>3, <2>4, <2>5
<1>6. CASE PushStep
  <2>1. ~Quiet /\ UNCHANGED <<running, locked, reload, reloads, agent, closed, gin, panicked>>
    BY Zenon, <1>6 DEF PushStep, AggPush, AggPushed
  <2>2. reloads = 0 => ~closed /\ closer \in {"none", "waiting"}
    BY Zenon, <2>1
  <2>3. reloads = 0 => closer' \in {"none", "waiting"} \/ (closer' = "released" /\ Quiet')
    BY Zenon, <1>6, <2>2 DEF PushStep, AggPush, AggPushed, Release
  <2> QED BY Zenon, <2>1, <2>2, <2>3
<1>7. CASE CloserStep
  <2>1. CASE CloserWakes
    BY Zenon, <2>1 DEF CloserWakes
  <2>2. CASE CloseChannel
    BY Zenon, <2>2 DEF CloseChannel
  <2> QED BY Zenon, <1>7, <2>1, <2>2 DEF CloserStep
<1>8. CASE Terminated \/ UNCHANGED vars
  BY <1>8 DEF Terminated, vars
<1> QED BY Zenon, <1>1, <1>2, <1>3, <1>4, <1>5, <1>6, <1>7, <1>8 DEF Next, ReloadStep

\* The invariant holds in every reachable state.
LEMMA SchedInvariant == Spec => []SchedInv
<1>1. SchedInv /\ [Next]_vars => SchedInv'
  BY Zenon, TypeStep, PhaseStep, SafeStep DEF SchedInv
<1> QED BY <1>1, SchedStarts, PTL DEF Spec

-----------------------------------------------------------------------------

\* Whatever the inputs and the reloads, the channel never holds more batches than
\* Start made it for, and every goroutine is in a phase of its own code.
THEOREM SchedTypeCorrect == Spec => []TypeOK
<1>1. SchedInv => TypeOK
  BY Zenon DEF SchedInv
<1> QED BY <1>1, SchedInvariant, PTL

\* Reload swaps the processors, aggregators and outputs only while no goroutine
\* of the pipeline runs.
THEOREM SwapCorrect == Spec => []SwapIsExclusive
<1>1. SchedInv => SwapIsExclusive
  BY Zenon DEF SchedInv
<1> QED BY <1>1, SchedInvariant, PTL

\* Once Stop has returned nothing of the pipeline runs, and no Reload starts it
\* again.
THEOREM SchedStopCorrect == Spec => []StopIsFinal
<1>1. SchedInv => StopIsFinal
  BY Zenon DEF SchedInv
<1> QED BY <1>1, SchedInvariant, PTL

\* Without a reload no input ever sends on the closed channel, and no goroutine
\* joins the wait group under its waiter.
THEOREM PanicCorrect == Spec => []NeverPanics
<1>1. SchedInv => NeverPanics
  BY Zenon DEF SchedInv
<1> QED BY <1>1, SchedInvariant, PTL

-----------------------------------------------------------------------------
(* The gathers that ask item by item *)

Strict == {"snmp", "cloud_metadata", "disk", "cpu"}

\* What the items asked so far brought into A.
Asked(A) ==
    /\ item \in Nat /\ n \in Nat /\ 1 <= item /\ item <= n + 1
    /\ DOMAIN seen = 1 .. item - 1
    /\ input \in Strict =>
          \A k \in 1 .. item - 1 : seen[k].ok \/ (input = "disk" /\ ~InFilter(k))
    /\ input = "http" => A = 1 .. item - 1
    /\ input = "gpu" => A = Readable
    /\ input = "memory" => A = Readable \cup {0}
    /\ input = "connections" =>
          \A k \in 1 .. item - 1 : seen[k].proto \in {"tcp", "udp"} /\ seen[k].state \in {"NONE", "LISTEN"}

\* What a whole Gather brought.
Brought(A) ==
    /\ item = n + 1 /\ Asked(A)
    /\ input = "process" =>
          /\ 0 \in A
          /\ Readable # {} => A \ {0} # {}
          /\ \A k \in A \ {0}, r \in Readable \ A : seen[k].cpu >= seen[r].cpu
    /\ input = "connections" => A = {c \in Counts : c.count > 0}

GatherInv ==
    /\ input \in Inputs
    /\ gpc \in {"init", "refused", "list", "item", "end", "failed", "done"}
    /\ topN \in Int
    /\ gpc \notin {"init", "refused"} /\ input = "process" => topN > 0
    /\ gpc # "done" => out = {}
    /\ gpc \in {"init", "list"} => acc = {} /\ item = 1 /\ seen = <<>>
    /\ gpc = "item" => Asked(acc) /\ (input = "process" => acc = {0})
    /\ gpc = "end" /\ acc # {} => Brought(acc)
    /\ gpc = "done" /\ out # {} => Brought(out)

\* One more item asked, whatever it answered.
LEMMA AnswerAdds ==
    ASSUME NEW A, Asked(A), item <= n, NEW a, Next1(a), UNCHANGED <<input, filter, n>>
    PROVE  /\ item' \in Nat /\ n' \in Nat /\ 1 <= item' /\ item' <= n' + 1
           /\ DOMAIN seen' = 1 .. item' - 1 /\ item' - 1 = item
           /\ seen'[item] = a /\ \A k \in 1 .. item - 1 : seen'[k] = seen[k]
           /\ \A k \in 1 .. item : k \in 1 .. item - 1 \/ k = item
           /\ Readable' = IF a.ok THEN Readable \cup {item} ELSE Readable
<1>1. /\ item \in Nat /\ n \in Nat /\ 1 <= item /\ item <= n /\ DOMAIN seen = 1 .. item - 1
      /\ item' = item + 1 /\ n' = n /\ seen' = [k \in 1 .. item |-> IF k = item THEN a ELSE seen[k]]
  BY Zenon DEF Asked, Next1
<1>2. /\ DOMAIN seen' = 1 .. item /\ seen'[item] = a /\ item' - 1 = item
      /\ \A k \in 1 .. item - 1 : seen'[k] = seen[k]
      /\ \A k \in 1 .. item : k \in 1 .. item - 1 \/ k = item
      /\ \A k \in 1 .. item - 1 : k \in 1 .. item /\ k # item
      /\ item \in 1 .. item /\ item \notin 1 .. item - 1
  BY <1>1
<1>3. Readable' = IF a.ok THEN Readable \cup {item} ELSE Readable
  BY Zenon, <1>1, <1>2 DEF Readable
<1> QED BY <1>1, <1>2, <1>3

\* One item of a gather: it is asked, and what it answers goes into the result, or
\* the gather ends with an error as the kind of input has it.
LEMMA ItemKeeps ==
    ASSUME GatherInv, GatherItem
    PROVE  GatherInv'
<1>1. /\ gpc = "item" /\ item <= n /\ Asked(acc) /\ (input = "process" => acc = {0})
      /\ out = {} /\ topN \in Int /\ (input = "process" => topN > 0)
      /\ UNCHANGED <<input, filter, topN, out>>
  BY Zenon DEF GatherItem, GatherInv
<1>2. CASE Fail
  BY Zenon, <1>1, <1>2 DEF Fail, GatherInv
<1>3. SUFFICES ASSUME ~Fail PROVE Asked(acc)' /\ (input = "process" => acc' = {0}) /\ gpc' = "item"
  BY Zenon, <1>1, <1>2 DEF GatherInv
<1>4. PICK a \in Answer :
         CASE input = "snmp" -> gatherAgent(a)
           [] input = "disk" -> gatherDisk(a)
           [] input = "cloud_metadata" -> fetchMetadata(a)
           [] input = "cpu" -> gatherCPU(a)
           [] input = "http" -> gatherURL(a)
           [] input = "gpu" -> gatherGPU(a)
           [] input = "memory" -> gatherMemory(a)
           [] input = "temp" -> gatherTemp(a)
           [] input = "net" -> gatherNet(a)
           [] input = "diskio" -> gatherDiskio(a)
           [] input = "load" -> gatherLoad(a)
           [] input = "process" -> readProcess(a)
           [] input = "connections" -> countConnection(a)
  BY Zenon DEF GatherItem
<1>5. Next1(a) /\ UNCHANGED <<gpc, n>>
  <2>1. CASE input \in {"snmp", "disk", "cloud_metadata", "cpu"}
    BY Zenon, <1>3, <1>4, <2>1 DEF gatherAgent, gatherDisk, fetchMetadata, gatherCPU
  <2>2. CASE input \in {"http", "gpu", "memory", "temp", "net", "diskio", "load"}
    BY Zenon, <1>3, <1>4, <2>2 DEF gatherURL, gatherGPU, gatherMemory, gatherTemp, gatherNet,
                            gatherDiskio, gatherLoad, Keep
  <2>3. CASE input \in {"process", "connections"}
    BY Zenon, <1>3, <1>4, <2>3 DEF readProcess, countConnection
  <2> QED BY Zenon, <2>1, <2>2, <2>3 DEF GatherInv, Inputs
<1>6. /\ item' \in Nat /\ n' \in Nat /\ 1 <= item' /\ item' <= n' + 1
      /\ DOMAIN seen' = 1 .. item' - 1 /\ item' - 1 = item
      /\ seen'[item] = a /\ \A k \in 1 .. item - 1 : seen'[k] = seen[k]
      /\ \A k \in 1 .. item : k \in 1 .. item - 1 \/ k = item
      /\ Readable' = IF a.ok THEN Readable \cup {item} ELSE Readable
  BY Zenon, <1>1, <1>5, AnswerAdds
<1>7. input \in Strict =>
         \A k \in 1 .. item : seen'[k].ok \/ (input = "disk" /\ ~InFilter(k)')
  <2> SUFFICES ASSUME input \in Strict, NEW k \in 1 .. item
               PROVE  seen'[k].ok \/ (input = "disk" /\ ~InFilter(k))
    BY Zenon, <1>1 DEF InFilter
  <2>1. CASE k \in 1 .. item - 1
    <3>1. seen'[k] = seen[k]
      BY Zenon, <1>6, <2>1
    <3>2. seen[k].ok \/ (input = "disk" /\ ~InFilter(k))
      BY Zenon, <1>1, <2>1 DEF Asked
    <3> QED BY Zenon, <3>1, <3>2
  <2>2. CASE k = item
    <3>1. a.ok \/ (input = "disk" /\ ~InFilter(item))
      BY Zenon, <1>3, <1>4 DEF Strict, gatherAgent, gatherDisk, fetchMetadata, gatherCPU
    <3> QED BY Zenon, <1>6, <2>2, <3>1
  <2> QED BY Zenon, <1>6, <2>1, <2>2
<1>8. input = "http" => acc' = 1 .. item
  <2> SUFFICES ASSUME input = "http" PROVE acc' = 1 .. item
    BY Zenon
  <2>1. acc' = acc \cup {item} /\ acc = 1 .. item - 1 /\ item \in Nat /\ 1 <= item
    BY Zenon, <1>1, <1>4 DEF gatherURL, Asked
  <2> QED BY <2>1
<1>9. input = "gpu" => acc' = Readable'
  BY Zenon, <1>1, <1>4, <1>6 DEF gatherGPU, Keep, Asked
<1>10. input = "memory" => acc' = Readable' \cup {0}
  BY Zenon, <1>1, <1>4, <1>6 DEF gatherMemory, Keep, Asked
<1>11. input = "connections" =>
          \A k \in 1 .. item : seen'[k].proto \in {"tcp", "udp"} /\ seen'[k].state \in {"NONE", "LISTEN"}
  <2> SUFFICES ASSUME input = "connections", NEW k \in 1 .. item
               PROVE  seen'[k].proto \in {"tcp", "udp"} /\ seen'[k].state \in {"NONE", "LISTEN"}
    BY Zenon
  <2>1. a.proto \in {"tcp", "udp"} /\ a.state \in {"NONE", "LISTEN"}
    BY Zenon DEF Answer
  <2> QED BY Zenon, <1>1, <1>6, <2>1 DEF Asked
<1>12. input = "process" => acc' = {0}
  BY Zenon, <1>1, <1>3, <1>4 DEF readProcess
<1> QED BY Zenon, <1>1, <1>5, <1>6, <1>7, <1>8, <1>9, <1>10, <1>11, <1>12 DEF Asked

\* The sort of the processes and its first topN: some when there are any, and
\* none left out that is busier.
LEMMA EndsKeeps ==
    ASSUME GatherInv, GatherEnds
    PROVE  GatherInv'
<1>1. /\ gpc = "item" /\ gpc' = "end" /\ item > n /\ Asked(acc) /\ (input = "process" => acc = {0})
      /\ out = {} /\ topN \in Int /\ (input = "process" => topN > 0)
      /\ UNCHANGED <<input, filter, topN, n, item, seen, out>>
  BY Zenon DEF GatherEnds, GatherInv
<1>2. item = n + 1 /\ item \in Nat /\ n \in Nat /\ DOMAIN seen = 1 .. n
  BY <1>1 DEF Asked
<1>3. SUFFICES ASSUME acc' # {} PROVE Brought(acc)'
  BY Zenon, <1>1 DEF GatherInv
<1>4. Readable' = Readable /\ Counts' = Counts
  BY <1>1 DEF Readable, Counts, States
<1>5. input \notin {"process", "connections"} => acc' = acc
  BY Zenon DEF GatherEnds
<1>6. Asked(acc)'
  BY Zenon, <1>1, <1>4, <1>5 DEF Asked, InFilter
<1>7. input = "connections" => acc' = {c \in Counts : c.count > 0}
  BY Zenon DEF GatherEnds
<1>8. input = "process" =>
         /\ 0 \in acc'
         /\ Readable # {} => acc' \ {0} # {}
         /\ \A k \in acc' \ {0}, r \in Readable \ acc' : seen[k].cpu >= seen[r].cpu
  <2> SUFFICES ASSUME input = "process"
               PROVE  /\ 0 \in acc'
                      /\ Readable # {} => acc' \ {0} # {}
                      /\ \A k \in acc' \ {0}, r \in Readable \ acc' : seen[k].cpu >= seen[r].cpu
    BY Zenon
  <2>1. PICK T \in SUBSET Readable : topProcesses(T) /\ acc' = acc \cup T
    BY Zenon DEF GatherEnds
  <2>2. acc' = {0} \cup T /\ 0 \notin Readable
    BY <1>1, <1>2, <2>1 DEF Readable
  <2>3. Readable # {} => T # {}
    <3>1. IsFiniteSet(Readable)
      <4>1. IsFiniteSet(1 .. n)
        BY <1>2, FS_Interval
      <4> QED BY Zenon, <1>2, <4>1, FS_Subset DEF Readable
    <3>2. Cardinality(Readable) \in Nat /\ (Cardinality(Readable) = 0 <=> Readable = {})
      BY Zenon, <3>1, FS_EmptySet, FS_CardinalityType
    <3>3. Cardinality(T) = 0 => Readable = {}
      BY <1>1, <2>1, <3>2 DEF topProcesses
    <3>4. Cardinality({}) = 0
      BY Zenon, FS_EmptySet
    <3> QED BY Zenon, <3>3, <3>4
  <2> QED BY Zenon, <2>1, <2>2, <2>3 DEF topProcesses
<1> QED BY Zenon, <1>1, <1>2, <1>4, <1>6, <1>7, <1>8 DEF Brought

\* Every connection falls under one protocol and one state.
LEMMA CountsAddUp ==
    ASSUME Brought(out), input = "connections", out # {}
    PROVE  /\ \A c \in out : c.state \in States
           /\ \A c, d \in out : c.proto = d.proto /\ c.state = d.state => c = d
           /\ CountOf("tcp", "NONE") + CountOf("tcp", "LISTEN")
                  + CountOf("udp", "NONE") + CountOf("udp", "LISTEN")
              = Cardinality({k \in 1 .. n : seen[k].state \in States})
<1> DEFINE K(p, s) == {k \in 1 .. n : seen[k].proto = p /\ seen[k].state = s}
           Of(p, s) == [proto |-> p, state |-> s, count |-> Cardinality(K(p, s))]
<1>1. /\ n \in Nat /\ DOMAIN seen = 1 .. n /\ out = {c \in Counts : c.count > 0}
      /\ \A k \in 1 .. n : seen[k].proto \in {"tcp", "udp"} /\ seen[k].state \in {"NONE", "LISTEN"}
  BY DEF Brought, Asked
<1>2. Counts = {Of(p, s) : p \in {"tcp", "udp"}, s \in States}
  BY <1>1 DEF Counts
<1> HIDE DEF Of
<1>11. \A c : c \in Counts <=> \E p \in {"tcp", "udp"}, s \in States : c = Of(p, s)
  BY <1>2
<1>3. ASSUME NEW S \in SUBSET (1 .. n) PROVE IsFiniteSet(S) /\ Cardinality(S) \in Nat
  <2>1. IsFiniteSet(1 .. n)
    BY <1>1, FS_Interval
  <2>2. IsFiniteSet(S)
    BY Zenon, <2>1, FS_Subset
  <2> QED BY Zenon, <2>2, FS_CardinalityType
<1>4. ASSUME NEW c \in out
      PROVE  c.proto \in {"tcp", "udp"} /\ c.state \in States /\ c = Of(c.proto, c.state)
  <2>1. PICK p \in {"tcp", "udp"}, s \in States : c = Of(p, s)
    BY Zenon, <1>1, <1>11
  <2>2. Of(p, s).proto = p /\ Of(p, s).state = s
    BY Zenon DEF Of
  <2> QED BY Zenon, <2>1, <2>2
<1>5. ASSUME NEW p \in {"tcp", "udp"}, NEW s \in {"NONE", "LISTEN"}
      PROVE  CountOf(p, s) = IF s \in States THEN Cardinality(K(p, s)) ELSE 0
  <2>1. Cardinality(K(p, s)) \in Nat
    BY Zenon, <1>3
  <2>2. CASE \E c \in out : c.proto = p /\ c.state = s
    <3> DEFINE c == CHOOSE c \in out : c.proto = p /\ c.state = s
    <3>1. c \in out /\ c.proto = p /\ c.state = s
      BY Zenon, <2>2
    <3>2. CountOf(p, s) = c.count
      BY Zenon, <2>2 DEF CountOf
    <3> HIDE DEF c
    <3>3. c = Of(p, s) /\ s \in States
      BY Zenon, <1>4, <3>1
    <3> QED BY Zenon, <3>2, <3>3 DEF Of
  <2>3. CASE ~\E c \in out : c.proto = p /\ c.state = s
    <3>1. CountOf(p, s) = 0
      BY Zenon, <2>3 DEF CountOf
    <3>2. ASSUME s \in States PROVE Cardinality(K(p, s)) = 0
      <4>1. Of(p, s) \in Counts /\ Of(p, s).proto = p /\ Of(p, s).state = s
            /\ Of(p, s).count = Cardinality(K(p, s))
        <5>1. Of(p, s) \in Counts
          BY Zenon, <1>11, <3>2
        <5>2. Of(p, s).proto = p /\ Of(p, s).state = s /\ Of(p, s).count = Cardinality(K(p, s))
          BY Zenon DEF Of
        <5> QED BY Zenon, <5>1, <5>2
      <4>2. ~(Of(p, s).count > 0)
        BY Zenon, <1>1, <2>3, <4>1
      <4> QED BY <2>1, <4>1, <4>2
    <3> QED BY Zenon, <3>1, <3>2
  <2> QED BY Zenon, <2>2, <2>3
<1>6. ASSUME NEW S \in SUBSET (1 .. n), NEW T \in SUBSET (1 .. n), S \cap T = {}
      PROVE  Cardinality(S \cup T) = Cardinality(S) + Cardinality(T)
  <2>1. Cardinality(S \cup T) = Cardinality(S) + Cardinality(T) - Cardinality(S \cap T)
    BY Zenon, <1>3, FS_Union
  <2>2. Cardinality(S \cap T) = 0
    BY Zenon, <1>6, FS_EmptySet
  <2> QED BY <1>3, <2>1, <2>2
<1> DEFINE L == K("tcp", "LISTEN") \cup K("udp", "LISTEN")
           N == K("tcp", "NONE") \cup K("udp", "NONE")
<1>7. /\ Cardinality(L) = Cardinality(K("tcp", "LISTEN")) + Cardinality(K("udp", "LISTEN"))
      /\ Cardinality(N) = Cardinality(K("tcp", "NONE")) + Cardinality(K("udp", "NONE"))
      /\ Cardinality(L \cup N) = Cardinality(L) + Cardinality(N)
  <2>1. /\ K("tcp", "LISTEN") \cap K("udp", "LISTEN") = {}
        /\ K("tcp", "NONE") \cap K("udp", "NONE") = {} /\ L \cap N = {}
    BY Zenon
  <2>2. L \in SUBSET (1 .. n) /\ N \in SUBSET (1 .. n)
    BY Zenon
  <2>3. \A p \in {"tcp", "udp"}, s \in {"NONE", "LISTEN"} : K(p, s) \in SUBSET (1 .. n)
    BY Zenon
  <2> HIDE DEF K
  <2> QED BY Zenon, <1>6, <2>1, <2>2, <2>3
<1>12. /\ \A c \in out : c.state \in States
      /\ \A c, d \in out : c.proto = d.proto /\ c.state = d.state => c = d
  BY Zenon, <1>4
<1>8. /\ Cardinality(K("tcp", "NONE")) \in Nat /\ Cardinality(K("tcp", "LISTEN")) \in Nat
      /\ Cardinality(K("udp", "NONE")) \in Nat /\ Cardinality(K("udp", "LISTEN")) \in Nat
  BY Zenon, <1>3
<1>9. CASE filter = {}
  <2>1. States = {"NONE", "LISTEN"}
    BY Zenon, <1>9 DEF States
  <2>2. {k \in 1 .. n : seen[k].state \in States} = L \cup N
    BY Zenon, <1>1, <2>1
  <2>3. /\ CountOf("tcp", "NONE") = Cardinality(K("tcp", "NONE"))
        /\ CountOf("tcp", "LISTEN") = Cardinality(K("tcp", "LISTEN"))
        /\ CountOf("udp", "NONE") = Cardinality(K("udp", "NONE"))
        /\ CountOf("udp", "LISTEN") = Cardinality(K("udp", "LISTEN"))
    BY Zenon, <1>5, <2>1
  <2> HIDE DEF L, N, K
  <2>4. CountOf("tcp", "NONE") + CountOf("tcp", "LISTEN")
           + CountOf("udp", "NONE") + CountOf("udp", "LISTEN") = Cardinality(L \cup N)
    BY <1>7, <1>8, <2>3
  <2> QED BY Zenon, <1>12, <2>2, <2>4
<1>10. CASE filter # {}
  <2>1. States = {"LISTEN"}
    BY Zenon, <1>10 DEF States
  <2>2. {k \in 1 .. n : seen[k].state \in States} = L
    BY Zenon, <1>1, <2>1
  <2>3. /\ CountOf("tcp", "NONE") = 0 /\ CountOf("udp", "NONE") = 0
        /\ CountOf("tcp", "LISTEN") = Cardinality(K("tcp", "LISTEN"))
        /\ CountOf("udp", "LISTEN") = Cardinality(K("udp", "LISTEN"))
    BY Zenon, <1>5, <2>1
  <2> HIDE DEF L, N, K
  <2>4. CountOf("tcp", "NONE") + CountOf("tcp", "LISTEN")
           + CountOf("udp", "NONE") + CountOf("udp", "LISTEN") = Cardinality(L)
    BY <1>7, <1>8, <2>3
  <2> QED BY Zenon, <1>12, <2>2, <2>4
<1> QED BY Zenon, <1>9, <1>10

\* For every input and configuration, any number of items and any answers: a
\* Gather that is passed on is whole, whatever failed on the way.
THEOREM GatherCorrect == GatherSpec => []GatherComplete
<1>1. GatherInit => GatherInv
  BY GatherAssumption DEF GatherInit, GatherInv
<1>2. GatherInv /\ [GatherNext]_gatherVars => GatherInv'
  <2> SUFFICES ASSUME GatherInv, [GatherNext]_gatherVars PROVE GatherInv'
    BY Zenon
  <2>1. CASE UNCHANGED gatherVars \/ CancelGather
    <3>1. UNCHANGED <<input, filter, topN, gpc, n, item, seen, acc, out>>
      BY Zenon, <2>1 DEF gatherVars, CancelGather
    <3>2. Readable' = Readable /\ Counts' = Counts
      BY <3>1 DEF Readable, Counts, States
    <3>3. \A A : (Asked(A) => Asked(A)') /\ (Brought(A) => Brought(A)')
      BY <3>1, <3>2 DEF Asked, Brought, InFilter
    <3> QED BY Zenon, <3>1, <3>3 DEF GatherInv
  <2>2. CASE InputInit
    BY <2>2 DEF InputInit, GatherInv, Refuses, ProcessInit
  <2>3. CASE List
    <3>1. /\ gpc = "list" /\ out = {} /\ acc = {} /\ item = 1 /\ seen = <<>>
          /\ input \in Inputs /\ topN \in Int /\ (input = "process" => topN > 0)
          /\ UNCHANGED <<input, filter, topN, out>>
      BY Zenon, <2>3 DEF List, GatherInv
    <3>2. CASE gpc' \in {"end", "failed"} /\ acc' = {}
      BY Zenon, <3>1, <3>2 DEF GatherInv
    <3>3. CASE /\ gpc' = "item" /\ n' \in Nat /\ UNCHANGED <<item, seen>>
               /\ acc' = IF input \in {"process", "memory"} THEN {0} ELSE {}
      <4>1. DOMAIN seen' = 1 .. item' - 1 /\ item' - 1 = 0 /\ Readable' = {} /\ 1 .. 0 = {}
        BY <3>1, <3>3 DEF Readable
      <4>2. \A k : k \notin 1 .. item' - 1
        BY Zenon, <3>1, <3>3, <4>1
      <4>3. item' \in Nat /\ 1 <= item' /\ item' <= n' + 1
        <5>1. item' = 1 /\ n' \in Nat
          BY Zenon, <3>1, <3>3
        <5>2. \A m \in Nat : 1 \in Nat /\ 1 <= 1 /\ 1 <= m + 1
          OBVIOUS
        <5> QED BY Zenon, <5>1, <5>2
      <4>4. Asked(acc)'
        BY Zenon, <3>1, <3>3, <4>1, <4>2, <4>3 DEF Asked
      <4> QED BY Zenon, <3>1, <3>3, <4>4 DEF GatherInv
    <3>4. n' \in 0 .. Items \cup {Items, 1} => n' \in Nat
      BY GatherAssumption
    <3> QED BY Zenon, <2>3, <3>1, <3>2, <3>3, <3>4 DEF List, Fail
  <2>4. CASE GatherItem
    BY Zenon, <2>4, ItemKeeps
  <2>5. CASE GatherEnds
    BY Zenon, <2>5, EndsKeeps
  <2>6. CASE gatherOnce
    <3>1. /\ gpc' = "done" /\ UNCHANGED <<input, filter, topN, n, item, seen>>
          /\ out' = {} \/ (gpc = "end" /\ out' = acc)
          /\ input \in Inputs /\ topN \in Int /\ (input = "process" => topN > 0)
      BY Zenon, <2>6 DEF gatherOnce, GatherInv
    <3>2. Readable' = Readable /\ Counts' = Counts
      BY <3>1 DEF Readable, Counts, States
    <3>3. Brought(acc) /\ out' = acc => Brought(out)'
      BY Zenon, <3>1, <3>2 DEF Asked, Brought, InFilter
    <3> QED BY Zenon, <3>1, <3>3 DEF GatherInv
  <2> QED BY Zenon, <2>1, <2>2, <2>3, <2>4, <2>5, <2>6 DEF GatherNext
<1>3. GatherInv => GatherComplete
  <2> SUFFICES ASSUME GatherInv, gpc = "done", out # {} PROVE GatherComplete
    BY Zenon DEF GatherComplete, StrictInputsAllOrNothing, LenientInputsReportAll,
           BusiestProcessesReported, ConnectionsCounted
  <2>1. Brought(out) /\ item - 1 = n
    <3>1. Brought(out)
      BY Zenon DEF GatherInv
    <3>2. item \in Nat /\ n \in Nat /\ item = n + 1
      BY Zenon, <3>1 DEF Brought, Asked
    <3> QED BY <3>1, <3>2
  <2>2. StrictInputsAllOrNothing /\ LenientInputsReportAll /\ BusiestProcessesReported
    BY Zenon, <2>1 DEF StrictInputsAllOrNothing, LenientInputsReportAll, BusiestProcessesReported,
                Brought, Asked, Strict
  <2>3. ConnectionsCounted
    BY Zenon, <2>1, CountsAddUp DEF ConnectionsCounted
  <2> QED BY Zenon, <2>2, <2>3 DEF GatherComplete
<1> QED BY <1>1, <1>2, <1>3, PTL DEF GatherSpec

-----------------------------------------------------------------------------
(* The tail input *)

WriteState == {"unread", "held", "sent", "again", "resent", "skipped", "lost"}

TailTypeOK ==
    /\ DOMAIN tfile = Files /\ \A p \in Files : tfile[p] \in Seq({"line", "part", "long"})
    /\ DOMAIN tst = Files
    /\ \A p \in Files : tst[p] \in Seq(WriteState) /\ Len(tst[p]) = Len(tfile[p])
    /\ toff \in [Files -> Nat]
    /\ DOMAIN tcur = Cursors
    /\ \A cur \in Cursors : tcur[cur] # None => tcur[cur].path \in Files /\ tcur[cur].off \in Nat
    /\ tcut # {} => "rotated" \in tfault

\* A position up to which every write of p was met.
AllMet(p, off) ==
    off <= Len(tfile[p]) /\ \A i \in 1 .. Len(tfile[p]) : i <= off => tst[p][i] # "unread"

\* What one file knows of its writes.
FileKnows(p) ==
    /\ p \notin tcut => AllMet(p, toff[p])
    /\ "restart" \notin tfault =>
          \A i \in 1 .. Len(tfile[p]) :
              (toff[p] < i => tst[p][i] = "unread") /\ tst[p][i] \notin {"again", "resent"}
    /\ tfault = {} =>
          \A i \in 1 .. Len(tfile[p]) : tst[p][i] \in {"held", "sent", "skipped", "unread"}

CursorKnows(cur) == tcur[cur] # None /\ tcur[cur].path \notin tcut => AllMet(tcur[cur].path, tcur[cur].off)

TailInv ==
    /\ TailTypeOK
    /\ \A p \in Files : FileKnows(p)
    /\ \A cur \in Cursors : CursorKnows(cur)

\* What a step may not do to the writes of a file that is not rotated.
Keeps(p) ==
    /\ Len(tfile[p]) <= Len(tfile'[p])
    /\ \A i \in 1 .. Len(tfile[p]) : tst[p][i] # "unread" => tst'[p][i] # "unread"

\* A position that was met stays met.
LEMMA MetStays ==
    ASSUME TailTypeOK, TailTypeOK', NEW p \in Files, NEW off \in Nat, Keeps(p), AllMet(p, off)
    PROVE  /\ off <= Len(tfile'[p])
           /\ \A i \in 1 .. Len(tfile'[p]) : i <= off => tst'[p][i] # "unread"
<1>1. Len(tfile[p]) \in Nat /\ Len(tfile'[p]) \in Nat
  BY DEF TailTypeOK
<1>2. \A i \in 1 .. Len(tfile'[p]) : i <= off => i \in 1 .. Len(tfile[p])
  BY <1>1 DEF AllMet
<1> QED BY <1>1, <1>2 DEF AllMet, Keeps

\* So the cursor files stay true while no file is rotated.
LEMMA CursorsStay ==
    ASSUME TailInv, TailTypeOK', \A p \in Files : Keeps(p), UNCHANGED <<tcur, tcut>>
    PROVE  \A cur \in Cursors : CursorKnows(cur)'
<1> TAKE cur \in Cursors
<1>1. CASE tcur[cur] = None \/ tcur[cur].path \in tcut
  BY Zenon, <1>1 DEF CursorKnows
<1>2. CASE tcur[cur] # None /\ tcur[cur].path \notin tcut
  <2>1. tcur[cur].path \in Files /\ tcur[cur].off \in Nat /\ AllMet(tcur[cur].path, tcur[cur].off)
    BY Zenon, <1>2 DEF TailInv, TailTypeOK, CursorKnows
  <2>2. /\ tcur[cur].off <= Len(tfile'[tcur[cur].path])
        /\ \A i \in 1 .. Len(tfile'[tcur[cur].path]) :
               i <= tcur[cur].off => tst'[tcur[cur].path][i] # "unread"
    BY Zenon, <2>1, MetStays DEF TailInv
  <2> QED BY Zenon, <2>2 DEF CursorKnows, AllMet
<1> QED BY Zenon, <1>1, <1>2

\* The end of a gather, well or not, changes no write to unread.
LEMMA MarkKeeps ==
    ASSUME TailInv, NEW h \in {"lost", "sent"}, NEW a \in {"sent", "resent"},
           tst' = Mark(h, a), UNCHANGED tfile, NEW p \in Files
    PROVE  /\ DOMAIN tst' = Files /\ tst'[p] \in Seq(WriteState) /\ Len(tst'[p]) = Len(tfile[p])
           /\ Keeps(p)
           /\ \A i \in 1 .. Len(tfile[p]) :
                  tst'[p][i] = IF tst[p][i] = "held" THEN h
                               ELSE IF tst[p][i] = "again" THEN a ELSE tst[p][i]
<1>1. /\ tst[p] \in Seq(WriteState) /\ Len(tst[p]) = Len(tfile[p]) /\ Len(tfile[p]) \in Nat
      /\ DOMAIN tst[p] = 1 .. Len(tfile[p])
  BY DEF TailInv, TailTypeOK
<1>2. DOMAIN tst' = Files
      /\ tst'[p] = [i \in 1 .. Len(tfile[p]) |->
                      CASE tst[p][i] = "held" -> h [] tst[p][i] = "again" -> a
                        [] OTHER -> tst[p][i]]
  BY Zenon, <1>1 DEF Mark
<1>3. \A i \in 1 .. Len(tfile[p]) :
         tst'[p][i] = IF tst[p][i] = "held" THEN h
                      ELSE IF tst[p][i] = "again" THEN a ELSE tst[p][i]
  BY Zenon, <1>2
<1>4. tst'[p] \in Seq(WriteState) /\ Len(tst'[p]) = Len(tfile[p])
  <2>1. \A i \in 1 .. Len(tfile[p]) : tst'[p][i] \in WriteState
    BY <1>1, <1>3 DEF WriteState
  <2>2. tst'[p] \in [1 .. Len(tfile[p]) -> WriteState]
    BY Zenon, <1>2, <2>1
  <2> QED BY <1>1, <2>2
<1>5. Keeps(p)
  BY <1>1, <1>3 DEF Keeps
<1> QED BY Zenon, <1>2, <1>3, <1>4, <1>5

\* A gather that fails on one path loses what it had collected for the others,
\* which the model counts as met: no offset or cursor moves.
LEMMA GatherFailsKeeps ==
    ASSUME TailInv, GatherFails
    PROVE  TailInv'
<1>1. /\ tst' = Mark("lost", "sent") /\ tfault' = tfault \cup {"loss"}
      /\ UNCHANGED <<tfile, toff, tcur, tcut>>
  BY Zenon DEF GatherFails, tailConf
<1>2. TailTypeOK'
  <2>1. \A p \in Files : DOMAIN tst' = Files /\ tst'[p] \in Seq(WriteState)
                         /\ Len(tst'[p]) = Len(tfile[p])
    BY Zenon, <1>1, MarkKeeps
  <2>2. DOMAIN tst' = Files
    BY Zenon, <1>1 DEF Mark
  <2> QED BY Zenon, <1>1, <2>1, <2>2 DEF TailInv, TailTypeOK
<1>3. ASSUME NEW p \in Files PROVE FileKnows(p)'
  <2>1. /\ Keeps(p)
        /\ \A i \in 1 .. Len(tfile[p]) :
               tst'[p][i] = IF tst[p][i] = "held" THEN "lost"
                            ELSE IF tst[p][i] = "again" THEN "sent" ELSE tst[p][i]
    BY Zenon, <1>1, MarkKeeps
  <2>2. FileKnows(p) /\ toff[p] \in Nat
    BY Zenon DEF TailInv, TailTypeOK
  <2>3. p \notin tcut => AllMet(p, toff[p])'
    BY Zenon, <1>1, <1>2, <2>1, <2>2, MetStays DEF TailInv, FileKnows, AllMet
  <2> QED BY Zenon, <1>1, <2>1, <2>2, <2>3 DEF FileKnows
<1>4. \A cur \in Cursors : CursorKnows(cur)'
  BY Zenon, <1>1, <1>2, MarkKeeps, CursorsStay
<1> QED BY Zenon, <1>2, <1>3, <1>4 DEF TailInv

\* Handing the accumulator on changes only what became of the collected writes.
LEMMA DeliverKeeps ==
    ASSUME TailInv, Deliver
    PROVE  TailInv'
<1>1. /\ tst' = Mark("sent", "resent")
      /\ UNCHANGED <<tfile, toff, tcur, tcut, tfault>>
  BY Zenon DEF Deliver, tailConf
<1>2. TailTypeOK'
  <2>1. \A p \in Files : DOMAIN tst' = Files /\ tst'[p] \in Seq(WriteState)
                         /\ Len(tst'[p]) = Len(tfile[p])
    BY Zenon, <1>1, MarkKeeps
  <2>2. DOMAIN tst' = Files
    BY Zenon, <1>1 DEF Mark
  <2> QED BY Zenon, <1>1, <2>1, <2>2 DEF TailInv, TailTypeOK
<1>3. ASSUME NEW p \in Files PROVE FileKnows(p)'
  <2>1. /\ Keeps(p)
        /\ \A i \in 1 .. Len(tfile[p]) :
               tst'[p][i] = IF tst[p][i] = "held" THEN "sent"
                            ELSE IF tst[p][i] = "again" THEN "resent" ELSE tst[p][i]
    BY Zenon, <1>1, MarkKeeps
  <2>2. FileKnows(p) /\ toff[p] \in Nat
    BY Zenon DEF TailInv, TailTypeOK
  <2>3. p \notin tcut => AllMet(p, toff[p])'
    BY Zenon, <1>1, <1>2, <2>1, <2>2, MetStays DEF TailInv, FileKnows, AllMet
  <2> QED BY Zenon, <1>1, <2>1, <2>2, <2>3 DEF FileKnows
<1>4. \A cur \in Cursors : CursorKnows(cur)'
  BY Zenon, <1>1, <1>2, MarkKeeps, CursorsStay
<1> QED BY Zenon, <1>2, <1>3, <1>4 DEF TailInv

\* A file read: its offset and what became of its writes change together.
LEMMA MoveKeeps ==
    ASSUME TailInv, NEW p \in Files, NEW off \in Nat, NEW st \in Seq(WriteState), NEW m,
           Len(st) = Len(tfile[p]), Move(p, off, st, m),
           \A i \in 1 .. Len(tfile[p]) : tst[p][i] # "unread" => st[i] # "unread",
           p \notin tcut =>
              off <= Len(tfile[p]) /\ \A i \in 1 .. Len(tfile[p]) : i <= off => st[i] # "unread",
           "restart" \notin tfault =>
              \A i \in 1 .. Len(tfile[p]) :
                  (off < i => st[i] = "unread") /\ st[i] \notin {"again", "resent"},
           tfault = {} =>
              \A i \in 1 .. Len(tfile[p]) : st[i] \in {"held", "sent", "skipped", "unread", "lost"}
    PROVE  TailInv'
<1>1. /\ toff' = [toff EXCEPT ![p] = off] /\ tst' = [tst EXCEPT ![p] = st]
      /\ tfault' = IF "lost" \in Range(st) /\ "lost" \notin Range(tst[p])
                   THEN tfault \cup {"loss"} ELSE tfault
      /\ UNCHANGED <<tfile, tcur, tcut>>
  BY Zenon DEF Move
<1>2. /\ DOMAIN tst = Files /\ DOMAIN tst' = Files /\ toff' \in [Files -> Nat]
      /\ tst'[p] = st /\ toff'[p] = off
      /\ \A q \in Files \ {p} : tst'[q] = tst[q] /\ toff'[q] = toff[q]
      /\ "restart" \in tfault' <=> "restart" \in tfault
      /\ "rotated" \in tfault => "rotated" \in tfault'
      /\ tfault' = {} => tfault = {}
  BY Zenon, <1>1 DEF TailInv, TailTypeOK
<1>3. TailTypeOK'
  BY Zenon, <1>1, <1>2 DEF TailInv, TailTypeOK
<1>4. \A q \in Files : Keeps(q)
  <2> TAKE q \in Files
  <2>1. Len(tfile[q]) \in Nat
    BY DEF TailInv, TailTypeOK
  <2> QED BY <1>1, <1>2, <2>1 DEF Keeps
<1>5. \A cur \in Cursors : CursorKnows(cur)'
  BY Zenon, <1>1, <1>3, <1>4, CursorsStay
<1>6. ASSUME NEW q \in Files, q # p PROVE FileKnows(q)'
  BY <1>1, <1>2, <1>6 DEF TailInv, FileKnows, AllMet
<1>7. FileKnows(p)'
  <2>1. tfault' = {} => \A i \in 1 .. Len(tfile[p]) : st[i] \in {"held", "sent", "skipped", "unread"}
    <3> SUFFICES ASSUME tfault' = {}, NEW i \in 1 .. Len(tfile[p])
                 PROVE  st[i] # "lost"
      BY Zenon, <1>2
    <3>1. "lost" \notin Range(tst[p])
      <4>1. FileKnows(p) /\ DOMAIN tst[p] = 1 .. Len(tfile[p])
        BY DEF TailInv, TailTypeOK
      <4> QED BY Zenon, <1>2, <4>1 DEF FileKnows, Range
    <3>2. "lost" \notin Range(st)
      BY Zenon, <1>1, <3>1
    <3>3. i \in DOMAIN st
      OBVIOUS
    <3> QED BY Zenon, <3>2, <3>3 DEF Range
  <2> QED BY Zenon, <1>1, <1>2, <2>1 DEF FileKnows, AllMet
<1> QED BY Zenon, <1>3, <1>5, <1>6, <1>7 DEF TailInv

\* gatherFile, in each of its outcomes: the file is not there, its end is skipped
\* to, or it is read from the offset on.
LEMMA GatherFileKeeps ==
    ASSUME TailInv, GatherFile
    PROVE  TailInv'
<1>1. PICK p \in Files : gatherFile(p)
  <2>1. tpc \in 1 .. Len(Path) /\ gatherFile(Path[tpc])
    BY Zenon DEF GatherFile
  <2>2. Path[tpc] \in Files
    BY <2>1, TailAssumption
  <2> QED BY Zenon, <2>1, <2>2
<1>2. /\ tst[p] \in Seq(WriteState) /\ Len(tst[p]) = Len(tfile[p]) /\ Len(tfile[p]) \in Nat
      /\ DOMAIN tst[p] = 1 .. Len(tfile[p]) /\ DOMAIN tfile[p] = 1 .. Len(tfile[p])
      /\ toff[p] \in Nat /\ FileKnows(p)
  BY DEF TailInv, TailTypeOK
<1> DEFINE top == Len(tfile[p])
<1>3. CASE GatherFails
  BY Zenon, <1>3, GatherFailsKeeps
<1>4. CASE toff[p] = 0 /\ SeekEnd(p)
  <2> DEFINE st == [i \in 1 .. top |-> "skipped"]
  <2>1. Move(p, top, st, tacc)
    BY Zenon, <1>2, <1>4 DEF SeekEnd
  <2>2. st \in Seq(WriteState) /\ Len(st) = top /\ \A i \in 1 .. top : st[i] = "skipped"
    BY <1>2 DEF WriteState
  <2> HIDE DEF st
  <2>3. \A i \in 1 .. top : ~(top < i)
    BY <1>2
  <2> QED BY <1>2, <2>1, <2>2, <2>3, MoveKeeps
<1>5. CASE Scan(p)
  <2> DEFINE off == IF toff[p] > top THEN toff[p] ELSE top
             st == [i \in 1 .. top |->
                      IF i \notin Unread(p) THEN tst[p][i]
                      ELSE IF tacc + TokenOf(p, i) > AccSize THEN "lost"
                      ELSE IF tst[p][i] \in {"sent", "resent"} THEN "again" ELSE "held"]
  <2>1. PICK m : Move(p, off, st, m)
    BY Zenon, <1>2, <1>5 DEF Scan
  <2>2. \A i \in 1 .. top : IF toff[p] < i
                          THEN \/ st[i] \in {"lost", "held"}
                               \/ st[i] = "again" /\ tst[p][i] \in {"sent", "resent"}
                          ELSE st[i] = tst[p][i]
    BY Zenon, <1>2 DEF Unread
  <2>3. st \in Seq(WriteState) /\ Len(st) = top
    <3>1. \A i \in 1 .. top : st[i] \in WriteState
      BY <1>2, <2>2 DEF WriteState
    <3>2. st \in [1 .. top -> WriteState]
      BY Zenon, <3>1
    <3> QED BY <1>2, <3>2
  <2>4. off \in Nat /\ (toff[p] <= top => off = top) /\ \A i \in 1 .. top : i <= off
    BY <1>2
  <2> HIDE DEF st, off
  <2>5. \A i \in 1 .. top : tst[p][i] # "unread" => st[i] # "unread"
    BY Zenon, <2>2
  <2>6. p \notin tcut => off <= top /\ \A i \in 1 .. top : i <= off => st[i] # "unread"
    BY <1>2, <2>2, <2>4 DEF FileKnows, AllMet
  <2>7. "restart" \notin tfault =>
          \A i \in 1 .. top : (off < i => st[i] = "unread") /\ st[i] \notin {"again", "resent"}
    BY <1>2, <2>2, <2>4 DEF FileKnows
  <2>8. tfault = {} => \A i \in 1 .. top : st[i] \in {"held", "sent", "skipped", "unread", "lost"}
    BY Zenon, <1>2, <2>2 DEF FileKnows
  <2> HIDE DEF top
  <2> QED BY Zenon, <2>1, <2>3, <2>4, <2>5, <2>6, <2>7, <2>8, MoveKeeps DEF top
<1> QED BY Zenon, <1>1, <1>3, <1>4, <1>5 DEF gatherFile

\* A write to a file is unread and lies behind every offset and cursor.
LEMMA AppendKeeps ==
    ASSUME TailInv, NEW p \in Files, Append1(p)
    PROVE  TailInv'
<1> DEFINE top == Len(tfile[p])
<1>1. PICK k \in {"line", "part", "long"} :
         /\ tfile' = [tfile EXCEPT ![p] = Append(tfile[p], k)]
         /\ tst' = [tst EXCEPT ![p] = Append(tst[p], "unread")]
  BY Zenon, TailAssumption DEF Append1
<1>2. UNCHANGED <<toff, tcur, tcut, tfault>>
  BY Zenon DEF Append1
<1>3. /\ tfile[p] \in Seq({"line", "part", "long"}) /\ tst[p] \in Seq(WriteState)
      /\ Len(tst[p]) = top /\ top \in Nat /\ "unread" \in WriteState
      /\ DOMAIN tfile = Files /\ DOMAIN tst = Files
      /\ FileKnows(p) /\ toff[p] \in Nat
  BY DEF TailInv, TailTypeOK, WriteState
<1>4. /\ tfile'[p] = Append(tfile[p], k) /\ tst'[p] = Append(tst[p], "unread")
      /\ DOMAIN tfile' = Files /\ DOMAIN tst' = Files
      /\ \A q \in Files \ {p} : tfile'[q] = tfile[q] /\ tst'[q] = tst[q]
  BY Zenon, <1>1, <1>3
<1>5. /\ tfile'[p] \in Seq({"line", "part", "long"}) /\ tst'[p] \in Seq(WriteState)
      /\ Len(tfile'[p]) = top + 1 /\ Len(tst'[p]) = top + 1
      /\ \A i \in 1 .. top : tst'[p][i] = tst[p][i]
      /\ tst'[p][top + 1] = "unread"
  BY <1>3, <1>4
<1>6. TailTypeOK'
  BY Zenon, <1>2, <1>4, <1>5 DEF TailInv, TailTypeOK
<1>7. \A q \in Files : Keeps(q)
  <2> TAKE q \in Files
  <2>1. Len(tfile[q]) \in Nat
    BY DEF TailInv, TailTypeOK
  <2>2. CASE q = p
    BY <1>3, <1>5, <2>2 DEF Keeps
  <2>3. CASE q # p
    <3>1. tfile'[q] = tfile[q] /\ tst'[q] = tst[q]
      BY Zenon, <1>4, <2>3
    <3> QED BY <2>1, <3>1 DEF Keeps
  <2> QED BY Zenon, <2>2, <2>3
<1>8. \A c \in Cursors : CursorKnows(c)'
  BY Zenon, <1>2, <1>6, <1>7, CursorsStay
<1>9. ASSUME NEW q \in Files, q # p PROVE FileKnows(q)'
  BY <1>2, <1>4, <1>9 DEF TailInv, FileKnows, AllMet
<1>10. FileKnows(p)'
  <2>1. \A i \in 1 .. top + 1 : i \in 1 .. top \/ i = top + 1
    BY <1>3
  <2> HIDE DEF top
  <2>2. p \notin tcut => toff[p] <= top
    BY Zenon, <1>3 DEF FileKnows, AllMet, top
  <2>3. p \notin tcut' => AllMet(p, toff[p])'
    BY <1>2, <1>3, <1>5, <2>1, <2>2 DEF FileKnows, AllMet, top
  <2> QED BY Zenon, <1>2, <1>3, <1>5, <2>1, <2>3 DEF FileKnows, top
<1> QED BY Zenon, <1>6, <1>8, <1>9, <1>10 DEF TailInv

\* After a rotation the offset and the cursor of the file promise nothing until
\* they are moved again; those of the other files are not touched.
LEMMA RotateKeeps ==
    ASSUME TailInv, NEW p \in Files, Rotate(p)
    PROVE  TailInv'
<1>1. /\ tfile' = [tfile EXCEPT ![p] = <<>>] /\ tst' = [tst EXCEPT ![p] = <<>>]
      /\ tcut' = tcut \cup {p} /\ tfault' = tfault \cup {"rotated"}
      /\ UNCHANGED <<toff, tcur>>
  BY Zenon DEF Rotate
<1>2. /\ DOMAIN tfile' = Files /\ DOMAIN tst' = Files
      /\ tfile'[p] = <<>> /\ tst'[p] = <<>>
      /\ \A q \in Files \ {p} : tfile'[q] = tfile[q] /\ tst'[q] = tst[q]
  BY Zenon, <1>1 DEF TailInv, TailTypeOK
<1>3. TailTypeOK'
  BY <1>1, <1>2 DEF TailInv, TailTypeOK
<1>4. ASSUME NEW q \in Files PROVE FileKnows(q)'
  BY <1>1, <1>2 DEF TailInv, FileKnows, AllMet
<1>5. ASSUME NEW c \in Cursors PROVE CursorKnows(c)'
  BY <1>1, <1>2 DEF TailInv, TailTypeOK, CursorKnows, AllMet
<1> QED BY Zenon, <1>3, <1>4, <1>5 DEF TailInv

\* persistCursors writes offsets that are true into the cursor files, also where
\* two paths share the name of one.
LEMMA PersistKeeps ==
    ASSUME TailInv, Persist
    PROVE  TailInv'
<1>1. PICK S \in SUBSET Files : tcur' = Save(S)
  BY Zenon DEF Persist
<1>2. UNCHANGED <<tfile, tst, toff, tcut, tfault>>
  BY Zenon DEF Persist
<1>3. ASSUME NEW c \in Cursors
      PROVE  \/ tcur'[c] = tcur[c]
             \/ \E p \in Files : tcur'[c] = [path |-> p, off |-> toff[p]]
  BY Zenon, <1>1 DEF Save
<1>4. TailTypeOK'
  <2>1. DOMAIN tcur' = Cursors
    BY Zenon, <1>1 DEF Save
  <2>2. ASSUME NEW c \in Cursors, tcur'[c] # None
        PROVE  tcur'[c].path \in Files /\ tcur'[c].off \in Nat
    <3>1. CASE tcur'[c] = tcur[c]
      BY Zenon, <2>2, <3>1 DEF TailInv, TailTypeOK
    <3>2. ASSUME NEW p \in Files, tcur'[c] = [path |-> p, off |-> toff[p]]
          PROVE  tcur'[c].path \in Files /\ tcur'[c].off \in Nat
      <4>1. toff[p] \in Nat
        BY Zenon DEF TailInv, TailTypeOK
      <4> QED BY <3>2, <4>1
    <3> QED BY Zenon, <1>3, <3>1, <3>2
  <2> QED BY Zenon, <1>2, <2>1, <2>2 DEF TailInv, TailTypeOK
<1>5. ASSUME NEW p \in Files PROVE FileKnows(p)'
  BY Zenon, <1>2 DEF TailInv, FileKnows, AllMet
<1>6. ASSUME NEW c \in Cursors PROVE CursorKnows(c)'
  <2>1. CASE tcur'[c] = tcur[c]
    BY Zenon, <1>2, <2>1 DEF TailInv, CursorKnows, AllMet
  <2>2. ASSUME NEW p \in Files, tcur'[c] = [path |-> p, off |-> toff[p]] PROVE CursorKnows(c)'
    <3>1. tcur'[c].path = p /\ tcur'[c].off = toff[p]
      BY <2>2
    <3> QED BY <1>2, <3>1 DEF TailInv, FileKnows, CursorKnows, AllMet
  <2> QED BY Zenon, <1>3, <2>1, <2>2
<1> QED BY Zenon, <1>4, <1>5, <1>6 DEF TailInv

\* A restart resumes from cursor files that are true, or from the beginning.
LEMMA RestartKeeps ==
    ASSUME TailInv, Restart
    PROVE  TailInv'
<1>1. PICK cur : /\ cur = tcur \/ \E c \in Cursors : cur = [tcur EXCEPT ![c] = None]
                 /\ tcur' = cur /\ toff' = loadPersistedCursors(cur) /\ tst' = Mark("lost", "sent")
  BY Zenon DEF Restart
<1>2. tfault' = tfault \cup {"restart"} /\ UNCHANGED <<tfile, tcut>>
  BY Zenon DEF Restart
<1>3. DOMAIN cur = Cursors /\ \A c \in Cursors : cur[c] = tcur[c] \/ cur[c] = None
  BY Zenon, <1>1 DEF TailInv, TailTypeOK
<1>4. ASSUME NEW p \in Files
      PROVE  \/ toff'[p] = 0
             \/ \E c \in Cursors : cur[c].path = p /\ toff'[p] = cur[c].off
  BY Zenon, <1>1 DEF loadPersistedCursors
<1>5. ASSUME NEW p \in Files
      PROVE  \/ toff'[p] = 0
             \/ \E c \in Cursors : cur[c] # None /\ cur[c].path = p /\ toff'[p] = cur[c].off
  <2>1. None.off = 0
    BY Zenon DEF None
  <2> QED BY Zenon, <1>4, <2>1
<1>6. toff' \in [Files -> Nat]
  <2>1. \A p \in Files : toff'[p] \in Nat
    BY <1>3, <1>5 DEF TailInv, TailTypeOK
  <2>2. toff' = [p \in Files |-> toff'[p]]
    BY Zenon, <1>1 DEF loadPersistedCursors
  <2> QED BY Zenon, <2>1, <2>2
<1>7. TailTypeOK'
  <2>1. \A p \in Files : DOMAIN tst' = Files /\ tst'[p] \in Seq(WriteState)
                         /\ Len(tst'[p]) = Len(tfile[p])
    BY Zenon, <1>1, <1>2, MarkKeeps
  <2>2. DOMAIN tst' = Files
    BY Zenon, <1>1 DEF Mark
  <2>3. \A c \in Cursors : tcur'[c] # None => tcur'[c].path \in Files /\ tcur'[c].off \in Nat
    BY Zenon, <1>1, <1>3 DEF TailInv, TailTypeOK
  <2> QED BY Zenon, <1>1, <1>2, <1>3, <1>6, <2>1, <2>2, <2>3 DEF TailInv, TailTypeOK
<1>8. \A p \in Files : Keeps(p)
  BY Zenon, <1>1, <1>2, MarkKeeps
<1>9. ASSUME NEW c \in Cursors PROVE CursorKnows(c)'
  <2> SUFFICES ASSUME cur[c] = tcur[c], tcur[c] # None, tcur[c].path \notin tcut
               PROVE  CursorKnows(c)'
    BY Zenon, <1>1, <1>2, <1>3 DEF CursorKnows
  <2>1. tcur[c].path \in Files /\ tcur[c].off \in Nat /\ AllMet(tcur[c].path, tcur[c].off)
    BY Zenon DEF TailInv, TailTypeOK, CursorKnows
  <2>2. /\ tcur[c].off <= Len(tfile'[tcur[c].path])
        /\ \A i \in 1 .. Len(tfile'[tcur[c].path]) :
               i <= tcur[c].off => tst'[tcur[c].path][i] # "unread"
    BY Zenon, <1>7, <1>8, <2>1, MetStays DEF TailInv
  <2> QED BY Zenon, <1>1, <2>2 DEF CursorKnows, AllMet
<1>10. ASSUME NEW p \in Files PROVE FileKnows(p)'
  <2>1. p \notin tcut' => AllMet(p, toff[p])'
    <3>1. CASE toff'[p] = 0
      <4>1. Len(tfile'[p]) \in Nat
        BY <1>7 DEF TailTypeOK
      <4> QED BY <3>1, <4>1 DEF AllMet
    <3>2. ASSUME NEW c \in Cursors, cur[c] # None, cur[c].path = p, toff'[p] = cur[c].off, p \notin tcut'
          PROVE  AllMet(p, toff[p])'
      <4>1. CursorKnows(c)'
        BY Zenon, <1>9
      <4> QED BY Zenon, <1>1, <3>2, <4>1 DEF CursorKnows, AllMet
    <3> QED BY Zenon, <1>5, <3>1, <3>2
  <2> QED BY Zenon, <1>2, <2>1 DEF FileKnows
<1> QED BY Zenon, <1>7, <1>9, <1>10 DEF TailInv

\* For any files and writes to them, any rotation, failed gather or restart,
\* and cursor files that share a name: the offset separates what was dealt with
\* from what is unread, nothing is delivered twice by one input, and no cursor
\* file is ahead of the reading.
THEOREM PositionsCorrect == TailSpec => []PositionsMeanRead
<1>1. TailInit => TailInv
  BY DEF TailInit, TailInv, TailTypeOK, FileKnows, CursorKnows, AllMet
<1>2. TailInv /\ [TailNext]_tailVars => TailInv'
  <2> SUFFICES ASSUME TailInv, [TailNext]_tailVars PROVE TailInv'
    BY Zenon
  <2>1. CASE UNCHANGED tailVars
    BY Zenon, <2>1 DEF tailVars, TailInv, TailTypeOK, FileKnows, CursorKnows, AllMet
  <2> QED BY Zenon, <2>1, AppendKeeps, RotateKeeps, GatherFileKeeps, PersistKeeps, DeliverKeeps,
             RestartKeeps DEF TailNext, TailGather
<1>3. TailInv => PositionsMeanRead
  <2> SUFFICES ASSUME TailInv PROVE PositionsMeanRead
    BY Zenon
  <2>1. \A p \in Files : /\ DOMAIN tfile[p] = 1 .. Len(tfile[p])
                         /\ DOMAIN tst[p] = 1 .. Len(tfile[p])
                         /\ toff[p] \in Nat /\ Len(tfile[p]) \in Nat
    BY DEF TailInv, TailTypeOK
  <2>2. OffsetMeansRead
    <3> SUFFICES ASSUME tfault = {}, NEW p \in Files, NEW i \in DOMAIN tfile[p]
                 PROVE  IF i <= toff[p] THEN tst[p][i] \in {"held", "sent", "skipped"}
                        ELSE tst[p][i] = "unread"
      BY Zenon DEF OffsetMeansRead
    <3>1. p \notin tcut /\ "restart" \notin tfault
      BY Zenon DEF TailInv, TailTypeOK
    <3> QED BY <2>1, <3>1 DEF TailInv, FileKnows, AllMet
  <2>3. AtMostOnce
    BY Zenon, <2>1 DEF AtMostOnce, TailInv, FileKnows, Range
  <2>4. CursorNotAhead
    <3> SUFFICES ASSUME NEW cur \in Cursors, tcur[cur] # None, tcur[cur].path \notin tcut,
                        NEW i \in DOMAIN tfile[tcur[cur].path], i <= tcur[cur].off
                 PROVE  tst[tcur[cur].path][i] # "unread"
      BY Zenon DEF CursorNotAhead
    <3>1. tcur[cur].path \in Files /\ CursorKnows(cur)
      BY Zenon DEF TailInv, TailTypeOK
    <3> QED BY Zenon, <2>1, <3>1 DEF CursorKnows, AllMet
  <2> QED BY Zenon, <2>2, <2>3, <2>4 DEF PositionsMeanRead
<1> QED BY <1>1, <1>2, <1>3, PTL DEF TailSpec

-----------------------------------------------------------------------------
(* The journald input *)

\* Every set of naturals with a member has a least one: the first entry that
\* follows a position of the journal.
LEMMA LeastNat == ASSUME NEW T, T \subseteq Nat, T # {} PROVE \E x \in T : \A y \in T : x <= y
<1> DEFINE R == {ss \in Nat \X Nat : ss[1] < ss[2]}
<1>1. IsWellFoundedOn(R, Nat)
  BY Zenon, NatLessThanWellFounded DEF OpToRel
<1> HIDE DEF R
<1>2. PICK x \in T : \A y \in T : ~(<<y, x>> \in R)
  BY Zenon, <1>1, WFMin
<1>3. \A y \in T : x <= y
  <2> TAKE y \in T
  <2>1. ~(<<y, x>> \in R) /\ x \in Nat /\ y \in Nat
    BY Zenon, <1>2
  <2>2. <<y, x>> \in R <=> y < x
    BY Zenon, <2>1 DEF R
  <2> QED BY <2>1, <2>2
<1> QED BY Zenon, <1>3

JournalTypeOK ==
    /\ jlog \in Seq({"ok", "bad", "other"})
    /\ jst \in Seq({"unread", "held", "sent", "lost", "passed", "failed"})
    /\ Len(jst) = Len(jlog)
    /\ jcur \in 0 .. Len(jlog) /\ jpos \in 0 .. Len(jlog) /\ jlast \in 0 .. Len(jlog)
    /\ jpc \in {"idle", "read", "save", "deliver"}

Settled(k) == jst[k] \in {"sent", "held", "lost", "passed"}
ReadableEntry(k) == jlog[k] = "ok"

\* What the saved cursor means between two gathers and during one.
CursorMeans ==
    /\ ~jpersists => jcur = 0
    /\ \A k \in 1 .. Len(jlog) : jst[k] = "failed" => ~ReadableEntry(k)
    /\ \A k \in 1 .. Len(jlog) : jpersists /\ jst[k] = "sent" => k <= jcur
    /\ \A i, k \in 1 .. Len(jlog) :
           i < k /\ k <= jcur /\ jst[i] = "sent" /\ ReadableEntry(k) => Settled(k)
    /\ jcur # 0 /\ ReadableEntry(jcur) => Settled(jcur)

\* What a gather holds lies after the cursor and has no gap.
GatherMeans ==
    /\ jpc # "deliver" => \A k \in 1 .. Len(jlog) : jst[k] = "held" => jcur < k
    /\ jpc = "idle" => jlast = 0 /\ \A k \in 1 .. Len(jlog) : jst[k] # "held"
    /\ jpc \in {"read", "save"} =>
           /\ \A k \in 1 .. Len(jlog) : jst[k] = "held" => k <= jpos /\ jlast # 0
           /\ jlast # 0 => jlast = jpos /\ jcur <= jpos /\ (ReadableEntry(jpos) => Settled(jpos))
           /\ jcur # 0 => jcur - 1 <= jpos
           /\ \A i, k \in 1 .. Len(jlog) :
                  i < k /\ k <= jpos /\ (jst[i] = "held" \/ i = jcur) /\ ReadableEntry(k) => Settled(k)
    /\ jpc = "deliver" /\ jpersists =>
           /\ \A k \in 1 .. Len(jlog) : jst[k] = "held" => k <= jcur
           /\ \A i, k \in 1 .. Len(jlog) :
                  i < k /\ k <= jcur /\ jst[i] = "held" /\ ReadableEntry(k) => Settled(k)

JournalInv == JournalTypeOK /\ CursorMeans /\ GatherMeans

\* The end of a gather: what it held is delivered or lost once its cursor is
\* saved, and is unread again before.
LEMMA OverKeeps ==
    ASSUME JournalInv, JOver, NEW to, jst' = JMark(to),
           IF jpc = "deliver" THEN to \in {"sent", "lost"} ELSE to = "unread",
           UNCHANGED <<jpersists, jlog, jcur>>
    PROVE  JournalInv'
<1>1. /\ jst \in Seq({"unread", "held", "sent", "lost", "passed", "failed"})
      /\ DOMAIN jst = 1 .. Len(jlog) /\ Len(jlog) \in Nat /\ jcur \in 0 .. Len(jlog)
  BY DEF JournalInv, JournalTypeOK
<1>2. \A k \in 1 .. Len(jlog) : jst'[k] = IF jst[k] = "held" THEN to ELSE jst[k]
  BY Zenon, <1>1 DEF JMark
<1>3. JournalTypeOK'
  <2>1. jst' \in Seq({"unread", "held", "sent", "lost", "passed", "failed"})
        /\ Len(jst') = Len(jlog)
    BY <1>1 DEF JMark
  <2> QED BY <1>1, <2>1 DEF JournalInv, JournalTypeOK, JOver
<1>4. \A k \in 1 .. Len(jlog) : Settled(k) /\ (jpc = "deliver" \/ k <= jcur) => Settled(k)'
  BY <1>1, <1>2 DEF JournalInv, GatherMeans, Settled
<1>5. CursorMeans'
  <2>1. \A k \in 1 .. Len(jlog) : jst'[k] = "failed" => ~ReadableEntry(k)'
    BY Zenon, <1>2 DEF JournalInv, CursorMeans, ReadableEntry
  <2>2. \A k \in 1 .. Len(jlog) : jpersists' /\ jst'[k] = "sent" => k <= jcur'
    BY Zenon, <1>2 DEF JournalInv, CursorMeans, GatherMeans
  <2>3. \A i, k \in 1 .. Len(jlog) :
           i < k /\ k <= jcur' /\ jst'[i] = "sent" /\ ReadableEntry(k)' => Settled(k)'
    <3> TAKE i, k \in 1 .. Len(jlog)
    <3> HAVE i < k /\ k <= jcur' /\ jst'[i] = "sent" /\ ReadableEntry(k)'
    <3>1. jpersists
      BY <1>1 DEF JournalInv, CursorMeans
    <3>2. Settled(k)
      BY Zenon, <1>2, <3>1 DEF JournalInv, CursorMeans, GatherMeans, ReadableEntry
    <3> QED BY Zenon, <1>4, <3>2
  <2>4. jcur' # 0 /\ ReadableEntry(jcur)' => Settled(jcur)'
    BY <1>1, <1>4 DEF JournalInv, CursorMeans, ReadableEntry
  <2> QED BY Zenon, <2>1, <2>2, <2>3, <2>4 DEF CursorMeans, JournalInv
<1>6. GatherMeans'
  BY Zenon, <1>2 DEF GatherMeans, JOver
<1> QED BY Zenon, <1>3, <1>5, <1>6 DEF JournalInv

\* The journal grows behind everything the gather and the cursor speak of.
LEMMA WriteKeeps ==
    ASSUME JournalInv, Write
    PROVE  JournalInv'
<1> DEFINE top == Len(jlog)
<1>1. /\ jst \in Seq({"unread", "held", "sent", "lost", "passed", "failed"})
      /\ jlog \in Seq({"ok", "bad", "other"})
      /\ Len(jst) = top /\ top \in Nat /\ jcur \in 0 .. top /\ jpos \in 0 .. top /\ jlast \in 0 .. top
  BY DEF JournalInv, JournalTypeOK
<1>2. PICK e \in {"ok", "bad", "other"} : jlog' = Append(jlog, e)
  BY Zenon DEF Write
<1>3. /\ jst' = Append(jst, "unread")
      /\ UNCHANGED <<jpersists, jcur, jpc, jpos, jlast>>
  BY Zenon DEF Write, jlocals
<1>4. /\ Len(jlog') = top + 1 /\ Len(jst') = top + 1
      /\ jlog' \in Seq({"ok", "bad", "other"})
      /\ jst' \in Seq({"unread", "held", "sent", "lost", "passed", "failed"})
      /\ \A k \in 1 .. top : jlog'[k] = jlog[k] /\ jst'[k] = jst[k]
      /\ jst'[top + 1] = "unread"
  BY <1>1, <1>2, <1>3
<1> HIDE DEF top
<1>5. /\ \A k \in 1 .. top + 1 : k \in 1 .. top \/ k = top + 1
      /\ \A k \in 1 .. top : (Settled(k)' <=> Settled(k)) /\ (ReadableEntry(k)' <=> ReadableEntry(k))
  BY <1>1, <1>4 DEF Settled, ReadableEntry
<1>6. JournalTypeOK'
  BY <1>1, <1>3, <1>4 DEF JournalInv, JournalTypeOK
<1>7. CursorMeans'
  <2>1. CursorMeans
    BY Zenon DEF JournalInv
  <2> QED BY <1>1, <1>3, <1>4, <1>5, <2>1 DEF CursorMeans, top
<1>8. GatherMeans'
  <2>1. GatherMeans
    BY Zenon DEF JournalInv
  <2> QED BY <1>1, <1>3, <1>4, <1>5, <2>1 DEF GatherMeans, top
<1> QED BY Zenon, <1>6, <1>7, <1>8 DEF JournalInv

\* Next returns the first entry after the position that the filters select.
LEMMA NextIsFirst ==
    ASSUME JournalTypeOK, Following # {}
    PROVE  /\ NextEntry \in 1 .. Len(jlog) /\ NextEntry > jpos /\ jlog[NextEntry] # "other"
           /\ \A k \in 1 .. Len(jlog) : jpos < k /\ k < NextEntry => jlog[k] = "other"
<1>1. Following \subseteq Nat /\ DOMAIN jlog = 1 .. Len(jlog) /\ Len(jlog) \in Nat /\ jpos \in Nat
  BY DEF Following, JournalTypeOK
<1>2. NextEntry \in Following /\ \A k \in Following : NextEntry <= k
  BY Zenon, <1>1, LeastNat DEF NextEntry
<1>3. NextEntry \in 1 .. Len(jlog) /\ NextEntry > jpos /\ jlog[NextEntry] # "other"
  BY Zenon, <1>1, <1>2 DEF Following
<1> HIDE DEF NextEntry
<1>4. ASSUME NEW k \in 1 .. Len(jlog), jpos < k, k < NextEntry PROVE jlog[k] = "other"
  BY <1>1, <1>2, <1>3, <1>4 DEF Following
<1> QED BY Zenon, <1>3, <1>4

\* An entry read: held if it was not dealt with before, failed if unreadable.
LEMMA ReadKeeps ==
    ASSUME JournalInv, ReadEntry
    PROVE  JournalInv'
<1>1. PICK e \in 1 .. Len(jlog) :
         /\ e = NextEntry /\ e > jpos /\ jlog[e] # "other"
         /\ \A k \in 1 .. Len(jlog) : jpos < k /\ k < e => jlog[k] = "other"
  BY Zenon, NextIsFirst DEF JournalInv, ReadEntry
<1>2. /\ jst \in Seq({"unread", "held", "sent", "lost", "passed", "failed"})
      /\ jlog \in Seq({"ok", "bad", "other"})
      /\ DOMAIN jst = 1 .. Len(jlog) /\ Len(jst) = Len(jlog) /\ Len(jlog) \in Nat
      /\ jcur \in 0 .. Len(jlog) /\ jpos \in 0 .. Len(jlog) /\ jlast \in 0 .. Len(jlog)
  BY DEF JournalInv, JournalTypeOK
<1>3. jpc = "read" /\ UNCHANGED <<jpersists, jlog, jcur>>
  BY Zenon DEF ReadEntry
<1>4. CASE jlog[e] = "bad" /\ jerrs + 1 >= maxGetEntryErrors
  <2>1. JOver /\ jst' = JMark("unread")
    BY Zenon, <1>1, <1>4 DEF ReadEntry
  <2> QED BY Zenon, <1>3, <2>1, OverKeeps
<1>5. CASE ~(jlog[e] = "bad" /\ jerrs + 1 >= maxGetEntryErrors)
  <2> DEFINE to == IF jlog[e] = "bad" THEN "failed"
                   ELSE IF jst[e] \in {"unread", "failed"} THEN "held" ELSE jst[e]
  <2>1. /\ jpos' = e /\ jlast' = e /\ jpc' = jpc
        /\ jst' = [jst EXCEPT ![e] = to]
    BY Zenon, <1>1, <1>5 DEF ReadEntry
  <2>2. /\ to \in {"unread", "held", "sent", "lost", "passed", "failed"}
        /\ jlog[e] = "ok" => to \in {"sent", "held", "lost", "passed"}
        /\ to = "failed" => jlog[e] = "bad"
        /\ to = "sent" => jst[e] = "sent"
        /\ to = "held" => jst[e] # "sent" /\ jlog[e] = "ok" /\ (jst[e] = "held" \/ ~Settled(e))
    <3>1. jst[e] \in {"unread", "held", "sent", "lost", "passed", "failed"}
      BY <1>1, <1>2
    <3>2. jlog[e] \in {"ok", "bad"}
      BY <1>1, <1>2
    <3> QED BY Zenon, <3>1, <3>2 DEF Settled
  <2> HIDE DEF to
  <2>3. /\ jst' \in Seq({"unread", "held", "sent", "lost", "passed", "failed"})
        /\ Len(jst') = Len(jlog)
        /\ jst'[e] = to
        /\ \A k \in 1 .. Len(jlog) : k # e => jst'[k] = jst[k]
    BY <1>1, <1>2, <2>1, <2>2
  <2>4. JournalTypeOK'
    BY <1>1, <1>2, <1>3, <2>1, <2>3 DEF JournalTypeOK
  <2>5. /\ \A k \in 1 .. Len(jlog) : ReadableEntry(k)' <=> ReadableEntry(k)
        /\ \A k \in 1 .. Len(jlog) : Settled(k) /\ ReadableEntry(k) => Settled(k)'
        /\ ReadableEntry(e) => Settled(e)'
        /\ jcur # 0 => jcur <= e
    <3>1. ReadableEntry(e) => Settled(e)'
      BY Zenon, <2>2, <2>3 DEF ReadableEntry, Settled
    <3>2. \A k \in 1 .. Len(jlog) : k # e /\ Settled(k) => Settled(k)'
      BY Zenon, <2>3 DEF Settled
    <3>3. jcur # 0 => jcur <= e
      BY <1>1, <1>2, <1>3 DEF JournalInv, GatherMeans
    <3> QED BY Zenon, <1>3, <3>1, <3>2, <3>3 DEF ReadableEntry
  <2>6. CursorMeans'
    <3>1. CursorMeans
      BY Zenon DEF JournalInv
    <3>2. \A k \in 1 .. Len(jlog) : jst'[k] = "failed" => ~ReadableEntry(k)'
      BY Zenon, <1>3, <2>2, <2>3, <3>1 DEF CursorMeans, ReadableEntry
    <3>3. \A k \in 1 .. Len(jlog) : jst'[k] = "sent" => jst[k] = "sent"
      BY Zenon, <2>2, <2>3
    <3>4. ASSUME NEW i \in 1 .. Len(jlog), NEW k \in 1 .. Len(jlog),
                 i < k, k <= jcur, jst'[i] = "sent", ReadableEntry(k)'
          PROVE  Settled(k)'
      BY Zenon, <2>5, <3>1, <3>3, <3>4 DEF CursorMeans
    <3>5. jcur # 0 /\ ReadableEntry(jcur)' => Settled(jcur)'
      BY <1>2, <1>3, <2>5, <3>1 DEF CursorMeans
    <3> QED BY Zenon, <1>3, <3>1, <3>2, <3>3, <3>4, <3>5 DEF CursorMeans
  <2>7. GatherMeans'
    <3>1. GatherMeans /\ CursorMeans
      BY Zenon DEF JournalInv
    <3>2. \A k \in 1 .. Len(jlog) : jst'[k] = "held" => jcur < k /\ k <= e
      <4> TAKE k \in 1 .. Len(jlog)
      <4> HAVE jst'[k] = "held"
      <4>1. CASE k # e
        BY <1>1, <1>2, <1>3, <2>3, <3>1, <4>1 DEF GatherMeans
      <4>2. CASE k = e
        <5>1. jst[e] = "held" \/ (~Settled(e) /\ ReadableEntry(e))
          BY Zenon, <2>2, <2>3, <4>2 DEF ReadableEntry
        <5>2. CASE jst[e] = "held"
          BY <1>1, <1>2, <1>3, <3>1, <4>2, <5>2 DEF GatherMeans
        <5>3. CASE ~Settled(e) /\ ReadableEntry(e)
          BY <1>1, <1>2, <2>5, <3>1, <4>2, <5>3 DEF CursorMeans
        <5> QED BY Zenon, <5>1, <5>2, <5>3
      <4> QED BY Zenon, <4>1, <4>2
    <3>3. ASSUME NEW i \in 1 .. Len(jlog), NEW k \in 1 .. Len(jlog),
                 i < k, k <= e, jst'[i] = "held" \/ i = jcur, ReadableEntry(k)'
          PROVE  Settled(k)'
      <4>1. CASE k = e
        BY Zenon, <1>1, <2>5, <3>3, <4>1
      <4>2. CASE k < e
        <5>1. k <= jpos
          BY <1>1, <1>2, <1>3, <3>3, <4>2 DEF ReadableEntry
        <5>2. jst[i] = "held" \/ i = jcur
          BY <1>1, <2>3, <3>3
        <5> QED BY Zenon, <1>3, <2>5, <3>1, <3>3, <5>1, <5>2 DEF GatherMeans
      <4> QED BY <1>1, <3>3, <4>1, <4>2
    <3>4. e # 0 /\ jcur <= e /\ (jcur # 0 => jcur - 1 <= e)
      BY <1>1, <1>2, <2>5
    <3> QED BY Zenon, <1>1, <1>3, <2>1, <2>5, <3>2, <3>3, <3>4 DEF GatherMeans
  <2> QED BY Zenon, <2>4, <2>6, <2>7 DEF JournalInv
<1> QED BY Zenon, <1>4, <1>5

\* Whatever is written to the journal, however its gathers end and however
\* little of it one gather may take: no readable entry between the first that
\* was delivered and the saved cursor is passed over.
THEOREM JournalCorrect == JournalSpec => []JournalNoGap
<1>1. JournalInit => JournalInv
  BY DEF JournalInit, JournalInv, JournalTypeOK, CursorMeans, GatherMeans
<1>2. JournalInv /\ [JournalNext]_journalVars => JournalInv'
  <2> SUFFICES ASSUME JournalInv, [JournalNext]_journalVars PROVE JournalInv'
    BY Zenon
  <2>1. CASE UNCHANGED journalVars
    BY Zenon, <2>1 DEF journalVars, jlocals, JournalInv, JournalTypeOK, CursorMeans, GatherMeans,
                Settled, ReadableEntry
  <2>2. CASE Write
    BY Zenon, <2>2, WriteKeeps
  <2>3. CASE ReadEntry
    BY Zenon, <2>3, ReadKeeps
  <2>4. CASE ReadAborts
    <3>1. jpc # "deliver"
      BY Zenon, <2>4 DEF ReadAborts
    <3> QED BY Zenon, <2>4, <3>1, OverKeeps DEF ReadAborts
  <2>5. CASE saveCursorFails
    <3>1. jpc # "deliver"
      BY Zenon, <2>5 DEF saveCursorFails
    <3> QED BY Zenon, <2>5, <3>1, OverKeeps DEF saveCursorFails
  <2>6. CASE JDeliver
    BY Zenon, <2>6, OverKeeps DEF JDeliver
  <2>7. CASE JRestart
    <3>1. jpc = "deliver" => jst' = JMark("lost")
      BY Zenon, <2>7 DEF JRestart
    <3>2. jpc # "deliver" => jst' = JMark("unread")
      BY Zenon, <2>7 DEF JRestart
    <3> QED BY Zenon, <2>7, <3>1, <3>2, OverKeeps DEF JRestart
  <2>8. CASE ReadEnds
    BY Zenon, <2>8 DEF ReadEnds, jlocals, JournalInv, JournalTypeOK, CursorMeans, GatherMeans,
                Settled, ReadableEntry
  <2>9. CASE Seek
    <3>1. /\ jpc = "idle" /\ jpc' = "read" /\ UNCHANGED <<jpersists, jlog, jst, jcur, jlast>>
          /\ jpos' \in IF jcur = 0 THEN {Len(jlog)} ELSE {jcur - 1, jcur}
          /\ Len(jlog) \in Nat /\ jcur \in 0 .. Len(jlog)
      BY <2>9 DEF Seek, JournalInv, JournalTypeOK
    <3>2. jpos' \in 0 .. Len(jlog) /\ (jcur # 0 => jpos' = jcur - 1 \/ jpos' = jcur)
      BY <3>1
    <3>3. JournalTypeOK' /\ CursorMeans'
      BY Zenon, <3>1, <3>2 DEF JournalInv, JournalTypeOK, CursorMeans, Settled, ReadableEntry
    <3>4. GatherMeans'
      BY <3>1, <3>2 DEF JournalInv, GatherMeans, Settled, ReadableEntry
    <3> QED BY Zenon, <3>3, <3>4 DEF JournalInv
  <2>10. CASE SeekStale
    <3>1. /\ jpc = "idle" /\ jpc' = "read" /\ UNCHANGED <<jpersists, jlog, jcur, jlast>>
          /\ jpos' = Len(jlog) /\ jcur # 0
          /\ jst' = [i \in DOMAIN jst |-> IF jst[i] = "unread" THEN "passed" ELSE jst[i]]
          /\ Len(jlog) \in Nat /\ jcur \in 0 .. Len(jlog)
          /\ jst \in Seq({"unread", "held", "sent", "lost", "passed", "failed"})
          /\ DOMAIN jst = 1 .. Len(jlog) /\ Len(jst) = Len(jlog)
      BY <2>10 DEF SeekStale, JournalInv, JournalTypeOK
    <3>2. /\ jst' \in Seq({"unread", "held", "sent", "lost", "passed", "failed"})
          /\ Len(jst') = Len(jlog)
          /\ \A k \in 1 .. Len(jlog) : jst'[k] = IF jst[k] = "unread" THEN "passed" ELSE jst[k]
      BY <3>1
    <3>3. \A k \in 1 .. Len(jlog) : (ReadableEntry(k)' <=> ReadableEntry(k)) /\ (ReadableEntry(k) => Settled(k)')
      <4> TAKE k \in 1 .. Len(jlog)
      <4>1. jst[k] \in {"unread", "held", "sent", "lost", "passed", "failed"}
        BY <3>1
      <4>2. ReadableEntry(k) => jst[k] # "failed"
        BY Zenon DEF JournalInv, CursorMeans
      <4> QED BY Zenon, <3>1, <3>2, <4>1, <4>2 DEF ReadableEntry, Settled
    <3>4. JournalTypeOK'
      BY <3>1, <3>2 DEF JournalInv, JournalTypeOK
    <3>5. CursorMeans'
      BY <3>1, <3>2, <3>3 DEF JournalInv, CursorMeans
    <3>6. GatherMeans'
      BY <3>1, <3>2, <3>3 DEF JournalInv, GatherMeans
    <3> QED BY Zenon, <3>4, <3>5, <3>6 DEF JournalInv
  <2>11. CASE saveCursor
    <3>1. /\ jpc = "save" /\ jpc' = "deliver" /\ UNCHANGED <<jpersists, jlog, jst, jpos, jlast>>
          /\ jcur' = IF jpersists /\ jlast # 0 THEN jlast ELSE jcur
          /\ Len(jlog) \in Nat /\ jcur \in 0 .. Len(jlog) /\ jlast \in 0 .. Len(jlog)
          /\ jpos \in 0 .. Len(jlog) /\ CursorMeans /\ GatherMeans
      BY <2>11 DEF saveCursor, jlocals, JournalInv, JournalTypeOK
    <3>2. \A k \in 1 .. Len(jlog) : (Settled(k)' <=> Settled(k)) /\ (ReadableEntry(k)' <=> ReadableEntry(k))
      BY Zenon, <3>1 DEF Settled, ReadableEntry
    <3>3. JournalTypeOK'
      BY Zenon, <3>1 DEF JournalInv, JournalTypeOK
    <3>4. CASE jpersists /\ jlast # 0
      <4>1. jcur' = jpos /\ jpos # 0 /\ jcur <= jpos /\ (ReadableEntry(jpos) => Settled(jpos))
        BY Zenon, <3>1, <3>4 DEF GatherMeans
      <4>2. ASSUME NEW i \in 1 .. Len(jlog), NEW k \in 1 .. Len(jlog),
                   i < k, k <= jpos, jst[i] \in {"sent", "held"}, ReadableEntry(k)
            PROVE  Settled(k)
        <5>1. CASE jst[i] = "held"
          BY Zenon, <3>1, <4>2, <5>1 DEF GatherMeans
        <5>2. CASE jst[i] = "sent" /\ k <= jcur
          BY Zenon, <3>1, <4>2, <5>2 DEF CursorMeans
        <5>3. CASE jst[i] = "sent" /\ jcur < k
          <6>1. i <= jcur /\ jcur \in 1 .. Len(jlog)
            BY <3>1, <3>4, <5>3 DEF CursorMeans
          <6> QED BY Zenon, <3>1, <4>2, <5>3, <6>1 DEF GatherMeans
        <5> QED BY <3>1, <4>2, <5>1, <5>2, <5>3
      <4>3. CursorMeans'
        <5>1. \A k \in 1 .. Len(jlog) : jst[k] = "sent" => k <= jpos
          BY <3>1, <3>4, <4>1 DEF CursorMeans
        <5>2. Settled(jcur)' <=> Settled(jpos)
          BY Zenon, <3>1, <4>1 DEF Settled
        <5>3. ReadableEntry(jcur)' <=> ReadableEntry(jpos)
          BY Zenon, <3>1, <4>1 DEF ReadableEntry
        <5>4. \A k \in 1 .. Len(jlog) : jst'[k] = "failed" => ~ReadableEntry(k)'
          BY Zenon, <3>1, <3>2 DEF CursorMeans
        <5> QED BY Zenon, <3>1, <3>2, <3>4, <4>1, <4>2, <5>1, <5>2, <5>3, <5>4 DEF CursorMeans
      <4>4. GatherMeans'
        BY Zenon, <3>1, <3>2, <4>1, <4>2 DEF GatherMeans
      <4> QED BY Zenon, <3>3, <4>3, <4>4 DEF JournalInv
    <3>5. CASE ~(jpersists /\ jlast # 0)
      <4>1. jcur' = jcur
        BY Zenon, <3>1, <3>5
      <4>2. CursorMeans'
        BY <3>1, <3>2, <4>1 DEF CursorMeans, Settled, ReadableEntry
      <4>3. GatherMeans'
        BY Zenon, <3>1, <3>5, <4>1 DEF GatherMeans
      <4> QED BY Zenon, <3>3, <4>2, <4>3 DEF JournalInv
    <3> QED BY Zenon, <3>4, <3>5
  <2> QED BY Zenon, <2>1, <2>2, <2>3, <2>4, <2>5, <2>6, <2>7, <2>8, <2>9, <2>10, <2>11
          DEF JournalNext, JournalGather
<1>3. JournalInv => JournalNoGap
  <2>1. JournalInv => DOMAIN jlog = 1 .. Len(jlog)
    BY DEF JournalInv, JournalTypeOK
  <2> QED BY Zenon, <2>1 DEF JournalInv, CursorMeans, JournalNoGap, Settled, ReadableEntry
<1> QED BY <1>1, <1>2, <1>3, PTL DEF JournalSpec

=============================================================================
