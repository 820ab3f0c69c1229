------------------------ MODULE PluginGatewayProofs -------------------------
(***************************************************************************)
(* Proofs about PluginGateway, for any number of callers, calls, loads and *)
(* restarts.  While operations do not overlap, what holds of the plugin    *)
(* depends on the step the one busy goroutine is at: Stage says how.       *)
(***************************************************************************)
EXTENDS PluginGateway, FiniteSetTheorems, TLAPS

\* The prover of every leaf that names none.
USE SMTT(30)

-----------------------------------------------------------------------------
\* RestartCount is never increased.
NeverCounted == restartCount = [n \in Plugin |-> 0]

\* A process that was not started has not run.
Fresh == \A n \in Plugin : n > loads => process[n] = "none"

\* stopPlugin has a caller to return to, and who kills or publishes a process has
\* one.
StepOK(a) ==
    /\ at[a].pc \in {"mark", "kill", "remove", "unregister", "check", "ping", "snapshot"} =>
         at[a].op \in {"reload", "disable", "unload", "check", "stop"}
    /\ at[a].pc \in {"kill", "await", "abort", "publish", "register"} => at[a].mine \in Plugin

\* Nothing is going on: a process belongs to the running entry, and its task
\* types are with the dispatcher.
Rest ==
    /\ \A n \in Alive : entry = n /\ status[n] = "running" /\ n \in held
    /\ registered <=> entry # 0 /\ status[entry] = "running"

\* The plugin is stopped.
Down ==
    /\ ~registered
    /\ entry # 0 => status[entry] \in {"stopped", "disabled"}

\* What holds while a is at its step and nobody else at any.
Stage(a) ==
    /\ at[a].pc \in {"mark", "enable", "check", "ping"} =>
         Rest /\ entry # 0 /\ at[a].obj = entry
    /\ at[a].pc = "snapshot" => Rest
    /\ at[a].pc = "kill" =>
         entry # 0 /\ at[a].mine = entry /\ status[entry] = "stopped" /\ Alive \subseteq {entry}
    /\ at[a].pc \in {"remove", "unregister"} =>
         entry # 0 /\ status[entry] = "stopped" /\ Alive = {}
    /\ at[a].pc \in {"load", "disable", "delete", "backoff", "join", "failed"} =>
         Down /\ Alive = {}
    /\ at[a].pc \in {"await", "abort", "publish"} => Down /\ Alive \subseteq {at[a].mine}
    /\ at[a].pc = "register" =>
         /\ entry = at[a].mine /\ status[entry] = "running" /\ entry \in held
         /\ Alive \subseteq {entry}

OneBusy == \A a, b \in Actor : Busy(a) /\ Busy(b) => a = b

\* The inductive invariant.
Sequential ==
    ~overlap =>
        /\ OneBusy
        /\ \A a \in Actor : Busy(a) => Stage(a)
        /\ AtRest => Rest

GatewayInv == TypeOK /\ Fresh /\ NeverCounted /\ (\A a \in Actor : StepOK(a)) /\ Sequential

-----------------------------------------------------------------------------
(* What a step does to its actor *)

Record == [pc : PC, op : Op, obj : {0} \cup Plugin, mine : {0} \cup Plugin]

\* a is at step, with the operation, the plugin and the process given; the other
\* actors are where they were.
Moves(a, step, o, n, k) ==
    /\ at' \in [Actor -> Record]
    /\ \A b \in Actor \ {a} : at'[b] = at[b]
    /\ at'[a].pc = step
    /\ step # "idle" => at'[a].op = o /\ at'[a].obj = n /\ at'[a].mine = k

\* A goroutine with nothing to do is a record like any other.
LEMMA IdleType == Idle \in Record /\ Idle.pc = "idle"
BY Zenon DEF Idle, Record, PC, Op

\* Goto changes the step of one goroutine only.
LEMMA GotoMoves ==
    ASSUME TypeOK, NEW a \in Actor, NEW step \in PC, Goto(a, step)
    PROVE  Moves(a, step, at[a].op, at[a].obj, at[a].mine)
<1>0. at \in [Actor -> Record]
  BY Zenon DEF TypeOK, Record
<1>1. CASE step = "idle"
  <2>1. at' = [at EXCEPT ![a] = Idle]
    BY Zenon, <1>1 DEF Goto
  <2> QED BY Zenon, <1>0, <1>1, <2>1, IdleType DEF Moves
<1>2. CASE step # "idle"
  <2>1. at' = [at EXCEPT ![a] = [at[a] EXCEPT !.pc = step]]
    BY Zenon, <1>0, <1>2 DEF Goto
  <2>2. [at[a] EXCEPT !.pc = step] \in Record
    BY Zenon, <1>0 DEF Record
  <2> QED BY Zenon, <1>0, <1>2, <2>1, <2>2 DEF Moves, Record
<1> QED BY Zenon, <1>1, <1>2

\* Begin puts one goroutine on the first step of an operation.
LEMMA BeginMoves ==
    ASSUME TypeOK, NEW a \in Actor, NEW o \in Op, NEW step \in PC, NEW n \in {0} \cup Plugin,
           Begin(a, o, step, n)
    PROVE  Moves(a, step, o, n, 0)
<1>0. at \in [Actor -> Record]
  BY Zenon DEF TypeOK, Record
<1>1. at' = [at EXCEPT ![a] = [Idle EXCEPT !.pc = step, !.op = o, !.obj = n]]
  BY Zenon DEF Begin
<1> DEFINE r == [Idle EXCEPT !.pc = step, !.op = o, !.obj = n]
<1>2. r \in Record /\ r.pc = step /\ r.op = o /\ r.obj = n /\ r.mine = 0
  <2>1. Idle \in Record /\ Idle.mine = 0
    BY Zenon DEF Idle, Record, PC, Op
  <2> QED BY Zenon, <2>1 DEF Record
<1>3. at' = [at EXCEPT ![a] = r]
  BY Zenon, <1>1
<1> HIDE DEF r
<1> QED BY Zenon, <1>0, <1>2, <1>3 DEF Moves

\* A step that keeps the process the actor works on in another field.
LEMMA MarkMoves ==
    ASSUME TypeOK, NEW a \in Actor, NEW step \in PC, step # "idle", NEW k \in {0} \cup Plugin,
           at' = [at EXCEPT ![a].pc = step, ![a].mine = k]
    PROVE  Moves(a, step, at[a].op, at[a].obj, k)
<1>0. at \in [Actor -> Record]
  BY Zenon DEF TypeOK, Record
<1>1. /\ [at[a] EXCEPT !.pc = step, !.mine = k] \in Record
      /\ [at[a] EXCEPT !.pc = step, !.mine = k].pc = step
      /\ [at[a] EXCEPT !.pc = step, !.mine = k].op = at[a].op
      /\ [at[a] EXCEPT !.pc = step, !.mine = k].obj = at[a].obj
      /\ [at[a] EXCEPT !.pc = step, !.mine = k].mine = k
  BY Zenon, <1>0 DEF Record
<1>2. at' = [at EXCEPT ![a] = [at[a] EXCEPT !.pc = step, !.mine = k]]
  BY Zenon, <1>0 DEF Record
<1> QED BY Zenon, <1>0, <1>1, <1>2 DEF Moves

-----------------------------------------------------------------------------
(* Types *)

\* A new gateway satisfies the invariant.
LEMMA GatewayStarts == Init => GatewayInv
<1> SUFFICES ASSUME Init PROVE GatewayInv
  BY Zenon
<1>1. at \in [Actor -> Record]
  <2>1. [Idle EXCEPT !.pc = "load", !.op = "start"] \in Record
    <3>1. Idle \in Record
      BY Zenon, IdleType
    <3> QED BY Zenon, <3>1 DEF Record, PC, Op
  <2> QED BY Zenon, <2>1, IdleType DEF Init
<1>2. /\ registered \in BOOLEAN /\ ctxDone \in BOOLEAN /\ overlap \in BOOLEAN
  BY Zenon DEF Init
<1>3. /\ loads \in 0 .. MaxLoads /\ calls \in 0 .. MaxCalls
      /\ restartCount \in [Plugin -> 0 .. MaxRestarts]
  BY BoundsAssumption DEF Init
<1>4. TypeOK
  BY Zenon, <1>1, <1>2, <1>3 DEF Init, TypeOK, Record
<1>5. "main" \in Actor /\ at["main"].pc = "load" /\ \A a \in Actor \ {"main"} : at[a].pc = "idle"
  <2>1. Idle.pc = "idle" /\ [Idle EXCEPT !.pc = "load", !.op = "start"].pc = "load"
    BY Zenon DEF Idle
  <2> QED BY Zenon, <2>1 DEF Init, Actor
<1>6. \A a \in Actor : StepOK(a)
  BY Zenon, <1>5 DEF StepOK
<1>7. Alive = {} /\ Down
  BY Zenon DEF Alive, Down, Init
<1>8. Sequential
  BY Zenon, <1>5, <1>7 DEF Sequential, OneBusy, Busy, Stage, AtRest
<1> QED BY Zenon, <1>4, <1>6, <1>8 DEF GatewayInv, Fresh, NeverCounted, Init

\* Every step leaves RestartCount alone: a load copies it from the entry.
LEMMA CountStep ==
    ASSUME TypeOK, NeverCounted, \A a \in Actor : StepOK(a), [Next]_vars
    PROVE  NeverCounted'
<1>1. ASSUME NEW a \in Actor, Publish(a) PROVE NeverCounted'
  <2>1. IF entry # 0 THEN restartCount[entry] = 0 ELSE TRUE
    BY Zenon DEF TypeOK, NeverCounted
  <2>2. restartCount' = [restartCount EXCEPT ![at[a].mine] = 0]
    BY Zenon, <1>1, <2>1 DEF Publish
  <2> QED BY Zenon, <2>2 DEF NeverCounted
<1>2. ASSUME NEW a \in Actor, Step(a) PROVE NeverCounted'
  <2>1. CASE Publish(a)
    BY Zenon, <1>1, <2>1
  <2>2. CASE ~Publish(a)
    BY Zenon, <1>2, <2>2 DEF Step, Mark, Kill, Remove, Unregister, Load, Await, Abort, Register, table,
       NeverCounted
  <2> QED BY Zenon, <2>1, <2>2
<1>3. ASSUME NEW c \in Caller, Call(c) \/ CallerStep(c) PROVE NeverCounted'
  <2>1. c \in Actor
    BY Zenon DEF Actor
  <2> QED BY Zenon, <1>2, <1>3, <2>1 DEF Call, CallerStep, Enable, Disable, Delete, table, NeverCounted
<1>4. CASE HealthStep \/ MainStep \/ StopCancel
  <2>1. "health" \in Actor /\ "main" \in Actor
    BY Zenon DEF Actor
  <2> QED BY Zenon, <1>2, <1>4, <2>1 DEF HealthStep, MainStep, StopCancel, Tick, Check, Ping, Backoff, Failed,
     HealthOver, StopSnapshot, StopJoin, table, NeverCounted
<1>5. ASSUME NEW n \in Plugin, Listen(n) \/ Exit(n) PROVE NeverCounted'
  BY Zenon, <1>5 DEF Listen, Exit, table, NeverCounted
<1>6. CASE Terminated \/ UNCHANGED vars
  BY Zenon, <1>6 DEF Terminated, vars, NeverCounted
<1> QED BY Zenon, <1>3, <1>4, <1>5, <1>6 DEF Next

-----------------------------------------------------------------------------
(* What a step has to show *)

\* TypeOK without at and overlap.
TableOK ==
    /\ entry \in {0} \cup Plugin
    /\ status \in [Plugin -> {"none", "running", "stopped", "error", "disabled"}]
    /\ held \subseteq Plugin
    /\ gmu \in Caller \cup {None}
    /\ process \in [Plugin -> {"none", "booting", "listening", "exited"}]
    /\ reaped \subseteq {n \in Plugin : process[n] = "exited"}
    /\ sock \in {0} \cup Plugin
    /\ registered \in BOOLEAN /\ ctxDone \in BOOLEAN
    /\ loads \in 0 .. MaxLoads /\ calls \in 0 .. MaxCalls
    /\ Fresh

\* What StepOK asks of a step, an operation and a process.
Sound(step, o, k) ==
    /\ step \in {"mark", "kill", "remove", "unregister", "check", "ping", "snapshot"} =>
         o \in {"reload", "disable", "unload", "check", "stop"}
    /\ step \in {"kill", "await", "abort", "publish", "register"} => k \in Plugin

\* A step of one goroutine keeps the types if its new step suits its operation.
LEMMA TypesOf ==
    ASSUME GatewayInv, NeverCounted', TableOK', overlap' \in BOOLEAN, NEW a \in Actor,
           NEW step, NEW o, NEW n, NEW k, Moves(a, step, o, n, k), Sound(step, o, k)
    PROVE  TypeOK' /\ \A b \in Actor : StepOK(b)'
<1>1. restartCount' \in [Plugin -> 0 .. MaxRestarts]
  BY BoundsAssumption DEF NeverCounted
<1>2. TypeOK'
  BY Zenon, <1>1 DEF TypeOK, TableOK, Moves, Record
<1>3. StepOK(a)'
  BY Zenon DEF Moves, Sound, StepOK
<1>4. ASSUME NEW b \in Actor, b # a PROVE StepOK(b)'
  BY Zenon, <1>4 DEF Moves, StepOK, GatewayInv
<1> QED BY Zenon, <1>2, <1>3, <1>4

\* A step of the busy actor.
LEMMA StepOf ==
    ASSUME GatewayInv, NeverCounted', TableOK', overlap' = overlap, NEW a \in Actor, Busy(a),
           NEW step, NEW o, NEW n, NEW k, Moves(a, step, o, n, k), Sound(step, o, k),
           ~overlap /\ Stage(a) => IF step \in {"idle", "over"} THEN Rest' ELSE Stage(a)'
    PROVE  GatewayInv'
<1>1. TypeOK' /\ \A b \in Actor : StepOK(b)'
  <2>1. overlap' \in BOOLEAN
    BY Zenon DEF GatewayInv, TypeOK
  <2> QED BY Zenon, <2>1, TypesOf
<1>2. ASSUME ~overlap PROVE OneBusy' /\ (\A b \in Actor : Busy(b)' => Stage(b)') /\ (AtRest' => Rest')
  <2>1. Stage(a) /\ \A b \in Actor \ {a} : ~Busy(b)
    BY Zenon, <1>2 DEF GatewayInv, Sequential, OneBusy
  <2>2. \A b \in Actor \ {a} : ~Busy(b)'
    BY Zenon, <2>1 DEF Moves, Busy
  <2>3. CASE step \in {"idle", "over"}
    <3>1. ~Busy(a)' /\ Rest'
      BY Zenon, <1>2, <2>1, <2>3 DEF Moves, Busy
    <3> QED BY Zenon, <2>2, <3>1 DEF OneBusy
  <2>4. CASE step \notin {"idle", "over"}
    <3>1. Busy(a)' /\ Stage(a)'
      BY Zenon, <1>2, <2>1, <2>4 DEF Moves, Busy
    <3> QED BY Zenon, <2>2, <3>1 DEF OneBusy, AtRest
  <2> QED BY Zenon, <2>3, <2>4
<1>3. Sequential'
  BY Zenon, <1>2 DEF Sequential
<1> QED BY Zenon, <1>1, <1>3 DEF GatewayInv, TableOK

\* An operation that begins at rest.
LEMMA BeginOf ==
    ASSUME GatewayInv, NeverCounted', TableOK', NEW a \in Actor, ~Busy(a),
           NEW step \in PC \ {"idle", "over"}, NEW o \in Op, NEW n \in {0} \cup Plugin, Begin(a, o, step, n),
           Sound(step, o, 0), Moves(a, step, o, n, 0) /\ Rest => Stage(a)'
    PROVE  GatewayInv'
<1>0. Moves(a, step, o, n, 0)
  BY Zenon, BeginMoves DEF GatewayInv
<1>1. TypeOK' /\ \A b \in Actor : StepOK(b)'
  <2>1. overlap' \in BOOLEAN
    BY Zenon DEF Begin
  <2> QED BY Zenon, <1>0, <2>1, TypesOf
<1>2. ASSUME ~overlap' PROVE OneBusy' /\ (\A b \in Actor : Busy(b)' => Stage(b)') /\ (AtRest' => Rest')
  <2>1. ~overlap /\ \A b \in Actor \ {a} : ~Busy(b)
    BY Zenon, <1>2 DEF Begin
  <2>2. Rest
    BY Zenon, <2>1 DEF GatewayInv, Sequential, AtRest
  <2>3. \A b \in Actor \ {a} : ~Busy(b)'
    BY Zenon, <1>0, <2>1 DEF Moves, Busy
  <2>4. Busy(a)' /\ Stage(a)'
    BY Zenon, <1>0, <2>2 DEF Moves, Busy
  <2> QED BY Zenon, <2>3, <2>4 DEF OneBusy, AtRest
<1>3. Sequential'
  BY Zenon, <1>2 DEF Sequential
<1> QED BY Zenon, <1>1, <1>3 DEF GatewayInv, TableOK

\* The invariant gives the types of the table of plugins.
LEMMA TableType == GatewayInv => TableOK
BY Zenon DEF GatewayInv, TypeOK, TableOK

-----------------------------------------------------------------------------
(* stopPlugin and loadPlugin *)

\* The step an operation returns to is a step.
LEMMA ReturnType ==
    ASSUME NEW o \in {"reload", "disable", "unload", "check", "stop"}
    PROVE  Return(o) \in {"load", "disable", "delete", "backoff", "join"}
BY Zenon DEF Return

\* The step Mark keeps the invariant.
LEMMA MarkKeeps ==
    ASSUME GatewayInv, NeverCounted', NEW a \in Actor, Mark(a)
    PROVE  GatewayInv'
<1>0. Busy(a) /\ TypeOK /\ TableOK
  BY Zenon, TableType DEF GatewayInv, Mark, Busy
<1>1. at[a].op \in {"reload", "disable", "unload", "check", "stop"}
  BY Zenon DEF GatewayInv, StepOK, Mark
<1>2. TableOK'
  BY Zenon, <1>0 DEF Mark, Goto, TableOK, system, counts, Fresh
<1>3. at[a].obj \in {0} \cup Plugin
  BY Zenon, <1>0 DEF TypeOK
<1>4. CASE status[at[a].obj] \in {"stopped", "disabled"}
  <2> DEFINE step == Return(at[a].op)
  <2>1. step \in {"load", "disable", "delete", "backoff", "join"}
    BY Zenon, <1>1, ReturnType
  <2> HIDE DEF step
  <2>2. Goto(a, step)
    BY Zenon, <1>4 DEF Mark, step
  <2>3. step \in PC /\ Sound(step, at[a].op, at[a].mine)
    BY Zenon, <2>1 DEF PC, Sound
  <2>4. Moves(a, step, at[a].op, at[a].obj, at[a].mine)
    BY Zenon, <1>0, <2>2, <2>3, GotoMoves
  <2>5. Stage(a) => Down' /\ Alive' = {}
    BY Zenon, <1>0, <1>4 DEF Stage, Rest, Down, Alive, Mark, system, counts, TableOK
  <2>6. Stage(a) => Stage(a)'
    BY Zenon, <2>1, <2>4, <2>5 DEF Stage, Moves
  <2> QED BY Zenon, <1>0, <1>2, <2>1, <2>3, <2>4, <2>6, StepOf DEF Mark, counts
<1>5. CASE status[at[a].obj] \notin {"stopped", "disabled"}
  <2> DEFINE step == IF at[a].obj \in held THEN "kill" ELSE "remove"
  <2>1. step \in {"kill", "remove"} /\ (step = "kill" <=> at[a].obj \in held)
    BY Zenon
  <2>2. at' = [at EXCEPT ![a].pc = step, ![a].mine = at[a].obj]
    BY Zenon, <1>5 DEF Mark
  <2> HIDE DEF step
  <2>3. step \in PC /\ Sound(step, at[a].op, at[a].obj)
    BY Zenon, <1>0, <1>1, <2>1 DEF PC, Sound, TableOK
  <2>4. Moves(a, step, at[a].op, at[a].obj, at[a].obj)
    BY Zenon, <1>0, <1>3, <2>1, <2>2, <2>3, MarkMoves
  <2>5. /\ status' = [status EXCEPT ![at[a].obj] = "stopped"]
        /\ entry' = entry /\ process' = process
    BY Zenon, <1>5 DEF Mark, system
  <2>6. ASSUME Stage(a)
        PROVE  /\ entry' # 0 /\ at[a].obj = entry' /\ status'[entry'] = "stopped" /\ Alive' \subseteq {entry'}
               /\ step = "remove" => Alive' = {}
    <3>1. Rest /\ entry # 0 /\ at[a].obj = entry
      BY Zenon, <2>6 DEF Stage, Mark
    <3> QED BY Zenon, <1>0, <2>1, <2>5, <3>1 DEF Rest, Alive, TableOK
  <2>7. Stage(a) => Stage(a)'
    BY Zenon, <2>1, <2>4, <2>6 DEF Stage, Moves
  <2> QED BY Zenon, <1>0, <1>2, <2>1, <2>3, <2>4, <2>7, StepOf DEF Mark, counts
<1> QED BY Zenon, <1>4, <1>5

\* The step Kill keeps the invariant.
LEMMA KillKeeps ==
    ASSUME GatewayInv, NeverCounted', NEW a \in Actor, Kill(a)
    PROVE  GatewayInv'
<1>0. Busy(a) /\ TypeOK /\ TableOK
  BY Zenon, TableType DEF GatewayInv, Kill, Busy
<1>1. at[a].mine \in Plugin /\ at[a].op \in {"reload", "disable", "unload", "check", "stop"}
  BY Zenon DEF GatewayInv, StepOK, Kill
<1>2. TableOK'
  BY Zenon, <1>0, <1>1 DEF Kill, TableOK, table, counts, Fresh
<1>3. "remove" \in PC /\ Sound("remove", at[a].op, at[a].mine)
  BY Zenon, <1>1 DEF PC, Sound
<1>4. Moves(a, "remove", at[a].op, at[a].obj, at[a].mine)
  BY Zenon, <1>0, <1>3, GotoMoves DEF Kill
<1>5. Stage(a) => entry' # 0 /\ status'[entry'] = "stopped" /\ Alive' = {}
  BY Zenon DEF Stage, Kill, Alive, table
<1>6. Stage(a) => Stage(a)'
  BY Zenon, <1>4, <1>5 DEF Stage, Moves
<1> QED BY Zenon, <1>0, <1>2, <1>3, <1>4, <1>6, StepOf DEF Kill, counts

\* The step Remove keeps the invariant.
LEMMA RemoveKeeps ==
    ASSUME GatewayInv, NeverCounted', NEW a \in Actor, Remove(a)
    PROVE  GatewayInv'
<1>0. Busy(a) /\ TypeOK /\ TableOK
  BY Zenon, TableType DEF GatewayInv, Remove, Busy
<1>1. at[a].op \in {"reload", "disable", "unload", "check", "stop"}
  BY Zenon DEF GatewayInv, StepOK, Remove
<1>2. TableOK'
  BY Zenon, <1>0 DEF Remove, TableOK, table, counts, Fresh
<1>3. "unregister" \in PC /\ Sound("unregister", at[a].op, at[a].mine)
  BY Zenon, <1>1 DEF PC, Sound
<1>4. Moves(a, "unregister", at[a].op, at[a].obj, at[a].mine)
  BY Zenon, <1>0, <1>3, GotoMoves DEF Remove
<1>5. Stage(a) => entry' # 0 /\ status'[entry'] = "stopped" /\ Alive' = {}
  BY Zenon DEF Stage, Remove, Alive, table
<1>6. Stage(a) => Stage(a)'
  BY Zenon, <1>4, <1>5 DEF Stage, Moves
<1> QED BY Zenon, <1>0, <1>2, <1>3, <1>4, <1>6, StepOf DEF Remove, counts

\* The step Unregister keeps the invariant.
LEMMA UnregisterKeeps ==
    ASSUME GatewayInv, NeverCounted', NEW a \in Actor, Unregister(a)
    PROVE  GatewayInv'
<1>0. Busy(a) /\ TypeOK /\ TableOK
  BY Zenon, TableType DEF GatewayInv, Unregister, Busy
<1> DEFINE step == Return(at[a].op)
<1>1. step \in {"load", "disable", "delete", "backoff", "join"}
  BY Zenon, ReturnType DEF GatewayInv, StepOK, Unregister
<1>2. Goto(a, step)
  BY Zenon DEF Unregister
<1> HIDE DEF step
<1>3. TableOK'
  BY Zenon, <1>0 DEF Unregister, TableOK, table, system, counts, Fresh
<1>4. step \in PC /\ Sound(step, at[a].op, at[a].mine)
  BY Zenon, <1>1 DEF PC, Sound
<1>5. Moves(a, step, at[a].op, at[a].obj, at[a].mine)
  BY Zenon, <1>0, <1>2, <1>4, GotoMoves
<1>6. Stage(a) => Down' /\ Alive' = {}
  BY Zenon DEF Stage, Down, Unregister, Alive, table, system
<1>7. Stage(a) => Stage(a)'
  BY Zenon, <1>1, <1>5, <1>6 DEF Stage, Moves
<1> QED BY Zenon, <1>0, <1>1, <1>3, <1>4, <1>5, <1>7, StepOf DEF Unregister, counts

\* The step a failed load goes to is a step.
LEMMA FailedType ==
    ASSUME NEW a \in Actor
    PROVE  LoadFailed(a) \in {"failed", "idle"}
BY Zenon DEF LoadFailed

\* The step Load keeps the invariant.
LEMMA LoadKeeps ==
    ASSUME GatewayInv, NeverCounted', NEW a \in Actor, Load(a)
    PROVE  GatewayInv'
<1>0. Busy(a) /\ TypeOK /\ TableOK
  BY Zenon, TableType DEF GatewayInv, Load, Busy
<1>1. ASSUME loads < MaxLoads, loads' = loads + 1,
             process' = [process EXCEPT ![loads + 1] = "booting"],
             at' = [at EXCEPT ![a].pc = "await", ![a].mine = loads + 1]
      PROVE  GatewayInv'
  <2>1. loads + 1 \in Plugin /\ loads + 1 > loads
    BY <1>0, <1>1, BoundsAssumption DEF TableOK, Plugin
  <2>2. process[loads + 1] = "none"
    BY Zenon, <1>0, <2>1 DEF TableOK, Fresh
  <2>3. loads' \in 0 .. MaxLoads
    BY <1>0, <1>1, BoundsAssumption DEF TableOK
  <2>4. Fresh'
    <3> SUFFICES ASSUME NEW n \in Plugin, n > loads + 1 PROVE process'[n] = "none"
      BY Zenon, <1>1 DEF Fresh
    <3>1. n > loads /\ n # loads + 1
      BY <1>0, BoundsAssumption DEF TableOK, Plugin
    <3> QED BY Zenon, <1>0, <1>1, <3>1 DEF TableOK, Fresh
  <2>5. reaped' \subseteq {n \in Plugin : process'[n] = "exited"}
    BY Zenon, <1>0, <1>1, <2>2 DEF Load, TableOK
  <2>6. TableOK'
    BY Zenon, <1>0, <1>1, <2>1, <2>3, <2>4, <2>5 DEF Load, TableOK, table
  <2>7. "await" \in PC /\ Sound("await", at[a].op, loads + 1)
    BY Zenon, <2>1 DEF PC, Sound
  <2>8. Moves(a, "await", at[a].op, at[a].obj, loads + 1)
    BY Zenon, <1>0, <1>1, <2>1, <2>7, MarkMoves
  <2>9. Stage(a) => Down' /\ Alive' \subseteq {loads + 1}
    <3>1. Stage(a) => Down /\ Alive = {}
      BY Zenon DEF Stage, Load
    <3>2. Alive = {} => Alive' \subseteq {loads + 1}
      BY Zenon, <1>0, <1>1 DEF Alive, TableOK
    <3> QED BY Zenon, <3>1, <3>2 DEF Down, Load, table
  <2>10. Stage(a) => Stage(a)'
    BY Zenon, <2>8, <2>9 DEF Stage, Moves
  <2> QED BY Zenon, <1>0, <2>6, <2>7, <2>8, <2>10, StepOf DEF Load
<1>2. ASSUME Goto(a, LoadFailed(a)), UNCHANGED <<loads, process>>
      PROVE  GatewayInv'
  <2> DEFINE step == LoadFailed(a)
  <2>1. step \in {"failed", "idle"}
    BY Zenon, FailedType
  <2> HIDE DEF step
  <2>2. step \in PC /\ Sound(step, at[a].op, at[a].mine)
    BY Zenon, <2>1 DEF PC, Sound
  <2>3. Moves(a, step, at[a].op, at[a].obj, at[a].mine)
    BY Zenon, <1>0, <1>2, <2>2, GotoMoves DEF step
  <2>4. TableOK'
    BY Zenon, <1>0, <1>2 DEF Load, TableOK, table, Fresh
  <2>5. Stage(a) => Down' /\ Alive' = {}
    BY Zenon, <1>2 DEF Stage, Load, Down, Alive, table
  <2>6. Stage(a) => Rest' /\ (step = "failed" => Stage(a)')
    <3>1. Down' /\ Alive' = {} => Rest'
      BY Zenon DEF Down, Rest
    <3> QED BY Zenon, <2>3, <2>4, <2>5, <3>1 DEF Stage, Moves
  <2> QED BY Zenon, <1>0, <2>1, <2>2, <2>3, <2>4, <2>6, StepOf DEF Load
<1> QED BY Zenon, <1>1, <1>2 DEF Load

\* The step Await keeps the invariant.
LEMMA AwaitKeeps ==
    ASSUME GatewayInv, NeverCounted', NEW a \in Actor, Await(a)
    PROVE  GatewayInv'
<1>0. Busy(a) /\ TypeOK /\ TableOK /\ at[a].mine \in Plugin
  BY Zenon, TableType DEF GatewayInv, Await, Busy, StepOK
<1>1. PICK step \in {"publish", "abort"} : Goto(a, step)
  BY Zenon DEF Await
<1>2. TableOK'
  BY Zenon, <1>0 DEF Await, TableOK, table, system, counts, Fresh
<1>3. step \in PC /\ Sound(step, at[a].op, at[a].mine)
  BY Zenon, <1>0, <1>1 DEF PC, Sound
<1>4. Moves(a, step, at[a].op, at[a].obj, at[a].mine)
  BY Zenon, <1>0, <1>1, <1>3, GotoMoves
<1>5. Stage(a) => Down' /\ Alive' \subseteq {at[a].mine}
  BY Zenon DEF Stage, Await, Down, Alive, table, system
<1>6. Stage(a) => Stage(a)'
  BY Zenon, <1>1, <1>4, <1>5 DEF Stage, Moves
<1> QED BY Zenon, <1>0, <1>1, <1>2, <1>3, <1>4, <1>6, StepOf DEF Await, counts

\* The step Abort keeps the invariant.
LEMMA AbortKeeps ==
    ASSUME GatewayInv, NeverCounted', NEW a \in Actor, Abort(a)
    PROVE  GatewayInv'
<1>0. Busy(a) /\ TypeOK /\ TableOK /\ at[a].mine \in Plugin
  BY Zenon, TableType DEF GatewayInv, Abort, Busy, StepOK
<1> DEFINE step == LoadFailed(a)
<1>1. step \in {"failed", "idle"}
  BY Zenon, FailedType
<1> HIDE DEF step
<1>2. TableOK'
  BY Zenon, <1>0 DEF Abort, TableOK, table, counts, Fresh
<1>3. step \in PC /\ Sound(step, at[a].op, at[a].mine)
  BY Zenon, <1>1 DEF PC, Sound
<1>4. Moves(a, step, at[a].op, at[a].obj, at[a].mine)
  BY Zenon, <1>0, <1>3, GotoMoves DEF Abort, step
<1>5. Stage(a) => Down' /\ Alive' = {}
  BY Zenon DEF Stage, Abort, Down, Alive, table
<1>6. Stage(a) => Rest' /\ (step = "failed" => Stage(a)')
  <2>1. Down' /\ Alive' = {} => Rest'
    BY Zenon DEF Down, Rest
  <2> QED BY Zenon, <1>2, <1>4, <1>5, <2>1 DEF Stage, Moves
<1> QED BY Zenon, <1>0, <1>1, <1>2, <1>3, <1>4, <1>6, StepOf DEF Abort, counts

\* The step Publish keeps the invariant.
LEMMA PublishKeeps ==
    ASSUME GatewayInv, NeverCounted', NEW a \in Actor, Publish(a)
    PROVE  GatewayInv'
<1>0. Busy(a) /\ TypeOK /\ TableOK /\ at[a].mine \in Plugin
  BY Zenon, TableType DEF GatewayInv, Publish, Busy, StepOK
<1>2. TableOK'
  BY Zenon, <1>0 DEF Publish, TableOK, system, counts, Fresh
<1>3. "register" \in PC /\ Sound("register", at[a].op, at[a].mine)
  BY Zenon, <1>0 DEF PC, Sound
<1>4. Moves(a, "register", at[a].op, at[a].obj, at[a].mine)
  BY Zenon, <1>0, <1>3, GotoMoves DEF Publish
<1>5. Stage(a) => /\ entry' = at[a].mine /\ status'[entry'] = "running" /\ entry' \in held'
                  /\ Alive' \subseteq {entry'}
  BY Zenon, <1>0 DEF Stage, Publish, Alive, TableOK, system
<1>6. Stage(a) => Stage(a)'
  BY Zenon, <1>4, <1>5 DEF Stage, Moves
<1> QED BY Zenon, <1>0, <1>2, <1>3, <1>4, <1>6, StepOf DEF Publish, counts

\* The step Register keeps the invariant.
LEMMA RegisterKeeps ==
    ASSUME GatewayInv, NeverCounted', NEW a \in Actor, Register(a)
    PROVE  GatewayInv'
<1>0. Busy(a) /\ TypeOK /\ TableOK /\ at[a].mine \in Plugin
  BY Zenon, TableType DEF GatewayInv, Register, Busy, StepOK
<1>2. TableOK'
  BY Zenon, <1>0 DEF Register, TableOK, table, system, counts, Fresh
<1>3. "idle" \in PC /\ Sound("idle", at[a].op, at[a].mine)
  BY Zenon DEF PC, Sound
<1>4. Moves(a, "idle", at[a].op, at[a].obj, at[a].mine)
  BY Zenon, <1>0, <1>3, GotoMoves DEF Register
<1>5. Stage(a) => Rest'
  BY <1>0 DEF Stage, Register, Rest, Alive, table, system, Plugin
<1> QED BY Zenon, <1>0, <1>2, <1>3, <1>4, <1>5, StepOf DEF Register, counts

\* Every step of stopPlugin and loadPlugin keeps the invariant.
LEMMA StepKeeps ==
    ASSUME GatewayInv, NeverCounted', NEW a \in Actor, Step(a)
    PROVE  GatewayInv'
BY Zenon, MarkKeeps, KillKeeps, RemoveKeeps, UnregisterKeeps, LoadKeeps, AwaitKeeps, AbortKeeps,
   PublishKeeps, RegisterKeeps DEF Step

-----------------------------------------------------------------------------
(* The callers *)

\* The step Call keeps the invariant.
LEMMA CallKeeps ==
    ASSUME GatewayInv, NeverCounted', NEW c \in Caller, Call(c)
    PROVE  GatewayInv'
<1>0. c \in Actor /\ ~Busy(c) /\ TypeOK /\ TableOK
  BY Zenon, TableType DEF GatewayInv, Call, Busy, Actor
<1>1. entry \in {0} \cup Plugin /\ entry # 0
  BY Zenon, <1>0 DEF TableOK, Call
<1>2. calls' \in 0 .. MaxCalls /\ gmu' \in Caller \cup {None}
  <2>1. calls' = calls + 1 /\ calls < MaxCalls /\ (gmu' = gmu \/ gmu' = c)
    BY Zenon DEF Call
  <2> QED BY <1>0, <2>1, BoundsAssumption DEF TableOK
<1>3. TableOK'
  BY Zenon, <1>0, <1>2 DEF Call, TableOK, table, system, Fresh
<1>4. PICK step \in {"mark", "enable"}, o \in {"reload", "enable", "disable", "unload"} :
        Begin(c, o, step, entry) /\ (step = "mark" => o # "enable")
  BY Zenon DEF Call
<1>5. step \in PC \ {"idle", "over"} /\ o \in Op /\ Sound(step, o, 0)
  BY Zenon, <1>4 DEF PC, Op, Sound
<1>6. Rest => Rest'
  BY Zenon DEF Rest, Alive, Call, table, system
<1>7. ASSUME Moves(c, step, o, entry, 0), Rest PROVE Stage(c)'
  BY Zenon, <1>1, <1>4, <1>6, <1>7 DEF Stage, Moves, Call, table
<1> QED BY Zenon, <1>0, <1>1, <1>3, <1>4, <1>5, <1>7, BeginOf

\* The step Enable keeps the invariant.
LEMMA EnableKeeps ==
    ASSUME GatewayInv, NeverCounted', NEW a \in Actor, Enable(a)
    PROVE  GatewayInv'
<1>0. Busy(a) /\ TypeOK /\ TableOK
  BY Zenon, TableType DEF GatewayInv, Enable, Busy
<1> DEFINE step == IF status[at[a].obj] = "disabled" THEN "load" ELSE "idle"
<1>1. step \in {"load", "idle"} /\ (step = "load" => status[at[a].obj] = "disabled")
  BY Zenon
<1>2. Goto(a, step)
  BY Zenon DEF Enable
<1> HIDE DEF step
<1>3. TableOK'
  BY Zenon, <1>0 DEF Enable, TableOK, table, system, counts, Fresh
<1>4. step \in PC /\ Sound(step, at[a].op, at[a].mine)
  BY Zenon, <1>1 DEF PC, Sound
<1>5. Moves(a, step, at[a].op, at[a].obj, at[a].mine)
  BY Zenon, <1>0, <1>2, <1>4, GotoMoves
<1>6. Stage(a) => Rest' /\ (step = "load" => Down' /\ Alive' = {})
  BY Zenon, <1>0, <1>1 DEF Stage, Enable, Down, Rest, Alive, table, system, TableOK
<1>7. Stage(a) => IF step \in {"idle", "over"} THEN Rest' ELSE Stage(a)'
  BY Zenon, <1>1, <1>5, <1>6 DEF Stage, Moves
<1> QED BY Zenon, <1>0, <1>3, <1>4, <1>5, <1>7, StepOf DEF Enable, counts

\* The step Disable keeps the invariant.
LEMMA DisableKeeps ==
    ASSUME GatewayInv, NeverCounted', NEW a \in Actor, Disable(a)
    PROVE  GatewayInv'
<1>0. Busy(a) /\ TypeOK /\ TableOK
  BY Zenon, TableType DEF GatewayInv, Disable, Busy
<1>1. TableOK'
  BY Zenon, <1>0 DEF Disable, TableOK, system, counts, Fresh
<1>2. "idle" \in PC /\ Sound("idle", at[a].op, at[a].mine)
  BY Zenon DEF PC, Sound
<1>3. Moves(a, "idle", at[a].op, at[a].obj, at[a].mine)
  BY Zenon, <1>0, <1>2, GotoMoves DEF Disable
<1>4. Stage(a) => Rest'
  BY Zenon, <1>0 DEF Stage, Disable, Down, Rest, Alive, system, TableOK
<1> QED BY Zenon, <1>0, <1>1, <1>2, <1>3, <1>4, StepOf DEF Disable, counts

\* The step Delete keeps the invariant.
LEMMA DeleteKeeps ==
    ASSUME GatewayInv, NeverCounted', NEW a \in Actor, Delete(a)
    PROVE  GatewayInv'
<1>0. Busy(a) /\ TypeOK /\ TableOK
  BY Zenon, TableType DEF GatewayInv, Delete, Busy
<1>1. TableOK'
  BY Zenon, <1>0 DEF Delete, TableOK, system, counts, Fresh
<1>2. "idle" \in PC /\ Sound("idle", at[a].op, at[a].mine)
  BY Zenon DEF PC, Sound
<1>3. Moves(a, "idle", at[a].op, at[a].obj, at[a].mine)
  BY Zenon, <1>0, <1>2, GotoMoves DEF Delete
<1>4. Stage(a) => Rest'
  BY Zenon, <1>0 DEF Stage, Delete, Down, Rest, Alive, system, TableOK
<1> QED BY Zenon, <1>0, <1>1, <1>2, <1>3, <1>4, StepOf DEF Delete, counts

-----------------------------------------------------------------------------
(* The health check *)

\* The step Tick keeps the invariant.
LEMMA TickKeeps ==
    ASSUME GatewayInv, NeverCounted', Tick
    PROVE  GatewayInv'
<1>0. "health" \in Actor /\ ~Busy("health") /\ TypeOK /\ TableOK
  BY Zenon, TableType DEF GatewayInv, Tick, Busy, Actor
<1>1. entry \in {0} \cup Plugin /\ entry # 0
  BY Zenon, <1>0 DEF TableOK, Tick
<1>2. TableOK'
  BY Zenon, <1>0 DEF Tick, TableOK, table, system, Fresh
<1>3. "check" \in PC \ {"idle", "over"} /\ "check" \in Op /\ Sound("check", "check", 0)
  BY DEF PC, Op, Sound
<1>4. Rest => Rest'
  BY Zenon DEF Rest, Alive, Tick, table, system
<1>5. ASSUME Moves("health", "check", "check", entry, 0), Rest PROVE Stage("health")'
  BY Zenon, <1>1, <1>4, <1>5 DEF Stage, Moves, Tick, table
<1> QED BY Zenon, <1>0, <1>1, <1>2, <1>3, <1>5, BeginOf DEF Tick

\* The step Check keeps the invariant.
LEMMA CheckKeeps ==
    ASSUME GatewayInv, NeverCounted', Check
    PROVE  GatewayInv'
<1>0. /\ "health" \in Actor /\ Busy("health") /\ TypeOK /\ TableOK
      /\ at["health"].op \in {"reload", "disable", "unload", "check", "stop"}
  BY Zenon, TableType DEF GatewayInv, Check, Busy, Actor, StepOK
<1>1. PICK step \in {"ping", "idle"} : Goto("health", step)
  BY Zenon DEF Check
<1>2. TableOK'
  BY Zenon, <1>0 DEF Check, TableOK, table, system, counts, Fresh
<1>3. step \in PC /\ Sound(step, at["health"].op, at["health"].mine)
  BY Zenon, <1>0, <1>1 DEF PC, Sound
<1>4. Moves("health", step, at["health"].op, at["health"].obj, at["health"].mine)
  BY Zenon, <1>0, <1>1, <1>3, GotoMoves
<1>5. Stage("health") => Rest' /\ entry' # 0 /\ at["health"].obj = entry'
  BY Zenon DEF Stage, Check, Rest, Alive, table, system
<1>6. Stage("health") => IF step \in {"idle", "over"} THEN Rest' ELSE Stage("health")'
  BY Zenon, <1>1, <1>4, <1>5 DEF Stage, Moves
<1> QED BY Zenon, <1>0, <1>2, <1>3, <1>4, <1>6, StepOf DEF Check, counts

\* RestartCount is below the limit, so a failed ping always restarts the entry.
LEMMA PingKeeps ==
    ASSUME GatewayInv, NeverCounted', Ping
    PROVE  GatewayInv'
<1>0. /\ "health" \in Actor /\ Busy("health") /\ TypeOK /\ TableOK
      /\ at["health"].op \in {"reload", "disable", "unload", "check", "stop"}
  BY Zenon, TableType DEF GatewayInv, Ping, Busy, Actor, StepOK
<1>1. PICK step \in {"idle", "mark", "failed"} :
        Goto("health", step) /\ (step = "failed" => ~shouldRestart(at["health"].obj))
  BY Zenon DEF Ping
<1>2. TableOK'
  BY Zenon, <1>0 DEF Ping, TableOK, table, system, counts, Fresh
<1>3. step \in PC /\ Sound(step, at["health"].op, at["health"].mine)
  BY Zenon, <1>0, <1>1 DEF PC, Sound
<1>4. Moves("health", step, at["health"].op, at["health"].obj, at["health"].mine)
  BY Zenon, <1>0, <1>1, <1>3, GotoMoves
<1>5. Stage("health") => Rest' /\ entry' # 0 /\ at["health"].obj = entry'
  BY Zenon DEF Stage, Ping, Rest, Alive, table, system
<1>6. Stage("health") => step # "failed"
  <2>1. Stage("health") => at["health"].obj \in Plugin
    BY Zenon, <1>0 DEF Stage, Ping, TableOK
  <2>2. at["health"].obj \in Plugin => shouldRestart(at["health"].obj)
    BY BoundsAssumption DEF GatewayInv, NeverCounted, shouldRestart
  <2> QED BY Zenon, <1>1, <2>1, <2>2
<1>7. Stage("health") => IF step \in {"idle", "over"} THEN Rest' ELSE Stage("health")'
  BY Zenon, <1>1, <1>4, <1>5, <1>6 DEF Stage, Moves
<1> QED BY Zenon, <1>0, <1>2, <1>3, <1>4, <1>7, StepOf DEF Ping, counts

\* The step Backoff keeps the invariant.
LEMMA BackoffKeeps ==
    ASSUME GatewayInv, NeverCounted', Backoff
    PROVE  GatewayInv'
<1>0. "health" \in Actor /\ Busy("health") /\ TypeOK /\ TableOK
  BY Zenon, TableType DEF GatewayInv, Backoff, Busy, Actor
<1>1. PICK step \in {"idle", "load"} : Goto("health", step)
  BY Zenon DEF Backoff
<1>2. TableOK'
  BY Zenon, <1>0 DEF Backoff, TableOK, table, system, counts, Fresh
<1>3. step \in PC /\ Sound(step, at["health"].op, at["health"].mine)
  BY Zenon, <1>1 DEF PC, Sound
<1>4. Moves("health", step, at["health"].op, at["health"].obj, at["health"].mine)
  BY Zenon, <1>0, <1>1, <1>3, GotoMoves
<1>5. Stage("health") => Rest' /\ Down' /\ Alive' = {}
  BY Zenon DEF Stage, Backoff, Down, Rest, Alive, table, system
<1>6. Stage("health") => IF step \in {"idle", "over"} THEN Rest' ELSE Stage("health")'
  BY Zenon, <1>1, <1>4, <1>5 DEF Stage, Moves
<1> QED BY Zenon, <1>0, <1>2, <1>3, <1>4, <1>6, StepOf DEF Backoff, counts

\* The step Failed keeps the invariant.
LEMMA FailedKeeps ==
    ASSUME GatewayInv, NeverCounted', Failed
    PROVE  GatewayInv'
<1>0. "health" \in Actor /\ Busy("health") /\ TypeOK /\ TableOK
  BY Zenon, TableType DEF GatewayInv, Failed, Busy, Actor
<1>1. TableOK'
  BY Zenon, <1>0 DEF Failed, TableOK, system, counts, Fresh
<1>2. "idle" \in PC /\ Sound("idle", at["health"].op, at["health"].mine)
  BY Zenon DEF PC, Sound
<1>3. Moves("health", "idle", at["health"].op, at["health"].obj, at["health"].mine)
  BY Zenon, <1>0, <1>2, GotoMoves DEF Failed
<1>4. Stage("health") => Rest'
  BY Zenon, <1>0 DEF Stage, Failed, Down, Rest, Alive, system, TableOK
<1> QED BY Zenon, <1>0, <1>1, <1>2, <1>3, <1>4, StepOf DEF Failed, counts

\* The step HealthOver keeps the invariant.
LEMMA HealthOverKeeps ==
    ASSUME GatewayInv, NeverCounted', HealthOver
    PROVE  GatewayInv'
<1>0. "health" \in Actor /\ ~Busy("health") /\ TypeOK /\ TableOK
  BY Zenon, TableType DEF GatewayInv, HealthOver, Busy, Actor
<1>1. TableOK' /\ overlap' = overlap /\ overlap' \in BOOLEAN
  BY Zenon, <1>0 DEF HealthOver, TableOK, TypeOK, table, system, counts, Fresh
<1>2. "over" \in PC /\ Sound("over", at["health"].op, at["health"].mine)
  BY Zenon DEF PC, Sound
<1>3. Moves("health", "over", at["health"].op, at["health"].obj, at["health"].mine)
  BY Zenon, <1>0, <1>2, GotoMoves DEF HealthOver
<1>4. TypeOK' /\ \A b \in Actor : StepOK(b)'
  BY Zenon, <1>0, <1>1, <1>2, <1>3, TypesOf
<1>5. \A b \in Actor : Busy(b)' <=> Busy(b)
  BY Zenon, <1>0, <1>3 DEF Moves, Busy
<1>6. \A b \in Actor : Busy(b) /\ Stage(b) => Stage(b)'
  <2> SUFFICES ASSUME NEW b \in Actor, Busy(b), Stage(b) PROVE Stage(b)'
    BY Zenon
  <2>1. at'[b] = at[b]
    BY Zenon, <1>0, <1>3 DEF Moves
  <2>2. (Rest' <=> Rest) /\ (Down' <=> Down) /\ Alive' = Alive
    BY Zenon DEF Rest, Down, Alive, HealthOver, table, system
  <2> QED BY Zenon, <2>1, <2>2 DEF Stage, HealthOver, table
<1>7. Rest => Rest'
  BY Zenon DEF Rest, Alive, HealthOver, table, system
<1>8. Sequential'
  BY Zenon, <1>1, <1>5, <1>6, <1>7 DEF GatewayInv, Sequential, OneBusy, AtRest
<1> QED BY Zenon, <1>1, <1>4, <1>8 DEF GatewayInv, TableOK

-----------------------------------------------------------------------------
(* Stop *)

\* The step StopCancel keeps the invariant.
LEMMA StopCancelKeeps ==
    ASSUME GatewayInv, NeverCounted', StopCancel
    PROVE  GatewayInv'
<1>0. "main" \in Actor /\ ~Busy("main") /\ TypeOK /\ TableOK
  BY Zenon, TableType DEF GatewayInv, StopCancel, Busy, Actor
<1>1. TableOK'
  BY Zenon, <1>0 DEF StopCancel, TableOK, table, system, Fresh
<1>2. "snapshot" \in PC \ {"idle", "over"} /\ "stop" \in Op /\ Sound("snapshot", "stop", 0)
  BY Zenon DEF PC, Op, Sound
<1>3. Rest => Rest'
  BY Zenon DEF Rest, Alive, StopCancel, table, system
<1>4. ASSUME Moves("main", "snapshot", "stop", 0, 0), Rest PROVE Stage("main")'
  BY Zenon, <1>3, <1>4 DEF Stage, Moves
<1> QED BY Zenon, <1>0, <1>1, <1>2, <1>4, BeginOf DEF StopCancel

\* The step StopSnapshot keeps the invariant.
LEMMA StopSnapshotKeeps ==
    ASSUME GatewayInv, NeverCounted', StopSnapshot
    PROVE  GatewayInv'
<1>0. /\ "main" \in Actor /\ Busy("main") /\ TypeOK /\ TableOK
      /\ at["main"].op \in {"reload", "disable", "unload", "check", "stop"}
  BY Zenon, TableType DEF GatewayInv, StopSnapshot, Busy, Actor, StepOK
<1> DEFINE step == IF entry = 0 THEN "join" ELSE "mark"
<1>1. step \in {"join", "mark"} /\ (step = "join" <=> entry = 0)
  BY Zenon
<1>2. at' = [at EXCEPT !["main"].pc = step, !["main"].obj = entry]
  BY Zenon DEF StopSnapshot
<1> HIDE DEF step
<1>3. TableOK'
  BY Zenon, <1>0 DEF StopSnapshot, TableOK, table, system, counts, Fresh
<1>4. step \in PC /\ Sound(step, at["main"].op, at["main"].mine)
  BY Zenon, <1>0, <1>1 DEF PC, Sound
<1>5. Moves("main", step, at["main"].op, entry, at["main"].mine)
  <2>0. at \in [Actor -> Record] /\ entry \in {0} \cup Plugin
    BY Zenon, <1>0 DEF TypeOK, Record
  <2>1. /\ [at["main"] EXCEPT !.pc = step, !.obj = entry] \in Record
        /\ [at["main"] EXCEPT !.pc = step, !.obj = entry].pc = step
        /\ [at["main"] EXCEPT !.pc = step, !.obj = entry].op = at["main"].op
        /\ [at["main"] EXCEPT !.pc = step, !.obj = entry].obj = entry
        /\ [at["main"] EXCEPT !.pc = step, !.obj = entry].mine = at["main"].mine
    BY Zenon, <1>0, <1>4, <2>0 DEF Record
  <2>2. at' = [at EXCEPT !["main"] = [at["main"] EXCEPT !.pc = step, !.obj = entry]]
    BY Zenon, <1>0, <1>2, <2>0 DEF Record
  <2> QED BY Zenon, <1>0, <2>0, <2>1, <2>2 DEF Moves
<1>6. Stage("main") => Rest' /\ (entry = 0 => Down' /\ Alive' = {})
  BY DEF Stage, StopSnapshot, Rest, Down, Alive, table, system, Plugin
<1>7. Stage("main") => Stage("main")'
  BY Zenon, <1>1, <1>5, <1>6 DEF Stage, Moves, StopSnapshot, table
<1> QED BY Zenon, <1>0, <1>1, <1>3, <1>4, <1>5, <1>7, StepOf DEF StopSnapshot, counts

\* The step StopJoin keeps the invariant.
LEMMA StopJoinKeeps ==
    ASSUME GatewayInv, NeverCounted', StopJoin
    PROVE  GatewayInv'
<1>0. "main" \in Actor /\ Busy("main") /\ TypeOK /\ TableOK
  BY Zenon, TableType DEF GatewayInv, StopJoin, Busy, Actor
<1>1. TableOK'
  BY Zenon, <1>0 DEF StopJoin, TableOK, system, counts, Fresh
<1>2. "over" \in PC /\ Sound("over", at["main"].op, at["main"].mine)
  BY Zenon DEF PC, Sound
<1>3. Moves("main", "over", at["main"].op, at["main"].obj, at["main"].mine)
  BY Zenon, <1>0, <1>2, GotoMoves DEF StopJoin
<1>4. Stage("main") => Rest'
  BY Zenon DEF Stage, StopJoin, Down, Rest, Alive, system
<1> QED BY Zenon, <1>0, <1>1, <1>2, <1>3, <1>4, StepOf DEF StopJoin, counts

-----------------------------------------------------------------------------
(* The processes *)

\* A plugin process that binds its socket, or ends, keeps the invariant.
LEMMA ProcessKeeps ==
    ASSUME GatewayInv, NeverCounted', NEW n \in Plugin, Listen(n) \/ Exit(n)
    PROVE  GatewayInv'
<1>0. TypeOK /\ TableOK
  BY Zenon, TableType DEF GatewayInv
<1>1. /\ process[n] \in {"booting", "listening"}
      /\ process' = [process EXCEPT ![n] = "listening"] \/ process' = [process EXCEPT ![n] = "exited"]
      /\ sock' \in {0} \cup Plugin
  BY Zenon, <1>0 DEF Listen, Exit, TableOK
<1>2. UNCHANGED <<entry, status, held, gmu, reaped, registered, ctxDone, at, loads, calls, overlap>>
  BY Zenon DEF Listen, Exit, table, counts
<1>3. Alive' \subseteq Alive
  BY Zenon, <1>0, <1>1 DEF Alive, TableOK
<1>4. TableOK'
  <2>1. reaped' \subseteq {m \in Plugin : process'[m] = "exited"} /\ Fresh'
    BY Zenon, <1>0, <1>1, <1>2 DEF TableOK, Fresh
  <2> QED BY Zenon, <1>0, <1>1, <1>2, <2>1 DEF TableOK
<1>5. restartCount' \in [Plugin -> 0 .. MaxRestarts]
  BY BoundsAssumption DEF NeverCounted
<1>6. TypeOK'
  BY Zenon, <1>0, <1>2, <1>4, <1>5 DEF TypeOK, TableOK
<1>7. \A b \in Actor : StepOK(b)'
  BY Zenon, <1>2 DEF GatewayInv, StepOK
<1>8. (Rest => Rest') /\ (Down' <=> Down)
  BY Zenon, <1>2, <1>3 DEF Rest, Down
<1>9. \A b \in Actor : (Busy(b)' <=> Busy(b)) /\ (Stage(b) => Stage(b)')
  BY <1>2, <1>3, <1>8 DEF Busy, Stage
<1>10. Sequential'
  BY Zenon, <1>2, <1>8, <1>9 DEF GatewayInv, Sequential, OneBusy, AtRest
<1> QED BY Zenon, <1>4, <1>6, <1>7, <1>10 DEF GatewayInv, TableOK

-----------------------------------------------------------------------------
(* The theorems *)

\* Every step of the gateway keeps the invariant.
LEMMA GatewayStep == GatewayInv /\ [Next]_vars => GatewayInv'
<1> SUFFICES ASSUME GatewayInv, [Next]_vars PROVE GatewayInv'
  BY Zenon
<1>0. NeverCounted' /\ "main" \in Actor /\ "health" \in Actor /\ Caller \subseteq Actor
  BY Zenon, CountStep DEF GatewayInv, Actor
<1>1. ASSUME NEW c \in Caller, Call(c) \/ CallerStep(c) PROVE GatewayInv'
  BY Zenon, <1>0, <1>1, CallKeeps, StepKeeps, EnableKeeps, DisableKeeps, DeleteKeeps DEF CallerStep
<1>2. CASE HealthStep
  BY Zenon, <1>0, <1>2, StepKeeps, TickKeeps, CheckKeeps, PingKeeps, BackoffKeeps, FailedKeeps, HealthOverKeeps
  DEF HealthStep
<1>3. CASE StopCancel \/ MainStep
  BY Zenon, <1>0, <1>3, StepKeeps, StopCancelKeeps, StopSnapshotKeeps, StopJoinKeeps DEF MainStep
<1>4. ASSUME NEW n \in Plugin, Listen(n) \/ Exit(n) PROVE GatewayInv'
  BY Zenon, <1>0, <1>4, ProcessKeeps
<1>5. CASE UNCHANGED vars
  BY <1>5 DEF vars, GatewayInv, TypeOK, Fresh, NeverCounted, StepOK, Sequential, OneBusy, AtRest, Busy,
     Stage, Rest, Down, Alive
<1> QED BY Zenon, <1>1, <1>2, <1>3, <1>4, <1>5 DEF Next, Terminated

\* The inductive invariant holds in every state of the gateway.
LEMMA GatewayAlways == Spec => []GatewayInv
BY GatewayStarts, GatewayStep, PTL DEF Spec

\* The gateway's variables keep their types.
THEOREM GatewayTypeCorrect == Spec => []TypeOK
<1>1. GatewayInv => TypeOK
  BY Zenon DEF GatewayInv
<1> QED BY <1>1, GatewayAlways, PTL

\* However many loads, restarts and calls there are, while they do not overlap
\* stopPlugin and loadPlugin never leave two processes, and none outside the map.
THEOREM OneProcessCorrect == Spec => []OneProcess
<1>1. GatewayInv => OneProcess
  <2> SUFFICES ASSUME GatewayInv, ~overlap
               PROVE  /\ Cardinality(Alive) <= 1
                      /\ AtRest => \A n \in Alive : entry = n /\ status[n] = "running" /\ n \in held
    BY Zenon DEF OneProcess
  <2>1. ASSUME NEW x, Alive \subseteq {x} PROVE Cardinality(Alive) <= 1
    <3>1. IsFiniteSet({x}) /\ Cardinality({x}) = 1
      BY Zenon, FS_Singleton
    <3>2. Cardinality(Alive) <= Cardinality({x})
      BY Zenon, <2>1, <3>1, FS_Subset
    <3> QED BY Zenon, <3>1, <3>2
  <2>2. CASE AtRest
    <3>1. Rest
      BY Zenon, <2>2 DEF GatewayInv, Sequential
    <3>2. Alive \subseteq {entry}
      BY Zenon, <3>1 DEF Rest
    <3> QED BY Zenon, <2>1, <3>1, <3>2 DEF Rest
  <2>3. CASE ~AtRest
    <3>1. PICK a \in Actor : Busy(a) /\ Stage(a)
      BY Zenon, <2>3 DEF GatewayInv, Sequential, AtRest
    <3>2. at[a].pc \in PC
      BY Zenon DEF GatewayInv, TypeOK
    <3>3. Alive \subseteq {entry} \/ Alive \subseteq {at[a].mine}
      BY Zenon, <3>1, <3>2 DEF Stage, Busy, Rest, PC
    <3> QED BY Zenon, <2>1, <2>3, <3>3
  <2> QED BY Zenon, <2>2, <2>3
<1> QED BY <1>1, GatewayAlways, PTL

\* While operations do not overlap, onLoaded and onUnloaded keep the dispatcher's
\* task types in step with the plugin's status.
THEOREM HandlersCorrect == Spec => []HandlersMatch
<1>1. GatewayInv => HandlersMatch
  BY Zenon DEF GatewayInv, Sequential, Rest, HandlersMatch
<1> QED BY <1>1, GatewayAlways, PTL

=============================================================================
