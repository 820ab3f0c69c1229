---------------------------- MODULE AgentProofs -----------------------------
(***************************************************************************)
(* Proofs about the agent's own goroutine: the reload of its               *)
(* configuration, for any configuration and any number of reloads, and the *)
(* tasks it starts, for any finite set of requests, any ids, any capacity  *)
(* of the sandbox and any number of messages.                              *)
(***************************************************************************)
EXTENDS ConfigReload, AgentTasks, FiniteSetTheorems, TLAPS

\* The prover of every leaf that names none.
USE SMTT(30)

-----------------------------------------------------------------------------
(* The reload of the configuration *)

\* The value a reload is about to give section s.
Target(s) == parseYAMLConfig(job.yaml)[s]

\* While a reload is applied, the reloaders before job.i have run and the others
\* have not: a section runs with its new value exactly when its reloader comes
\* before job.i, and only those can be in applied.  Only the collector and
\* authentication can fail, so a rollback has nothing but the collector to undo.
Progress ==
    /\ job.pc = "idle" => /\ eff["auth"] = current["auth"]
                          /\ eff["prometheus"] = current["prometheus"]
                          /\ eff["collector"] \in {current["collector"], "stopped"}
    /\ job.pc = "apply" =>
        /\ Validate(NewCfg) /\ NewCfg["fixed"] = current["fixed"]
        /\ eff["collector"] \in {IF job.i > 1 THEN Target("collector") ELSE current["collector"], "stopped"}
        /\ job.i > 1 /\ Target("collector") # current["collector"] =>
              eff["collector"] = Target("collector") /\ Len(job.applied) > 0
        /\ eff["auth"] = (IF job.i > 2 THEN Target("auth") ELSE current["auth"])
        /\ eff["prometheus"] = (IF job.i > 3 THEN Target("prometheus") ELSE current["prometheus"])
        /\ Len(job.applied) < job.i
        /\ job.i <= 2 => \A k \in 1 .. Len(job.applied) : job.applied[k] = "collector"
    /\ job.pc = "rollback" =>
        /\ eff["auth"] = current["auth"] /\ eff["prometheus"] = current["prometheus"]
        /\ \A k \in 1 .. Len(job.applied) : job.applied[k] = "collector"
        /\ eff["collector"] \in {current["collector"], "stopped"} \/ Len(job.applied) > 0

\* The record of the reload in progress has the fields of Idle.
JobOK == job \in [pc : {"idle", "apply", "rollback"}, yaml : Yaml,
                  i : 1 .. 5, applied : Seq(Section)]

\* The inductive invariant.
ReloadInv ==
    /\ ReloadTypeOK /\ JobOK
    /\ eff["fixed"] = current["fixed"]
    /\ Progress

-----------------------------------------------------------------------------

\* A parsed configuration has a value in every section.
LEMMA ParseType ==
    ASSUME NEW y \in Yaml PROVE parseYAMLConfig(y) \in [Section -> Value]
BY Zenon DEF parseYAMLConfig, Yaml, Section, Value

\* The texts a reload can bring are YAML texts.
LEMMA EditedType == ASSUME file \in Yaml PROVE Edited \subseteq Yaml
BY DEF Edited, Yaml, Section, Value

\* Between reloads the record is well formed.
LEMMA IdleType ==
    /\ Idle \in [pc : {"idle", "apply", "rollback"}, yaml : Yaml, i : 1 .. 5, applied : Seq(Section)]
    /\ Idle.pc = "idle" /\ Idle.yaml \in Yaml /\ Idle.i = 1
    /\ Idle.applied = << >> /\ Idle.applied \in Seq(Section) /\ Len(Idle.applied) = 0
<1>1. [s \in Section |-> "default"] \in Yaml
  BY Zenon DEF Yaml, Value
<1> QED BY <1>1 DEF Idle

\* The agent starts with the invariant.
LEMMA ReloadStarts == ReloadInit => ReloadInv
<1> SUFFICES ASSUME ReloadInit PROVE ReloadInv
  BY Zenon
<1>1. file \in Yaml
  BY Zenon DEF ReloadInit, Yaml, Section, Value
<1>2. current \in [Section -> Value]
  BY Zenon, <1>1 DEF ReloadInit, Load, Yaml, Section, Value
<1>3. ReloadTypeOK /\ JobOK
  BY <1>1, <1>2, IdleType, ReloadAssumption DEF ReloadInit, ReloadTypeOK, JobOK, reloaders
<1> QED BY Zenon, <1>2, <1>3 DEF ReloadInit, ReloadInv, Progress, Idle, Section

\* Apply, which either rejects the text or begins to apply it.
LEMMA ApplyKeeps ==
    ASSUME ReloadInv, NEW y \in Yaml, Apply(y), file' \in Yaml
    PROVE  ReloadInv'
<1>1. CASE UNCHANGED job /\ result' = "rejected"
  BY <1>1, ReloadAssumption
     DEF Apply, ReloadInv, ReloadTypeOK, JobOK, Progress, Target, NewCfg
<1>2. CASE /\ job' = [Idle EXCEPT !.pc = "apply", !.yaml = y] /\ UNCHANGED result
           /\ Validate(parseYAMLConfig(y)) /\ ~NonReloadable(current, parseYAMLConfig(y))
  <2>1. /\ job'.pc = "apply" /\ job'.yaml = y /\ job'.i = 1 /\ job'.applied = << >>
        /\ job' = [pc |-> "apply", yaml |-> y, i |-> 1, applied |-> << >>]
    BY Zenon, <1>2 DEF Idle
  <2>2. ReloadTypeOK' /\ JobOK'
    BY <2>1, <1>2, ReloadAssumption DEF Apply, ReloadInv, ReloadTypeOK, JobOK, reloaders
  <2>3. parseYAMLConfig(y)["fixed"] = current["fixed"]
    BY Zenon, <1>2 DEF NonReloadable, Changed, Section
  <2>4. Progress'
    BY <1>2, <2>1, <2>3 DEF Apply, ReloadInv, Progress, Target, NewCfg
  <2> QED BY Zenon, <2>2, <2>4 DEF Apply, ReloadInv
<1> QED BY Zenon, <1>1, <1>2 DEF Apply

\* Every step keeps the invariant.
LEMMA ReloadKeeps == ReloadInv /\ [ReloadNext]_reloadVars => ReloadInv'
<1> SUFFICES ASSUME ReloadInv, [ReloadNext]_reloadVars PROVE ReloadInv'
  BY Zenon
<1>0. file \in Yaml /\ Edited \subseteq Yaml
  BY Zenon, EditedType DEF ReloadInv, ReloadTypeOK
<1>a. NewCfg \in [Section -> Value] /\ \A s \in Section : Target(s) = NewCfg[s]
  BY Zenon, ParseType DEF NewCfg, Target, ReloadInv, JobOK
<1>b. /\ reloaders[1] = "collector" /\ reloaders[2] = "auth"
      /\ reloaders[3] = "prometheus" /\ reloaders[4] = "reporter"
      /\ Len(reloaders) = 4
  BY Zenon DEF reloaders
<1>1. CASE ReloadBySignal
  BY Zenon, <1>1, <1>0, ApplyKeeps DEF ReloadBySignal
<1>2. CASE ReloadByPlatform
  BY Zenon, <1>2, <1>0, ApplyKeeps DEF ReloadByPlatform
<1>3. CASE SkipReloader
  <2>1. job' = [job EXCEPT !.i = job.i + 1] /\ job.i \in 1 .. 4 /\ job.pc = "apply"
    BY <1>3, <1>b DEF SkipReloader, ReloadInv, JobOK
  <2>2. ReloadTypeOK' /\ JobOK'
    BY <1>3, <1>b, <2>1 DEF SkipReloader, ReloadInv, ReloadTypeOK, JobOK
  <2>3. NewCfg[reloaders[job.i]] = current[reloaders[job.i]]
    BY <1>3, <1>b, <2>1 DEF SkipReloader, CanReload, Reloader, Changed, Section
  <2>4. Progress'
    BY <1>3, <1>a, <1>b, <2>1, <2>3
       DEF SkipReloader, ReloadInv, ReloadTypeOK, JobOK, Progress, Target, NewCfg, Section
  <2> QED BY Zenon, <1>3, <2>2, <2>4 DEF SkipReloader, ReloadInv
<1>4. CASE ApplyReloader
  <2> DEFINE s == reloaders[job.i]
  <2>1. /\ job' = [job EXCEPT !.i = job.i + 1, !.applied = Append(job.applied, s)]
        /\ job.i \in 1 .. 4 /\ job.pc = "apply" /\ s \in Section
    BY <1>4, <1>b DEF ApplyReloader, Reloader, ReloadInv, JobOK, Section
  <2>2. /\ job'.pc = "apply" /\ job'.yaml = job.yaml /\ job'.i = job.i + 1
        /\ job'.applied = Append(job.applied, s)
    BY Zenon, <2>1 DEF ReloadInv, JobOK
  <2>3. Len(job.applied) < job.i /\ Len(job'.applied) = Len(job.applied) + 1
    BY <2>1, <2>2 DEF ReloadInv, JobOK, Progress
  <2>4. eff' \in [Section -> Value \cup {"stopped"}]
    BY Zenon, <1>4, <1>a, <2>1 DEF ApplyReloader, Reloader, ReloadInv, ReloadTypeOK
  <2>a. job'.applied \in Seq(Section) /\ job'.i \in 1 .. 5 /\ Len(job'.applied) <= 4
    BY <2>1, <2>2, <2>3 DEF ReloadInv, JobOK
  <2>b. JobOK'
    BY Zenon, <2>1, <2>a DEF ReloadInv, JobOK
  <2>5. ReloadTypeOK' /\ JobOK'
    BY <1>4, <1>b, <2>2, <2>4, <2>a, <2>b
       DEF ApplyReloader, ReloadInv, ReloadTypeOK
  <2>6. /\ \A t \in Section \ {s} : eff'[t] = eff[t]
        /\ s # "reporter" => eff'[s] = NewCfg[s]
    BY Zenon, <1>4, <2>1 DEF ApplyReloader, Reloader, ReloadInv, ReloadTypeOK
  <2>7. job.i = 1 => \A k \in 1 .. Len(job'.applied) : job'.applied[k] = "collector"
    BY <1>b, <2>1, <2>2, <2>3 DEF ReloadInv, JobOK, Progress
  <2>8. Progress'
    BY <1>4, <1>a, <1>b, <2>1, <2>2, <2>3, <2>6, <2>7
       DEF ApplyReloader, ReloadInv, Progress, Target, NewCfg, Section
  <2>9. eff'["fixed"] = current'["fixed"]
    BY <1>4, <1>b, <2>1, <2>6 DEF ApplyReloader, ReloadInv, Section
  <2> QED BY Zenon, <2>5, <2>8, <2>9 DEF ReloadInv
<1>5. CASE ReloaderFails
  <2>1. /\ job' = [job EXCEPT !.pc = "rollback"] /\ job.i \in 1 .. 2 /\ job.pc = "apply"
        /\ job'.pc = "rollback" /\ job'.yaml = job.yaml /\ job'.i = job.i /\ job'.applied = job.applied
    BY <1>5, <1>b DEF ReloaderFails, Reloader, ReloadInv, JobOK
  <2>2. ReloadTypeOK' /\ JobOK'
    BY <1>5, <2>1 DEF ReloaderFails, ReloadInv, ReloadTypeOK, JobOK, Section
  <2>3. eff'["collector"] = "stopped" \/ (job.i = 2 /\ eff' = eff)
    BY <1>5, <1>b, <2>1 DEF ReloaderFails, Reloader, ReloadInv, ReloadTypeOK, Section
  <2>4. \A t \in Section \ {"collector"} : eff'[t] = eff[t]
    BY Zenon, <1>5 DEF ReloaderFails, ReloadInv, ReloadTypeOK
  <2>5. Progress'
    BY <1>5, <2>1, <2>3, <2>4 DEF ReloaderFails, ReloadInv, Progress, Target, Section
  <2> QED BY Zenon, <1>5, <2>2, <2>4, <2>5 DEF ReloaderFails, ReloadInv, Section
<1>6. CASE RollbackOne
  <2>1. /\ job.pc = "rollback" /\ Len(job.applied) \in Nat \ {0}
        /\ job.applied[Len(job.applied)] = "collector"
        /\ job' = [job EXCEPT !.applied = SubSeq(job.applied, 1, Len(job.applied) - 1)]
    BY <1>6 DEF RollbackOne, ReloadInv, JobOK, Progress
  <2>2. /\ job'.pc = "rollback" /\ job'.yaml = job.yaml /\ job'.i = job.i
        /\ job'.applied = SubSeq(job.applied, 1, Len(job.applied) - 1)
    BY Zenon, <2>1 DEF ReloadInv, JobOK
  <2>3. /\ job'.applied \in Seq(Section) /\ Len(job'.applied) = Len(job.applied) - 1
        /\ \A k \in 1 .. Len(job'.applied) : job'.applied[k] = "collector"
    <3> DEFINE n == Len(job.applied) - 1
    <3>1. n \in Nat /\ \A k \in 1 .. n : job.applied[k] \in Section /\ job.applied[k] = "collector"
      BY <2>1 DEF ReloadInv, JobOK, Progress, Section
    <3>2. /\ job'.applied \in Seq(Section)
          /\ Len(job'.applied) = IF 1 <= n THEN n - 1 + 1 ELSE 0
          /\ \A k \in 1 .. n - 1 + 1 : job'.applied[k] = job.applied[1 + k - 1]
      BY <2>2, <3>1
    <3> QED BY <3>1, <3>2
  <2>4. /\ eff' = [eff EXCEPT !["collector"] = current["collector"]]
           \/ eff' = [eff EXCEPT !["collector"] = "stopped"]
        /\ UNCHANGED <<file, current, result, reloads>>
    BY Zenon, <1>6, <2>1 DEF RollbackOne
  <2>a. JobOK'
    BY Zenon, <2>1, <2>2, <2>3 DEF ReloadInv, JobOK
  <2>b. eff' \in [Section -> Value \cup {"stopped"}]
    BY <2>4 DEF ReloadInv, ReloadTypeOK, Section
  <2>5. ReloadTypeOK' /\ JobOK'
    BY <1>b, <2>1, <2>2, <2>3, <2>4, <2>a, <2>b DEF ReloadInv, ReloadTypeOK
  <2>6. Progress' /\ eff'["fixed"] = current'["fixed"]
    BY <2>1, <2>2, <2>3, <2>4 DEF ReloadInv, ReloadTypeOK, Progress, Section
  <2> QED BY Zenon, <2>5, <2>6 DEF ReloadInv
<1>7. CASE RollbackEnds
  <2>1. ReloadTypeOK' /\ JobOK'
    BY <1>7, <1>b, IdleType DEF RollbackEnds, ReloadInv, ReloadTypeOK, JobOK
  <2>2. Progress'
    BY <1>7 DEF RollbackEnds, ReloadInv, Progress, Idle
  <2> QED BY Zenon, <1>7, <2>1, <2>2 DEF RollbackEnds, ReloadInv
<1>8. CASE Commit
  <2>1. ReloadTypeOK' /\ JobOK'
    BY <1>8, <1>a, <1>b, IdleType DEF Commit, ReloadInv, ReloadTypeOK, JobOK
  <2>2. job.i = 5 /\ job.pc = "apply"
    BY <1>8, <1>b DEF Commit, ReloadInv, JobOK
  <2>3. Progress' /\ eff'["fixed"] = current'["fixed"]
    BY <1>8, <1>a, <2>2 DEF Commit, ReloadInv, Progress, Target, Idle, Section
  <2> QED BY Zenon, <2>1, <2>3 DEF ReloadInv
<1>9. CASE ReloadsOver \/ UNCHANGED reloadVars
  BY Zenon, <1>9 DEF ReloadsOver, reloadVars, ReloadInv, ReloadTypeOK, JobOK, Progress, Target, NewCfg
<1> QED
  BY Zenon, <1>1, <1>2, <1>3, <1>4, <1>5, <1>6, <1>7, <1>8, <1>9 DEF ReloadNext

-----------------------------------------------------------------------------

\* The invariant holds in every state.
LEMMA ReloadInvariant == ReloadSpec => []ReloadInv
<1>1. ReloadInit => ReloadInv
  BY Zenon, ReloadStarts
<1>2. ReloadInv /\ [ReloadNext]_reloadVars => ReloadInv'
  BY Zenon, ReloadKeeps
<1> QED BY <1>1, <1>2, PTL DEF ReloadSpec

\* Every variable keeps its type: in particular a reload never records more
\* applied reloaders than there are.
THEOREM ReloadTypeCorrect == ReloadSpec => []ReloadTypeOK
<1>1. ReloadInv => ReloadTypeOK
  BY Zenon DEF ReloadInv
<1> QED BY <1>1, ReloadInvariant, PTL

\* Whatever reloads came and whichever failed, between reloads the server's
\* authentication, its metrics endpoint and the fixed sections run with
\* r.current, and so does the collector unless it is stopped.
THEOREM InForceCorrect == ReloadSpec => []InForce
<1>1. ReloadInv => InForce
  BY Zenon DEF ReloadInv, Progress, InForce
<1> QED BY <1>1, ReloadInvariant, PTL

\* No number of reloads, failures and rollbacks switches authentication off.
THEOREM AuthCorrect == ReloadSpec => AuthStaysOn
<1>1. ReloadInv /\ [ReloadNext]_reloadVars => [eff["auth"] # "zero" => eff'["auth"] # "zero"]_reloadVars
  <2> SUFFICES ASSUME ReloadInv, ReloadNext, eff["auth"] # "zero" PROVE eff'["auth"] # "zero"
    BY Zenon
  <2>1. CASE ApplyReloader
    BY Zenon, <2>1 DEF ApplyReloader, ReloadInv, ReloadTypeOK, Section
  <2>2. CASE ReloaderFails
    BY Zenon, <2>2 DEF ReloaderFails, ReloadInv, ReloadTypeOK, Section
  <2>3. CASE RollbackOne
    <3>1. job.applied[Len(job.applied)] = "collector"
      BY <2>3 DEF RollbackOne, ReloadInv, JobOK, Progress
    <3> QED BY Zenon, <2>3, <3>1 DEF RollbackOne, ReloadInv, ReloadTypeOK, Section
  <2>4. CASE UNCHANGED eff
    BY Zenon, <2>4
  <2> QED
    BY Zenon, <2>1, <2>2, <2>3, <2>4 DEF ReloadNext, ReloadBySignal, ReloadByPlatform, Apply,
       SkipReloader, RollbackEnds, Commit, ReloadsOver, reloadVars
<1> QED BY <1>1, ReloadInvariant, PTL DEF ReloadSpec, AuthStaysOn

\* r.current only ever changes to a valid configuration with the same fixed
\* sections, when every section that changes is already in force.
THEOREM CommitCorrect == ReloadSpec => CurrentIsAtomic
<1> DEFINE Atomic == current' # current =>
        /\ Validate(current') /\ current'["fixed"] = current["fixed"]
        /\ \A s \in {"collector", "auth", "prometheus"} :
                current'[s] # current[s] => eff[s] = current'[s]
<1>1. ReloadInv /\ [ReloadNext]_reloadVars => [Atomic]_reloadVars
  <2> SUFFICES ASSUME ReloadInv, ReloadNext PROVE Atomic
    BY Zenon
  <2>1. CASE Commit
    <3>1. job.i = 5 /\ job.pc = "apply" /\ current' = NewCfg
      BY <2>1 DEF Commit, ReloadInv, JobOK, reloaders
    <3>2. /\ Target("collector") = NewCfg["collector"] /\ Target("auth") = NewCfg["auth"]
          /\ Target("prometheus") = NewCfg["prometheus"]
      BY Zenon DEF Target, NewCfg
    <3> QED BY <3>1, <3>2 DEF ReloadInv, Progress
  <2>2. CASE UNCHANGED current
    BY Zenon, <2>2
  <2> QED
    BY Zenon, <2>1, <2>2 DEF ReloadNext, ReloadBySignal, ReloadByPlatform, Apply, SkipReloader,
       ApplyReloader, ReloaderFails, RollbackOne, RollbackEnds, ReloadsOver, reloadVars
<1> QED BY <1>1, ReloadInvariant, PTL DEF ReloadSpec, CurrentIsAtomic

-----------------------------------------------------------------------------
(* The tasks: the slots of the sandbox *)

\* The set of boxed requests is finite, and a request that enters or leaves it
\* changes its size by one.
LEMMA BoxedSize ==
    ASSUME TypeOK
    PROVE  /\ IsFiniteSet(Boxed) /\ Cardinality(Boxed) \in Nat
           /\ \A r \in Boxed : Cardinality(Boxed \ {r}) = Cardinality(Boxed) - 1
           /\ \A r \in Boxed : Cardinality(Boxed) > 0
           /\ \A r \in Request \ Boxed :
                 Cardinality(Boxed \cup {r}) = Cardinality(Boxed) + 1
<1>1. IsFiniteSet(Boxed)
  BY Zenon, RequestAssumption, FS_Subset DEF Boxed
<1>2. Cardinality(Boxed) \in Nat
  BY Zenon, <1>1, FS_CardinalityType
<1>3. ASSUME NEW r \in Boxed PROVE Cardinality(Boxed \ {r}) = Cardinality(Boxed) - 1
  BY Zenon, <1>1, FS_RemoveElement
<1>4. ASSUME NEW r \in Boxed PROVE Cardinality(Boxed) > 0
  <2>1. Cardinality(Boxed) # 0
    BY Zenon, <1>1, <1>4, FS_EmptySet
  <2> QED BY <1>2, <2>1
<1>5. ASSUME NEW r \in Request \ Boxed
      PROVE  Cardinality(Boxed \cup {r}) = Cardinality(Boxed) + 1
  BY Zenon, <1>1, <1>5, FS_AddElement
<1> QED BY Zenon, <1>1, <1>2, <1>3, <1>4, <1>5

\* At first no slot is taken and no request boxed.
LEMMA SlotsInit == Init => TypeOK /\ SlotsAreExact
<1> SUFFICES ASSUME Init PROVE TypeOK /\ SlotsAreExact
  BY Zenon
<1>1. TypeOK
  <2>1. sem \in 0 .. Slots /\ messages \in 0 .. MaxMessages
    BY SlotsAssumption, MessagesAssumption DEF Init
  <2>2. active \in [TaskId -> Request \cup {None}]
    BY Zenon DEF Init
  <2>3. req \in [Request -> {"new", "dispatched", "admitted", "storing", "stored",
                            "queued", "boxed", "running", "ending", "done"}]
    BY Zenon DEF Init
  <2>4. /\ shuttingDown \in BOOLEAN /\ ctxDone \in BOOLEAN /\ expired \in BOOLEAN
        /\ sandboxed \in BOOLEAN
    BY Zenon DEF Init
  <2>5. cancelled \subseteq Request /\ early \subseteq Request /\ late \subseteq Request
    BY Zenon DEF Init
  <2> QED BY Zenon, <2>1, <2>2, <2>3, <2>4, <2>5 DEF Init, TypeOK
<1>2. Boxed = {}
  BY Zenon DEF Init, Boxed
<1>3. Cardinality(Boxed) = 0
  BY Zenon, <1>2, FS_EmptySet
<1> QED BY <1>1, <1>3 DEF Init, SlotsAreExact

\* A step keeps the types.  That a slot given back was taken, so that sem stays
\* above zero, rests on SlotsAreExact.
LEMMA TypeStep == TypeOK /\ SlotsAreExact /\ [Next]_vars => TypeOK'
<1> SUFFICES ASSUME TypeOK, SlotsAreExact, [Next]_vars PROVE TypeOK'
  BY Zenon
<1> USE SlotsAssumption, MessagesAssumption DEF TypeOK, asked, platform, stopping, history
<1>1. ASSUME NEW r \in Request, Arrive(r) PROVE TypeOK'
  BY Zenon, <1>1 DEF Arrive, Registered
<1>2. ASSUME NEW r \in Request, Admit(r) PROVE TypeOK'
  BY <1>2 DEF Admit, Registered
<1>3. ASSUME NEW r \in Request, RunPlugin(r) PROVE TypeOK'
  BY <1>3 DEF RunPlugin, Registered
<1>4. ASSUME NEW r \in Request, CheckShutdown(r) PROVE TypeOK'
  BY <1>4 DEF CheckShutdown, Registered
<1>5. ASSUME NEW r \in Request, Store(r) PROVE TypeOK'
  BY Zenon, <1>5 DEF Store, Registered
<1>6. ASSUME NEW r \in Request, Parse(r) PROVE TypeOK'
  BY <1>6 DEF Parse, Registered
<1>7. ASSUME NEW r \in Request, Acquire(r) PROVE TypeOK'
  BY <1>7 DEF Acquire, Registered
<1>8. ASSUME NEW r \in Request, RunEnds(r) PROVE TypeOK'
  <2>1. sem' \in 0 .. Slots
    BY <1>8, BoxedSize DEF RunEnds, SlotsAreExact, Boxed
  <2> QED BY <1>8, <2>1 DEF RunEnds, Registered
<1>9. ASSUME NEW r \in Request, End(r) PROVE TypeOK'
  BY <1>9 DEF End, Registered
<1>10. CASE RecvCommand
  BY <1>10 DEF RecvCommand
<1>11. CASE RecvAcquire
  BY <1>11 DEF RecvAcquire
<1>12. CASE RecvRunEnds
  <2>1. sem' \in 0 .. Slots
    BY <1>12, BoxedSize DEF RecvRunEnds, SlotsAreExact
  <2> QED BY Zenon, <1>12, <2>1 DEF RecvRunEnds
<1>13. CASE RecvAnswer
  BY Zenon, <1>13 DEF RecvAnswer
<1>14. CASE RecvExit
  BY Zenon, <1>14 DEF RecvExit
<1>15. CASE BeginShutdown
  BY Zenon, <1>15 DEF BeginShutdown
<1>16. CASE Expire
  BY Zenon, <1>16 DEF Expire
<1>17. CASE Tick
  BY Zenon, <1>17 DEF Tick
<1>18. CASE WaitExpired
  BY <1>18 DEF WaitExpired
<1>19. CASE FlushAndStop
  BY Zenon, <1>19 DEF FlushAndStop
<1>20. CASE FlushWait
  BY Zenon, <1>20 DEF FlushWait
<1>21. CASE HttpShutdown
  BY Zenon, <1>21 DEF HttpShutdown
<1>22. CASE HttpDone
  BY Zenon, <1>22 DEF HttpDone
<1>23. CASE Terminated
  BY Zenon, <1>23 DEF Terminated, vars
<1>24. ASSUME NEW i \in TaskId, RecvCancel(i) PROVE TypeOK'
  BY <1>24 DEF RecvCancel
<1>25. CASE UNCHANGED vars
  BY <1>25 DEF vars
<1> QED
  BY Zenon, <1>1, <1>2, <1>3, <1>4, <1>5, <1>6, <1>7, <1>8, <1>9, <1>10, <1>11, <1>12, <1>13, <1>14, <1>15, <1>16, <1>17, <1>18, <1>19, <1>20, <1>21, <1>22, <1>23, <1>24, <1>25
     DEF Next, Handle, Receive, Shutdown

\* A step keeps the count of slots: four actions take a slot or give it back, the
\* others move no command into or out of the sandbox.
LEMMA SlotsStep == TypeOK /\ SlotsAreExact /\ [Next]_vars => SlotsAreExact'
<1> DEFINE Neutral == /\ Boxed' = Boxed /\ sem' = sem
                      /\ (recv' = "boxed") <=> (recv = "boxed")
<1> SUFFICES ASSUME TypeOK, SlotsAreExact, [Next]_vars PROVE SlotsAreExact'
  BY Zenon
<1>0. Neutral => SlotsAreExact'
  BY Zenon DEF SlotsAreExact
<1> USE DEF asked, platform, stopping, history
<1>1. ASSUME NEW r \in Request, Acquire(r) PROVE SlotsAreExact'
  <2>1. CASE sem' = sem + 1 /\ req' = [req EXCEPT ![r] = "boxed"]
    <3>1. Boxed' = Boxed \cup {r} /\ r \in Request \ Boxed
      BY Zenon, <1>1, <2>1 DEF Acquire, Boxed, TypeOK
    <3>2. Cardinality(Boxed') = Cardinality(Boxed) + 1 /\ recv' = recv
      BY Zenon, <1>1, <3>1, BoxedSize DEF Acquire
    <3>3. Cardinality(Boxed) \in Nat
      BY Zenon, BoxedSize
    <3> QED BY <2>1, <3>2, <3>3 DEF SlotsAreExact
  <2>2. CASE sem' = sem /\ req' = [req EXCEPT ![r] = "ending"]
    <3>1. Neutral
      BY Zenon, <1>1, <2>2 DEF Acquire, Boxed, TypeOK
    <3> QED BY Zenon, <3>1, <1>0
  <2> QED BY Zenon, <1>1, <2>1, <2>2 DEF Acquire
<1>2. ASSUME NEW r \in Request, RunEnds(r) PROVE SlotsAreExact'
  <2>1. CASE req[r] = "boxed"
    <3>1. Boxed' = Boxed \ {r} /\ r \in Boxed
      BY Zenon, <1>2, <2>1 DEF RunEnds, Boxed, TypeOK
    <3>2. Cardinality(Boxed') = Cardinality(Boxed) - 1 /\ recv' = recv
      BY Zenon, <1>2, <3>1, BoxedSize DEF RunEnds
    <3>3. sem' = sem - 1 /\ Cardinality(Boxed) \in Nat
      BY Zenon, <1>2, <2>1, BoxedSize DEF RunEnds
    <3> QED BY <3>2, <3>3 DEF SlotsAreExact
  <2>2. CASE req[r] # "boxed"
    <3>1. Neutral
      BY Zenon, <1>2, <2>2 DEF RunEnds, Boxed, TypeOK
    <3> QED BY Zenon, <3>1, <1>0
  <2> QED BY Zenon, <2>1, <2>2
<1>3. CASE RecvAcquire
  <2>1. Boxed' = Boxed /\ Cardinality(Boxed) \in Nat
    BY Zenon, <1>3, BoxedSize DEF RecvAcquire, Boxed
  <2> QED BY <1>3, <2>1 DEF RecvAcquire, SlotsAreExact
<1>4. CASE RecvRunEnds
  <2>1. Boxed' = Boxed /\ Cardinality(Boxed) \in Nat
    BY Zenon, <1>4, BoxedSize DEF RecvRunEnds, Boxed
  <2> QED BY <1>4, <2>1 DEF RecvRunEnds, SlotsAreExact
<1>5. ASSUME NEW r \in Request, Arrive(r) PROVE Neutral
  BY Zenon, <1>5 DEF Arrive, Boxed, TypeOK
<1>6. ASSUME NEW r \in Request, Admit(r) PROVE Neutral
  BY Zenon, <1>6 DEF Admit, Boxed, TypeOK
<1>7. ASSUME NEW r \in Request, RunPlugin(r) PROVE Neutral
  BY Zenon, <1>7 DEF RunPlugin, Boxed, TypeOK
<1>8. ASSUME NEW r \in Request, CheckShutdown(r) PROVE Neutral
  BY Zenon, <1>8 DEF CheckShutdown, Boxed, TypeOK
<1>9. ASSUME NEW r \in Request, Store(r) PROVE Neutral
  BY Zenon, <1>9 DEF Store, Boxed, TypeOK
<1>10. ASSUME NEW r \in Request, Parse(r) PROVE Neutral
  BY Zenon, <1>10 DEF Parse, Boxed, TypeOK
<1>11. ASSUME NEW r \in Request, End(r) PROVE Neutral
  BY Zenon, <1>11 DEF End, Boxed, TypeOK
<1>12. ASSUME RecvCommand PROVE Neutral
  BY Zenon, <1>12 DEF RecvCommand, Boxed
<1>13. ASSUME RecvAnswer PROVE Neutral
  BY Zenon, <1>13 DEF RecvAnswer, Boxed
<1>14. ASSUME RecvExit PROVE Neutral
  BY Zenon, <1>14 DEF RecvExit, Boxed
<1>15. ASSUME BeginShutdown PROVE Neutral
  BY Zenon, <1>15 DEF BeginShutdown, Boxed
<1>16. ASSUME Expire PROVE Neutral
  BY Zenon, <1>16 DEF Expire, Boxed
<1>17. ASSUME Tick PROVE Neutral
  BY Zenon, <1>17 DEF Tick, Boxed
<1>18. ASSUME WaitExpired PROVE Neutral
  BY Zenon, <1>18 DEF WaitExpired, Boxed
<1>19. ASSUME FlushAndStop PROVE Neutral
  BY Zenon, <1>19 DEF FlushAndStop, Boxed
<1>20. ASSUME FlushWait PROVE Neutral
  BY Zenon, <1>20 DEF FlushWait, Boxed
<1>21. ASSUME HttpShutdown PROVE Neutral
  BY Zenon, <1>21 DEF HttpShutdown, Boxed
<1>22. ASSUME HttpDone PROVE Neutral
  BY Zenon, <1>22 DEF HttpDone, Boxed
<1>23. ASSUME Terminated PROVE Neutral
  BY Zenon, <1>23 DEF Terminated, Boxed, vars
<1>24. ASSUME NEW i \in TaskId, RecvCancel(i) PROVE Neutral
  BY Zenon, <1>24 DEF RecvCancel, Boxed
<1>25. ASSUME UNCHANGED vars PROVE Neutral
  BY Zenon, <1>25 DEF vars, Boxed
<1> QED
  BY Zenon, <1>0, <1>1, <1>2, <1>3, <1>4, <1>5, <1>6, <1>7, <1>8, <1>9, <1>10, <1>11, <1>12, <1>13, <1>14, <1>15, <1>16, <1>17, <1>18, <1>19, <1>20, <1>21, <1>22, <1>23, <1>24, <1>25
     DEF Next, Handle, Receive, Shutdown

-----------------------------------------------------------------------------
(* Tasks and shutdown *)

\* What a task goes through after registration, it goes through as a task that
\* registers.
StagesOfRegistered ==
    \A r \in Request : req[r] \in {"storing", "stored", "queued", "boxed", "ending"}
                         => kind[r] \in Registered

EntriesAreRegistered ==
    \A i \in TaskId : active[i] # None => kind[active[i]] \in Registered

FlagIsSet == shut # "serving" \/ late # {} => shuttingDown

\* A task registered before the shutdown is in the table until it is over, unless
\* it shares its id.
EarlyIsTracked ==
    \A r \in early : /\ Executing(r) \/ req[r] = "done"
                     /\ Executing(r) => active[id[r]] = r \/ Shared(r)

TaskInv ==
    /\ StagesOfRegistered /\ EntriesAreRegistered /\ FlagIsSet /\ EarlyIsTracked
    /\ EntryIsLive /\ LateIsRefused /\ RegisteredIsWaitedFor

IInv == TypeOK /\ SlotsAreExact /\ TaskInv

\* At first the table is empty and no request has arrived.
LEMMA TaskInit == Init => TaskInv
BY Zenon, NoneAssumption DEF Init, TaskInv, StagesOfRegistered, EntriesAreRegistered, FlagIsSet,
       EarlyIsTracked, EntryIsLive, LateIsRefused, RegisteredIsWaitedFor, Executing,
       Shared

\* A step keeps the invariant of the tasks.
LEMMA TaskStep == TypeOK /\ TypeOK' /\ TaskInv /\ [Next]_vars => TaskInv'
<1> SUFFICES ASSUME TypeOK, TypeOK', TaskInv, [Next]_vars PROVE TaskInv'
  BY Zenon
<1> USE NoneAssumption
    DEF TypeOK, TaskInv, StagesOfRegistered, EntriesAreRegistered, FlagIsSet,
       EarlyIsTracked, EntryIsLive, LateIsRefused, RegisteredIsWaitedFor, Executing,
       Shared,
        asked, platform, stopping, history
<1>1. ASSUME NEW r \in Request, Arrive(r) PROVE TaskInv'
  BY <1>1 DEF Arrive, Registered
<1>2. ASSUME NEW r \in Request, Admit(r) PROVE TaskInv'
  BY <1>2 DEF Admit, Registered
<1>3. ASSUME NEW r \in Request, RunPlugin(r) PROVE TaskInv'
  BY <1>3 DEF RunPlugin, Registered
<1>4. ASSUME NEW r \in Request, CheckShutdown(r) PROVE TaskInv'
  BY <1>4 DEF CheckShutdown, Registered
<1>5. ASSUME NEW r \in Request, Store(r) PROVE TaskInv'
  <2>1. StagesOfRegistered'
    BY <1>5 DEF Store, Registered
  <2>2. EntriesAreRegistered'
    BY <1>5 DEF Store, Registered
  <2>3. FlagIsSet'
    BY Zenon, <1>5 DEF Store, Registered
  <2>4. EarlyIsTracked'
    BY <1>5 DEF Store, Registered
  <2>5. EntryIsLive'
    BY <1>5 DEF Store, Registered
  <2>6. LateIsRefused'
    BY Zenon, <1>5 DEF Store, Registered
  <2>7. RegisteredIsWaitedFor'
    BY Zenon, <1>5 DEF Store, Registered
  <2> QED BY Zenon, <2>1, <2>2, <2>3, <2>4, <2>5, <2>6, <2>7
<1>6. ASSUME NEW r \in Request, Parse(r) PROVE TaskInv'
  BY <1>6 DEF Parse, Registered
<1>7. ASSUME NEW r \in Request, Acquire(r) PROVE TaskInv'
  BY <1>7 DEF Acquire, Registered
<1>8. ASSUME NEW r \in Request, RunEnds(r) PROVE TaskInv'
  BY <1>8 DEF RunEnds, Registered
<1>9. ASSUME NEW r \in Request, End(r) PROVE TaskInv'
  <2>1. StagesOfRegistered'
    BY <1>9 DEF End, Registered
  <2>2. EntriesAreRegistered'
    BY <1>9 DEF End, Registered
  <2>3. FlagIsSet'
    BY Zenon, <1>9 DEF End, Registered
  <2>4. EarlyIsTracked'
    BY <1>9 DEF End, Registered
  <2>5. EntryIsLive'
    BY <1>9 DEF End, Registered
  <2>6. LateIsRefused'
    BY Zenon, <1>9 DEF End, Registered
  <2>7. RegisteredIsWaitedFor'
    BY <1>9 DEF End, Registered
  <2> QED BY Zenon, <2>1, <2>2, <2>3, <2>4, <2>5, <2>6, <2>7
<1>10. CASE RecvCommand
  BY Zenon, <1>10 DEF RecvCommand
<1>11. CASE RecvAcquire
  BY Zenon, <1>11 DEF RecvAcquire
<1>12. CASE RecvRunEnds
  BY Zenon, <1>12 DEF RecvRunEnds
<1>13. CASE RecvAnswer
  BY Zenon, <1>13 DEF RecvAnswer
<1>14. CASE RecvExit
  BY Zenon, <1>14 DEF RecvExit
<1>15. CASE BeginShutdown
  BY Zenon, <1>15 DEF BeginShutdown
<1>16. CASE Expire
  BY Zenon, <1>16 DEF Expire
<1>17. CASE Tick
  BY <1>17 DEF Tick
<1>18. CASE WaitExpired
  BY Zenon, <1>18 DEF WaitExpired
<1>19. CASE FlushAndStop
  BY Zenon, <1>19 DEF FlushAndStop
<1>20. CASE FlushWait
  BY Zenon, <1>20 DEF FlushWait
<1>21. CASE HttpShutdown
  BY Zenon, <1>21 DEF HttpShutdown
<1>22. CASE HttpDone
  BY Zenon, <1>22 DEF HttpDone
<1>23. CASE Terminated
  BY Zenon, <1>23 DEF Terminated, vars
<1>24. ASSUME NEW i \in TaskId, RecvCancel(i) PROVE TaskInv'
  BY Zenon, <1>24 DEF RecvCancel
<1>25. CASE UNCHANGED vars
  BY Zenon, <1>25 DEF vars
<1> QED
  BY Zenon, <1>1, <1>2, <1>3, <1>4, <1>5, <1>6, <1>7, <1>8, <1>9, <1>10, <1>11, <1>12, <1>13, <1>14, <1>15, <1>16, <1>17, <1>18, <1>19, <1>20, <1>21, <1>22, <1>23, <1>24, <1>25
     DEF Next, Handle, Receive, Shutdown

-----------------------------------------------------------------------------
(* The theorems *)

\* TypeOK /\ SlotsAreExact /\ TaskInv is an inductive invariant.
THEOREM Invariance == Spec => []IInv
<1>1. Init => IInv
  BY Zenon, SlotsInit, TaskInit DEF IInv
<1>2. IInv /\ [Next]_vars => IInv'
  BY Zenon, TypeStep, SlotsStep, TaskStep DEF IInv
<1> QED BY <1>1, <1>2, PTL DEF Spec

\* Every variable keeps its type; in particular no more sandboxed commands run
\* than the sandbox has slots, and no slot is given back that was not taken.
THEOREM TypeCorrect == Spec => []TypeOK
<1>1. IInv => TypeOK
  BY Zenon DEF IInv
<1> QED BY <1>1, Invariance, PTL

\* The slots taken are those of the commands in the sandbox, whichever way they
\* or their waiting ended.
THEOREM SlotsCorrect == Spec => []SlotsAreExact
<1>1. IInv => SlotsAreExact
  BY Zenon DEF IInv
<1> QED BY <1>1, Invariance, PTL

\* A cancel function in activeTasks is that of a request that runs under its id.
THEOREM EntryCorrect == Spec => []EntryIsLive
<1>1. IInv => EntryIsLive
  BY Zenon DEF IInv, TaskInv
<1> QED BY <1>1, Invariance, PTL

\* A task that arrives after shutdown has begun never runs.
THEOREM LateCorrect == Spec => []LateIsRefused
<1>1. IInv => LateIsRefused
  BY Zenon DEF IInv, TaskInv
<1> QED BY <1>1, Invariance, PTL

\* A task registered before the shutdown, under an id of its own, is over when
\* waitForActiveTasks returns before its time-out.
THEOREM WaitCorrect == Spec => []RegisteredIsWaitedFor
<1>1. IInv => RegisteredIsWaitedFor
  BY Zenon DEF IInv, TaskInv
<1> QED BY <1>1, Invariance, PTL

=============================================================================
