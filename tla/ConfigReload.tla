---------------------------- MODULE ConfigReload ----------------------------
(***************************************************************************)
(* Configuration hot reload: ConfigReloader of internal/config/reload.go   *)
(* with the four reloaders NewAgent registers, in their order.  A reload   *)
(* comes from SIGHUP, which reads the configuration file, or from the      *)
(* platform, which sends YAML of its own; r.mu admits one at a time, and   *)
(* the subsystems are seen by others between the steps of one.             *)
(*                                                                         *)
(* A configuration has one value per section.  The section "fixed" stands  *)
(* for those Diff reports as non-reloadable (agent, server, grpc,          *)
(* executor, sandbox, plugin, gateway), "unwatched" for those no reloader  *)
(* takes (plugin_gateway, checker, alerting) or Diff does not compare      *)
(* (tracing, discovery, updater, wasm, federation).                        *)
(***************************************************************************)
EXTENDS Naturals, Sequences, FiniteSets

CONSTANTS
    MaxReloads      \* bound: reloads in a behaviour

ASSUME ReloadAssumption == MaxReloads \in Nat

VARIABLES
    file,       \* the configuration file
    current,    \* r.current
    eff,        \* what every subsystem really runs with
    job,        \* the reload in progress
    result,     \* how the last one ended
    reloads

reloadVars == <<file, current, eff, job, result, reloads>>

Section == {"collector", "auth", "prometheus", "reporter", "fixed", "unwatched"}

reloaders == <<"collector", "auth", "prometheus", "reporter">>

\* The Go zero value, the value Load sets by default, and another one.  In
\* section auth the zero value is a disabled authentication.
Value == {"zero", "default", "other"}

\* What a YAML text says of a section: a value, or not the whole of it.
Yaml == [Section -> Value \cup {"omitted"}]

Idle == [pc |-> "idle", yaml |-> [s \in Section |-> "default"], i |-> 1,
         applied |-> << >>]

ReloadTypeOK ==
    /\ file \in Yaml
    /\ current \in [Section -> Value]
    /\ eff \in [Section -> Value \cup {"stopped"}]
    /\ job.pc \in {"idle", "apply", "rollback"}
    /\ job.yaml \in Yaml
    /\ job.i \in 1 .. Len(reloaders) + 1
    /\ job.applied \in Seq(Section) /\ Len(job.applied) <= Len(reloaders)
    /\ result \in {"none", "rejected", "failed", "applied"}
    /\ reloads \in 0 .. MaxReloads

-----------------------------------------------------------------------------
(* Reading and comparing configurations *)

\* config.Load fills in the defaults, of which the collector has none, ...
Load(y) ==
    [s \in Section |-> IF y[s] # "omitted" THEN y[s]
                       ELSE IF s = "collector" THEN "zero" ELSE "default"]

\* ... parseYAMLConfig does not.
parseYAMLConfig(y) ==
    [s \in Section |-> IF y[s] = "omitted" THEN "zero" ELSE y[s]]

\* Validate refuses the zero value of the fixed sections and of the reporter.
Validate(cfg) == cfg["fixed"] # "zero" /\ cfg["reporter"] # "zero"

\* Diff: the sections that differ, and whether one of them is not reloadable.
Changed(old, new) == {s \in Section \ {"unwatched"} : old[s] # new[s]}

NonReloadable(old, new) == "fixed" \in Changed(old, new)

\* The texts that differ from the file in at most two sections.
Edited ==
    {[file EXCEPT ![s] = v, ![t] = w] :
        s \in Section, t \in Section,
        v \in {"omitted", "zero", "other"}, w \in {"omitted", "zero", "other"}}

\* The agent starts with a valid file that configures inputs and leaves a
\* section to defaults, or has authentication disabled.
ReloadInit ==
    /\ \/ \E s \in Section \ {"collector"} :
            file = [t \in Section |-> IF t = s THEN "omitted" ELSE "default"]
       \/ file = [t \in Section |-> IF t = "auth" THEN "zero" ELSE "default"]
    /\ current = Load(file)
    /\ eff = current
    /\ job = Idle /\ result = "none" /\ reloads = 0

-----------------------------------------------------------------------------
(* ConfigReloader.Apply *)

Apply(y) ==
    LET new == parseYAMLConfig(y) IN
    /\ job.pc = "idle" /\ reloads < MaxReloads
    /\ reloads' = reloads + 1
    /\ IF ~Validate(new) \/ NonReloadable(current, new)
       THEN result' = "rejected" /\ UNCHANGED job
       ELSE /\ job' = [Idle EXCEPT !.pc = "apply", !.yaml = y]
            /\ UNCHANGED result
    /\ UNCHANGED <<current, eff>>

\* The operator edits the file and sends SIGHUP, ...
ReloadBySignal ==
    /\ file' \in Edited
    /\ Apply(file')

\* ... or the platform sends a ConfigUpdate.
ReloadByPlatform ==
    /\ \E y \in Edited : Apply(y)
    /\ UNCHANGED file

Reloader == reloaders[job.i]
NewCfg == parseYAMLConfig(job.yaml)

\* rel.CanReload(cs)
CanReload == Reloader \in Changed(current, NewCfg)

SkipReloader ==
    /\ job.pc = "apply" /\ job.i <= Len(reloaders)
    /\ ~CanReload
    /\ job' = [job EXCEPT !.i = @ + 1]
    /\ UNCHANGED <<file, current, eff, result, reloads>>

\* rel.Apply(newCfg) returns nil; the one of the reporter only writes a log
\* line, the one of auth refuses to disable authentication.
ApplyReloader ==
    /\ job.pc = "apply" /\ job.i <= Len(reloaders)
    /\ CanReload
    /\ Reloader = "auth" => NewCfg["auth"] # "zero"
    /\ eff' = IF Reloader = "reporter" THEN eff
              ELSE [eff EXCEPT ![Reloader] = NewCfg[Reloader]]
    /\ job' = [job EXCEPT !.i = @ + 1, !.applied = Append(@, Reloader)]
    /\ UNCHANGED <<file, current, result, reloads>>

\* rel.Apply(newCfg) returns an error: Scheduler.Reload after it has stopped
\* the collection, AuthReloader before it has changed anything.
ReloaderFails ==
    /\ job.pc = "apply" /\ job.i <= Len(reloaders)
    /\ CanReload
    /\ \/ /\ Reloader = "collector"
          /\ eff' = [eff EXCEPT !["collector"] = "stopped"]
       \/ /\ Reloader = "auth" /\ NewCfg["auth"] = "zero"
          /\ UNCHANGED eff
    /\ job' = [job EXCEPT !.pc = "rollback"]
    /\ UNCHANGED <<file, current, result, reloads>>

\* Rollback given the new configuration instead of the current one.
RollbackToNew ==
    /\ job.pc = "rollback" /\ job.applied # << >>
    /\ LET rel == job.applied[Len(job.applied)] IN
         \/ eff' = [eff EXCEPT ![rel] = NewCfg[rel]]
         \/ rel = "collector" /\ eff' = [eff EXCEPT ![rel] = "stopped"]
    /\ job' = [job EXCEPT !.applied = SubSeq(@, 1, Len(@) - 1)]
    /\ UNCHANGED <<file, current, result, reloads>>

\* applied[i].Rollback(r.current), the last applied first; the collector's is a
\* Reload that may fail in turn.
RollbackOne ==
    /\ job.pc = "rollback" /\ job.applied # << >>
    /\ LET rel == job.applied[Len(job.applied)] IN
         \/ eff' = [eff EXCEPT ![rel] = current[rel]]
         \/ rel = "collector" /\ eff' = [eff EXCEPT ![rel] = "stopped"]
    /\ job' = [job EXCEPT !.applied = SubSeq(@, 1, Len(@) - 1)]
    /\ UNCHANGED <<file, current, result, reloads>>

RollbackEnds ==
    /\ job.pc = "rollback" /\ job.applied = << >>
    /\ job' = Idle
    /\ result' = "failed"
    /\ UNCHANGED <<file, current, eff, reloads>>

Commit ==
    /\ job.pc = "apply" /\ job.i > Len(reloaders)
    /\ current' = NewCfg
    /\ job' = Idle
    /\ result' = "applied"
    /\ UNCHANGED <<file, eff, reloads>>

ReloadsOver == job.pc = "idle" /\ reloads = MaxReloads /\ UNCHANGED reloadVars

ReloadNext ==
    \/ ReloadBySignal \/ ReloadByPlatform
    \/ SkipReloader \/ ApplyReloader \/ ReloaderFails
    \/ RollbackOne \/ RollbackEnds \/ Commit \/ ReloadsOver

ReloadSpec == ReloadInit /\ [][ReloadNext]_reloadVars

-----------------------------------------------------------------------------
(* Properties *)

\* Between reloads the server's authentication, its metrics endpoint and every
\* fixed section run with the configuration the reloader calls current,
\* whichever reloader failed; so does the collector, unless it is stopped.
InForce ==
    job.pc = "idle" =>
        /\ \A s \in {"auth", "prometheus", "fixed"} : eff[s] = current[s]
        /\ eff["collector"] \in {current["collector"], "stopped"}

\* Hot reload never switches authentication off.
AuthStaysOn == [][eff["auth"] # "zero" => eff'["auth"] # "zero"]_reloadVars

\* Only a valid configuration that leaves the fixed sections alone becomes
\* r.current, and only when every subsystem that can be reloaded runs with what
\* it changes.
CurrentIsAtomic ==
    [][current' # current =>
        /\ Validate(current') /\ current'["fixed"] = current["fixed"]
        /\ \A s \in {"collector", "auth", "prometheus"} :
                current'[s] # current[s] => eff[s] = current'[s]]_reloadVars

\* "On reload failure, automatically rolls back to the previous valid
\* configuration (atomic operation)."
FailureRollsBack ==
    job.pc = "idle" /\ result = "failed" =>
        eff["collector"] = current["collector"]
=============================================================================
