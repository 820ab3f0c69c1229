----------------------------- MODULE SandboxRun -----------------------------
(***************************************************************************)
(* One execution in the sandbox (internal/sandbox): the policy, the script *)
(* file, the semaphore, the cgroup, the allowlist network, nsjail with its *)
(* deadline, and the deferred clean-up that undoes what was set up, last   *)
(* first, on every way out.  Several tasks run at a time.                  *)
(***************************************************************************)
EXTENDS Integers, Sequences, FiniteSets, Functions

CONSTANTS
    Task,               \* task ids
    SandboxConfig,      \* configurations: timeout, max, mem, tasks (0 for unset), cgroup
    SandboxRequest,     \* requests: kind, id, cmd, net, timeout, mem
    Policy,             \* blocked, allowed, interpreters, keywords, allowSudo, maxScript
    Metachar,           \* words with a shell metacharacter
    Interpreter,        \* interpreters interpreterToPath knows
    veth,               \* the veth name of a task: eight characters of its id
    DefaultTimeout, DefaultMem, DefaultTasks, MemCap

\* The settings are integers of any sign; the built-in defaults are positive.
ASSUME SandboxAssumption ==
    /\ {DefaultTimeout, DefaultMem, DefaultTasks, MemCap} \subseteq Nat \ {0}
    /\ \A c \in SandboxConfig : {c.timeout, c.max, c.mem, c.tasks} \subseteq Int
    /\ SandboxRequest # {}
    /\ \A r \in SandboxRequest : {r.timeout, r.mem} \subseteq Int

VARIABLES
    exec,       \* the executor's configuration
    xreq,       \* the request of every task
    xpc,        \* where it is
    defers,     \* the deferred calls, in the order they were registered
    sem,        \* tasks that hold the semaphore
    scripts,    \* tasks whose script file exists
    cgroups,    \* tasks whose cgroup exists
    links,      \* veth pairs that exist
    ctxErr,     \* execCtx.Err() of every task: "", "deadline" or "canceled"
    proc,       \* nsjail of every task
    result      \* what the call returned

sandboxVars == <<exec, xreq, xpc, defers, sem, scripts, cgroups, links, ctxErr, proc, result>>

NoResult == [code |-> 0, timedOut |-> FALSE, kind |-> "none"]
Err == [code |-> 0, timedOut |-> FALSE, kind |-> "error"]
Ran(c, t) == [code |-> c, timedOut |-> t, kind |-> "result"]

(***************************************************************************)
(* Configuration and limits.                                               *)
(***************************************************************************)
Default(v, d) == IF v <= 0 THEN d ELSE v
Least(a, b) == IF a < b THEN a ELSE b

NewExecutor(c) ==
    LET t == Default(c.timeout, DefaultTimeout)
    IN  [timeout |-> t, max |-> Default(c.max, 10 * t),
         mem |-> Default(c.mem, DefaultMem), tasks |-> Default(c.tasks, DefaultTasks),
         cgroup |-> c.cgroup]

\* Memory, CPU and processes alike: an override counts up to a fixed cap.
Limit(own, override, cap) == IF override > 0 THEN Least(override, cap) ELSE own

buildNsjailConfig(e, r) ==
    [time |-> Least(e.timeout, e.max), mem |-> Limit(e.mem, r.mem, MemCap)]

\* Variant: the request's own timeout is not capped.
runTimeoutOwn(e, r) == IF r.timeout <= 0 THEN Least(e.timeout, e.max) ELSE r.timeout

runTimeout(e, r) == Least(IF r.timeout <= 0 THEN e.timeout ELSE r.timeout, e.max)

(***************************************************************************)
(* The policy.  toSet drops blank entries, so a list of blanks allows      *)
(* nothing.                                                                *)
(***************************************************************************)
toSet(items) == Range(items) \ {""}

ValidateCommand(c) ==
    /\ c.name # "" /\ c.name \notin Metachar
    /\ c.name \notin toSet(Policy.blocked)
    /\ Policy.allowed # <<>> => c.name \in toSet(Policy.allowed)
    /\ Range(c.args) \cap Metachar = {}
    /\ c.name = "sudo" => Policy.allowSudo

ValidateScript(c) ==
    /\ c.name # ""
    /\ Policy.interpreters # <<>> => c.name \in toSet(Policy.interpreters)
    /\ Len(c.args) <= Policy.maxScript
    /\ Range(c.args) \cap Range(Policy.keywords) = {}

(***************************************************************************)
(* ExecuteCommand and ExecuteScript.                                       *)
(***************************************************************************)
Returns(t, r) == result' = [result EXCEPT ![t] = r]
XAt(t, l) == xpc' = [xpc EXCEPT ![t] = l]
Unwinds(t, r) == XAt(t, "unwind") /\ Returns(t, r)
Defer(t, d) == defers' = [defers EXCEPT ![t] = Append(@, d)]

Submit(t, r) ==
    /\ xpc[t] = "new"
    /\ xreq' = [xreq EXCEPT ![t] = r]
    /\ IF IF r.kind = "command" THEN ValidateCommand(r.cmd) ELSE ValidateScript(r.cmd)
       THEN XAt(t, IF r.kind = "command" THEN "acquire" ELSE "script") /\ UNCHANGED result
       ELSE Unwinds(t, Err)
    /\ UNCHANGED <<exec, defers, sem, scripts, cgroups, links, ctxErr, proc>>

\* WriteScriptFile removes the file again when it fails half way; once it has
\* returned, its removal is deferred.
WriteScript(t) ==
    /\ xpc[t] = "script"
    /\ \/ /\ Unwinds(t, Err)
          /\ UNCHANGED <<defers, scripts>>
       \/ /\ xreq[t].id = "ok"
          /\ scripts' = scripts \cup {t}
          /\ Defer(t, "script")
          /\ IF xreq[t].cmd.name \in Interpreter
             THEN XAt(t, "acquire") /\ UNCHANGED result
             ELSE Unwinds(t, Err)
    /\ UNCHANGED <<exec, xreq, sem, cgroups, links, ctxErr, proc>>

AcquireSlot(t) ==
    /\ xpc[t] = "acquire" /\ Cardinality(sem) < exec.tasks
    /\ sem' = sem \cup {t}
    /\ Defer(t, "sem")
    /\ XAt(t, "cgroup")
    /\ UNCHANGED <<exec, xreq, scripts, cgroups, links, ctxErr, proc, result>>

GiveUp(t) ==
    /\ xpc[t] = "acquire" /\ ctxErr[t] = "canceled"
    /\ Unwinds(t, Err)
    /\ UNCHANGED <<exec, xreq, defers, sem, scripts, cgroups, links, ctxErr, proc>>

\* Variant: the clean-up is deferred only once the limits are written.
SetupCgroupLate(t) ==
    /\ xpc[t] = "cgroup"
    /\ \/ Unwinds(t, Err) /\ UNCHANGED <<defers, cgroups>>
       \/ /\ xreq[t].id = "ok"
          /\ cgroups' = cgroups \cup {t}
          /\ \/ Defer(t, "cgroup") /\ XAt(t, "net") /\ UNCHANGED result
             \/ Unwinds(t, Err) /\ UNCHANGED defers
    /\ UNCHANGED <<exec, xreq, sem, scripts, links, ctxErr, proc>>

\* With cgroup_base set: CreateCgroup refuses a bad id or fails; the clean-up
\* is deferred before the limits are written, which may fail too.
SetupCgroup(t) ==
    /\ xpc[t] = "cgroup"
    /\ \/ ~exec.cgroup /\ XAt(t, "net") /\ UNCHANGED <<defers, cgroups, result>>
       \/ exec.cgroup /\ Unwinds(t, Err) /\ UNCHANGED <<defers, cgroups>>
       \/ /\ exec.cgroup /\ xreq[t].id = "ok"
          /\ cgroups' = cgroups \cup {t}
          /\ Defer(t, "cgroup")
          /\ (XAt(t, "net") /\ UNCHANGED result) \/ Unwinds(t, Err)
    /\ UNCHANGED <<exec, xreq, sem, scripts, links, ctxErr, proc>>

\* Without addresses nothing is set up; a failing set-up is only logged, and
\* may fail behind the pair it made.  The clean-up is deferred all the same.
SetupNetwork(t) ==
    /\ xpc[t] = "net"
    /\ XAt(t, "start")
    /\ IF xreq[t].net \in {"disabled", "no_ips"}
       THEN UNCHANGED <<defers, links>>
       ELSE /\ Defer(t, "net")
            /\ links' \in IF xreq[t].id # "ok" \/ xreq[t].net = "bad_ips" \/ veth[t] \in links
                          THEN {links} ELSE {links, links \cup {veth[t]}}
    /\ UNCHANGED <<exec, xreq, sem, scripts, cgroups, ctxErr, proc, result>>

\* cmd.Run, under a context with the timeout.  It is over at once when the
\* context is done or nsjail cannot be started.
Start(t) ==
    /\ xpc[t] = "start"
    /\ XAt(t, "run")
    /\ \/ ctxErr[t] = "" /\ proc' = [proc EXCEPT ![t] = "running"]
       \/ proc' = [proc EXCEPT ![t] = "nostart"]
    /\ UNCHANGED <<exec, xreq, defers, sem, scripts, cgroups, links, ctxErr, result>>

\* A command whose task id is refused gets no arguments at all: nsjail fails.
ProcExits(t) ==
    /\ proc[t] = "running"
    /\ \E s \in IF xreq[t].id = "ok" THEN {"0", "1"} ELSE {"1"} : proc' = [proc EXCEPT ![t] = s]
    /\ UNCHANGED <<exec, xreq, xpc, defers, sem, scripts, cgroups, links, ctxErr, result>>

\* Variant: the command does not follow its context.
ProcNotKilled(t) ==
    /\ proc[t] = "running" /\ ctxErr[t] # ""
    /\ UNCHANGED sandboxVars

\* The kill of a done context.  A descendant that holds the output keeps Run
\* waiting.
ProcKilled(t) ==
    /\ proc[t] = "running" /\ ctxErr[t] # ""
    /\ \E s \in {"killed", "held"} : proc' = [proc EXCEPT ![t] = s]
    /\ UNCHANGED <<exec, xreq, xpc, defers, sem, scripts, cgroups, links, ctxErr, result>>

DescendantEnds(t) ==
    /\ proc[t] = "held"
    /\ proc' = [proc EXCEPT ![t] = "killed"]
    /\ UNCHANGED <<exec, xreq, xpc, defers, sem, scripts, cgroups, links, ctxErr, result>>

DeadlinePassesFor(t) ==
    /\ xpc[t] = "run" /\ ctxErr[t] = ""
    /\ ctxErr' = [ctxErr EXCEPT ![t] = "deadline"]
    /\ UNCHANGED <<exec, xreq, xpc, defers, sem, scripts, cgroups, links, proc, result>>

\* The task is cancelled or the agent stops.
CancelTask(t) ==
    /\ xpc[t] \notin {"new", "unwind", "over"} /\ ctxErr[t] = ""
    /\ ctxErr' = [ctxErr EXCEPT ![t] = "canceled"]
    /\ UNCHANGED <<exec, xreq, xpc, defers, sem, scripts, cgroups, links, proc, result>>

\* A command that ended well while its context was done may be reported either
\* way.  The streamers are stopped, the statistics are read and the audit
\* record is written; none of that changes the outcome.
RunReturns(t) ==
    /\ xpc[t] = "run" /\ proc[t] \in {"0", "1", "killed", "nostart"}
    /\ \E failed \in IF proc[t] # "0" THEN {TRUE} ELSE {FALSE, ctxErr[t] # ""} :
           Unwinds(t, CASE ~failed -> Ran(0, FALSE)
                        [] failed /\ ctxErr[t] = "deadline" -> Ran(-1, TRUE)
                        [] OTHER -> Ran(IF proc[t] = "1" THEN 1 ELSE -1, FALSE))
    /\ UNCHANGED <<exec, xreq, defers, sem, scripts, cgroups, links, ctxErr, proc>>

NoRequest == CHOOSE r \in SandboxRequest : TRUE

\* The deferred calls, last first.  What the call returned is forgotten once
\* it is over.
Unwind(t) ==
    /\ xpc[t] = "unwind"
    /\ IF defers[t] = <<>>
       THEN /\ XAt(t, "over")
            /\ xreq' = [xreq EXCEPT ![t] = NoRequest] /\ ctxErr' = [ctxErr EXCEPT ![t] = ""]
            /\ proc' = [proc EXCEPT ![t] = "none"] /\ Returns(t, NoResult)
            /\ UNCHANGED <<defers, sem, scripts, cgroups, links>>
       ELSE LET d == defers[t][Len(defers[t])] IN
            /\ defers' = [defers EXCEPT ![t] = SubSeq(@, 1, Len(@) - 1)]
            /\ links' = IF d = "net" THEN links \ {veth[t]} ELSE links
            /\ cgroups' = IF d = "cgroup" THEN cgroups \ {t} ELSE cgroups
            /\ sem' = IF d = "sem" THEN sem \ {t} ELSE sem
            /\ scripts' = IF d = "script" THEN scripts \ {t} ELSE scripts
            /\ UNCHANGED <<xpc, xreq, ctxErr, proc, result>>
    /\ UNCHANGED exec

SandboxInit ==
    /\ exec \in {NewExecutor(c) : c \in SandboxConfig}
    /\ xreq = [t \in Task |-> NoRequest]
    /\ xpc = [t \in Task |-> "new"] /\ defers = [t \in Task |-> <<>>]
    /\ sem = {} /\ scripts = {} /\ cgroups = {} /\ links = {}
    /\ ctxErr = [t \in Task |-> ""] /\ proc = [t \in Task |-> "none"]
    /\ result = [t \in Task |-> NoResult]

TaskStep(t) ==
    \/ WriteScript(t) \/ AcquireSlot(t) \/ GiveUp(t) \/ SetupCgroup(t) \/ SetupNetwork(t)
    \/ Start(t) \/ ProcKilled(t) \/ RunReturns(t) \/ Unwind(t) \/ DeadlinePassesFor(t)

SandboxNext ==
    \E t \in Task :
        \/ \E r \in SandboxRequest : Submit(t, r)
        \/ TaskStep(t) \/ ProcExits(t) \/ DescendantEnds(t) \/ CancelTask(t)

\* The goroutines run, the deadline comes and the kill reaches nsjail; the
\* command need not end by itself, nor a descendant of it.
SandboxFairness == \A t \in Task : WF_sandboxVars(TaskStep(t))

SandboxSpec == SandboxInit /\ [][SandboxNext]_sandboxVars /\ SandboxFairness

(***************************************************************************)
(* Properties.                                                             *)
(***************************************************************************)

\* Whatever failed, and whoever cancelled it, a call that has returned leaves
\* no slot, no script file and no cgroup behind, and no veth pair unless a
\* task with the same eight characters is at work.
SandboxLeavesNothing ==
    \A t \in Task : xpc[t] = "over" =>
        /\ t \notin sem \cup scripts \cup cgroups
        /\ veth[t] \in links => \E u \in Task : veth[u] = veth[t] /\ xpc[u] # "over"

\* No more jails run at a time than max_concurrent_tasks, those included that
\* were killed and whose output is still held.
SandboxBounded ==
    Cardinality({t \in Task : proc[t] \in {"running", "held"}}) <= exec.tasks

\* A result says "timed out" only behind the deadline, and exit code 0 only of
\* a command that ended well; a call that ran nothing returns an error.
SandboxHonest ==
    \A t \in Task :
        /\ result[t].timedOut => ctxErr[t] = "deadline" /\ result[t].code = -1
        /\ result[t].kind = "result" /\ result[t].code = 0 => proc[t] = "0"
        /\ result[t].kind = "error" => proc[t] = "none"
        /\ xpc[t] = "unwind" => result[t].kind # "none"

\* No request runs without a deadline or beyond the configured maximum, and no
\* override takes more memory than the cap or the executor's own limit.
SandboxLimits ==
    \A t \in Task : xpc[t] = "run" =>
        /\ runTimeout(exec, xreq[t]) \in 1 .. exec.max
        /\ LET c == buildNsjailConfig(exec, xreq[t])
           IN  /\ c.time \in 1 .. exec.max
               /\ c.mem \in 1 .. (IF exec.mem > MemCap THEN exec.mem ELSE MemCap)

\* However an execution ends, its result is true and it leaves nothing behind.
SandboxEndsWell == SandboxLeavesNothing /\ SandboxHonest

\* Executions keep within the configured number, time and memory.
SandboxWithinLimits == SandboxBounded /\ SandboxLimits

\* Every task that is submitted ends, unless a descendant of a killed command
\* holds its output.
SandboxEnds ==
    \A t \in Task : xpc[t] # "new" ~> (xpc[t] = "over" \/ \E u \in Task : proc[u] = "held")
============================================================================
