---- MODULE HealthCheck ----
\* The system checker: internal/checker/executor.go runs the items of one
\* HealthCheckRequest in order, sends a message after each and a summary at the
\* end; the twenty checkers of internal/checker/{kernel,filesystem,network,
\* service,container} judge what they read on the host.
\*
\* A file of the host is [st, lines, dir, mode, sticky]. st is "ok", "absent",
\* "denied" (any other open or stat error) or, for a command, "exit" (it ended
\* with a non-zero code). A line is [kind, key, val, opts]; kind is "entry",
\* "bare" (a key and no value), "comment", or "long": a line past the 64 KiB
\* buffer of bufio.Scanner, where every scanner stops with ErrTooLong. A
\* checker that reads two files gets both, in the order it opens them.
EXTENDS Naturals, Sequences, FiniteSets, FiniteSetsExt

CONSTANTS HealthRequest,  \* the requests: sequences of items [type, p]
          HostFiles,      \* type -> the files its checker may find
          LostTail        \* lines that may follow an over-long one

VARIABLES items,      \* the items of the request being executed
          phase,      \* "idle", "running", "refused" or "over"
          late,       \* the request's timeout has passed
          streamUp,  \* SendHealthCheckResult finds a stream
          results,    \* the status of each item executed so far
          last,       \* the check just made: [item, files, late], or <<>>
          received    \* the messages that reached the platform

healthVars == <<items, phase, late, streamUp, results, last, received>>

----
\* What the checkers share.

\* The lines a bufio.Scanner hands out: those before the first over-long one.
Seen(f) ==
  LET long == {i \in 1..Len(f.lines) : f.lines[i].kind = "long"}
  IN  IF long = {} THEN f.lines ELSE SubSeq(f.lines, 1, Min(long) - 1)

ReadWhole(f) == Len(Seen(f)) = Len(f.lines)

compare(actual, expected) == IF actual = expected THEN "pass" ELSE "fail"

\* A checker refuses bad parameters with a Go error ("invalid"), answers
\* StatusError when it cannot open what it reads, and judges otherwise.
Judge(valid, f, verdict) ==
  IF ~valid THEN "invalid" ELSE IF f.st # "ok" THEN "error" ELSE verdict

\* A scan that stops at the first match: the match (the first of the hits among
\* the lines seen), the end of the file, or the scanner's error.
Scan1(f, hits, hit, miss) ==
  IF hits # <<>> THEN hit ELSE IF ReadWhole(f) THEN miss ELSE "error"

----
\* kernel

\* "param=value" or a bare "param", which counts as "1"; the first match.
parseBootParam(words, param) ==
  LET w == SelectSeq(words, LAMBDA l : l.key = param)
  IN  IF w = <<>> THEN "" ELSE IF w[1].kind = "bare" THEN "1" ELSE w[1].val

BootParamCheck(p, fs) ==
  Judge(p.json /\ p.key # "", fs[1],
        compare(parseBootParam(fs[1].lines, p.key), p.expected))

KernelModuleCheck(p, fs) ==
  Judge(p.json /\ p.key # "", fs[1],
        Scan1(fs[1], SelectSeq(Seen(fs[1]), LAMBDA l : l.key = p.key),
              compare("loaded", p.expected), compare("not_loaded", p.expected)))

KernelVersionCheck(p, fs) == Judge(TRUE, fs[1], "pass")

\* os.ReadFile and strings.TrimSpace of a one-value file.
Content(f) == IF f.lines = <<>> THEN "" ELSE f.lines[1].val

SysctlCheck(p, fs) ==
  Judge(p.json /\ p.key # "" /\ p.goodPath, fs[1], compare(Content(fs[1]), p.expected))

----
\* filesystem

\* Perm() and, with the special bits, the sticky bit: %04o of mode.
formatDirMode(f) == f.mode + (IF f.sticky THEN 512 ELSE 0)

DirPermCheck(p, fs) ==
  Judge(p.json /\ p.key # "" /\ p.goodPath, fs[1],
        IF ~fs[1].dir THEN "error"
        ELSE IF /\ formatDirMode(fs[1]) = p.mode
                /\ p.sticky # "unset" => ((p.sticky = "true") <=> fs[1].sticky)
             THEN "pass" ELSE "fail")

FileExistCheck(p, fs) ==
  IF ~(p.json /\ p.key # "" /\ p.goodPath /\ p.expected \in {"exists", "not_exists"})
  THEN "invalid"
  ELSE CASE fs[1].st = "absent" -> compare("not_exists", p.expected)
         [] fs[1].st = "ok"     -> compare("exists", p.expected)
         [] OTHER               -> "error"

FilePermCheck(p, fs) ==
  Judge(p.json /\ p.key # "" /\ p.goodPath, fs[1],
        IF fs[1].mode = p.mode THEN "pass" ELSE "fail")

\* The first line of /proc/mounts for the mount point; none is an error.
MountOptionCheck(p, fs) ==
  LET hits == SelectSeq(Seen(fs[1]), LAMBDA l : l.key = p.key /\ l.kind = "entry") IN
  Judge(p.json /\ p.key # "" /\ p.expected # "", fs[1],
        Scan1(fs[1], hits,
              IF p.expected \in hits[1].opts THEN "pass" ELSE "fail",
              "error"))

----
\* network

\* The command is started under the request's context.
IPTablesCheck(p, fs, gone) ==
  Judge(p.json /\ p.key \in {"INPUT", "OUTPUT", "FORWARD"}, fs[1],
        IF gone \/ fs[1].lines = <<>> THEN "error"
        ELSE compare(IF fs[1].lines[1].kind = "entry" THEN fs[1].lines[1].val
                     ELSE "no policy (custom chain)", p.expected))

NetworkParamCheck(p, fs) ==
  Judge(p.json /\ p.key # "" /\ p.goodPath, fs[1], compare(Content(fs[1]), p.expected))

\* checkProcNetTCP on one of the two files, after its header line; a file that
\* does not exist has no listener.
checkProcNetTCP(f, port) ==
  CASE f.st = "absent" -> "no"
    [] f.st = "ok"     -> Scan1(f, SelectSeq(Seen(f), LAMBDA l : l.key = port /\ l.val = "0A"), "yes", "no")
    [] OTHER           -> "error"

\* Variant: any error on the first file is skipped, not only "does not exist".
isPortListeningSkips(fs, port) ==
  IF checkProcNetTCP(fs[1], port) = "yes" THEN "yes" ELSE checkProcNetTCP(fs[2], port)

isPortListening(fs, port) ==
  IF checkProcNetTCP(fs[1], port) # "no" THEN checkProcNetTCP(fs[1], port)
  ELSE checkProcNetTCP(fs[2], port)

PortCheck(p, fs) ==
  IF ~(p.json /\ p.key # "" /\ p.expected \in {"listening", "not_listening"}) THEN "invalid"
  ELSE CASE isPortListening(fs, p.key) = "yes" -> compare("listening", p.expected)
         [] isPortListening(fs, p.key) = "no"  -> compare("not_listening", p.expected)
         [] OTHER                              -> "error"

\* The last value set for the key, so the scan goes on to the end.
parseSSHDConfig(f, key) ==
  LET set == SelectSeq(Seen(f), LAMBDA l : l.kind = "entry" /\ l.key = key)
  IN  IF set = <<>> THEN "" ELSE set[Len(set)].val

SSHConfigCheck(p, fs) ==
  Judge(p.json /\ p.key # "", fs[1],
        IF ReadWhole(fs[1]) THEN compare(parseSSHDConfig(fs[1], p.key), p.expected)
        ELSE "error")

----
\* service

\* Counts the entries and passes whatever the count.
CronCheck(p, fs) ==
  Judge(p.json /\ p.key # "" /\ p.goodPath, fs[1],
        IF ReadWhole(fs[1]) THEN "pass" ELSE "error")

\* A bad file name is found by pamModuleInFile: an error result, not a Go error.
PAMCheck(p, fs) ==
  Judge(p.json /\ p.key # "", fs[1],
        IF ~p.goodPath THEN "error"
        ELSE Scan1(fs[1], SelectSeq(Seen(fs[1]), LAMBDA l : l.kind # "comment" /\ l.key = p.key),
                   "pass", "fail"))

\* systemctl ends non-zero for every state but active and still prints the state.
ServiceCheck(p, fs, gone) ==
  IF ~(p.json /\ p.key # "" /\ p.expected # "") THEN "invalid"
  ELSE IF gone \/ fs[1].st = "denied" \/ (fs[1].st = "exit" /\ Content(fs[1]) = "")
       THEN "error" ELSE compare(Content(fs[1]), p.expected)

userExistsInPasswd(f, user) ==
  Scan1(f, SelectSeq(Seen(f), LAMBDA l : l.kind # "comment" /\ l.key = user), "pass", "fail")

userIsLocked(f, user) ==
  LET hits == SelectSeq(Seen(f), LAMBDA l : l.kind = "entry" /\ l.key = user)
  IN  Scan1(f, hits, IF hits[1].val \in {"!", "!!", "*"} THEN "pass" ELSE "fail", "error")

UserCheck(p, fs) ==
  Judge(p.json /\ p.key # "" /\ p.check \in {"exists", "locked"}, fs[1],
        IF p.check = "exists" THEN userExistsInPasswd(fs[1], p.key)
        ELSE userIsLocked(fs[1], p.key))

----
\* container

\* The v2 marker, then the v1 marker.
CgroupCheck(p, fs) == IF fs[1].st = "ok" \/ fs[2].st = "ok" THEN "pass" ELSE "error"

ContainerdCheck(p, fs) ==
  LET l == SelectSeq(fs[1].lines, LAMBDA e : e.kind = "entry" /\ e.key = p.key)
  IN  Judge(p.json /\ p.key # "", fs[1],
            IF l = <<>> THEN "fail" ELSE compare(l[1].val, p.expected))

\* The key is looked for in the text before the text is parsed: "nested" is a
\* key below the top level, "broken" makes the document no JSON.
DockerCheck(p, fs) ==
  LET top == SelectSeq(fs[1].lines, LAMBDA e : e.kind = "entry" /\ e.key = p.key)
  IN  Judge(p.json /\ p.key # "", fs[1],
            CASE ~\E i \in 1..Len(fs[1].lines) : fs[1].lines[i].key = p.key -> "fail"
              [] /\ \E i \in 1..Len(fs[1].lines) : fs[1].lines[i].key = p.key
                 /\ \E i \in 1..Len(fs[1].lines) : fs[1].lines[i].kind = "broken" -> "error"
              [] OTHER -> IF top = <<>> THEN "fail" ELSE compare(top[1].val, p.expected))

ContainerRuntimeCheck(p, fs) ==
  LET expected == IF p.expected = "" THEN "available" ELSE p.expected
  IN  IF ~(p.json /\ p.key \in {"docker", "containerd", "cri-o"}) THEN "invalid"
      ELSE CASE fs[1].st = "absent" -> compare("not_available", expected)
             [] fs[1].st = "ok"     -> compare("available", expected)
             [] OTHER               -> "error"

----
\* The registry: the checker of each type. A type that is not in it is unknown.
Check(type, p, fs, gone) ==
  CASE type = "boot_param_check"        -> BootParamCheck(p, fs)
    [] type = "kernel_module_check"     -> KernelModuleCheck(p, fs)
    [] type = "kernel_version_check"    -> KernelVersionCheck(p, fs)
    [] type = "sysctl_check"            -> SysctlCheck(p, fs)
    [] type = "dir_perm_check"          -> DirPermCheck(p, fs)
    [] type = "file_exist_check"        -> FileExistCheck(p, fs)
    [] type = "file_perm_check"         -> FilePermCheck(p, fs)
    [] type = "mount_option_check"      -> MountOptionCheck(p, fs)
    [] type = "iptables_check"          -> IPTablesCheck(p, fs, gone)
    [] type = "network_param_check"     -> NetworkParamCheck(p, fs)
    [] type = "port_check"              -> PortCheck(p, fs)
    [] type = "ssh_config_check"        -> SSHConfigCheck(p, fs)
    [] type = "cron_check"              -> CronCheck(p, fs)
    [] type = "pam_check"               -> PAMCheck(p, fs)
    [] type = "service_check"           -> ServiceCheck(p, fs, gone)
    [] type = "user_check"              -> UserCheck(p, fs)
    [] type = "cgroup_check"            -> CgroupCheck(p, fs)
    [] type = "containerd_check"        -> ContainerdCheck(p, fs)
    [] type = "docker_check"            -> DockerCheck(p, fs)
    [] type = "container_runtime_check" -> ContainerRuntimeCheck(p, fs)
    [] OTHER                            -> "invalid"

\* The status of an item: an unknown type and a checker's Go error both become
\* StatusError.
executeOne(item, fs, gone) ==
  LET v == Check(item.type, item.p, fs, gone) IN IF v = "invalid" THEN "error" ELSE v

----
HealthInit ==
  /\ items = <<>> /\ phase = "idle" /\ late = FALSE /\ streamUp = TRUE
  /\ results = <<>> /\ last = <<>> /\ received = <<>>

\* The platform's request reaches the handler; an agent that is shutting down, or
\* has no checker, refuses it before any item runs.
HandleHealthCheck ==
  /\ phase = "idle"
  /\ items' \in HealthRequest
  /\ phase' \in {"refused", "running"}
  /\ UNCHANGED <<late, streamUp, results, last, received>>

\* context.WithTimeout: only the checkers that run a command look at it.
HealthDeadline ==
  /\ phase = "running" /\ ~late /\ late' = TRUE
  /\ UNCHANGED <<items, phase, streamUp, results, last, received>>

\* The stream breaks or is back: a message sent without one is dropped.
StreamChanges ==
  /\ phase = "running" /\ streamUp' = ~streamUp
  /\ UNCHANGED <<items, phase, late, results, last, received>>

SendHealthCheckResult(m) == received' = IF streamUp THEN Append(received, m) ELSE received

\* How many of the results have the status.
Tally(rs, status) == Cardinality({i \in 1..Len(rs) : rs[i] = status})

BuildSummary(rs) ==
  [total |-> Len(rs), pass |-> Tally(rs, "pass"), fail |-> Tally(rs, "fail"),
   error |-> Tally(rs, "error")]

\* One turn of Execute's loop: the check, then the intermediate message.
ExecuteItem ==
  LET i == Len(results) + 1 IN
  /\ phase = "running" /\ i <= Len(items)
  /\ \E fs \in HostFiles[items[i].type] :
       LET st == executeOne(items[i], fs, late) IN
       /\ results' = Append(results, st)
       /\ last' = <<[item |-> items[i], files |-> fs, late |-> late]>>
       /\ SendHealthCheckResult([completed |-> FALSE, results |-> <<st>>, summary |-> BuildSummary(<<>>)])
  /\ UNCHANGED <<items, phase, late, streamUp>>

\* Variant: Execute gives up when the deadline has passed.
CompleteOnTime ==
  /\ phase = "running" /\ (Len(results) = Len(items) \/ late)
  /\ SendHealthCheckResult([completed |-> TRUE, results |-> results,
                            summary |-> BuildSummary(results)])
  /\ phase' = "over" /\ last' = <<>>
  /\ UNCHANGED <<items, late, streamUp, results>>

\* After the last item: every result again, with the summary.
Complete ==
  /\ phase = "running" /\ Len(results) = Len(items)
  /\ SendHealthCheckResult([completed |-> TRUE, results |-> results,
                            summary |-> BuildSummary(results)])
  /\ phase' = "over" /\ last' = <<>>
  /\ UNCHANGED <<items, late, streamUp, results>>

HealthNext ==
  HandleHealthCheck \/ HealthDeadline \/ StreamChanges \/ ExecuteItem \/ Complete

HealthSpec == HealthInit /\ [][HealthNext]_healthVars

----
\* What a file whose content was not seen may have held: a file that could not
\* be opened any content that can, an over-long line and what follows it any
\* lines.
Completions(f, all) ==
  {f} \cup (IF f.st = "denied" THEN {g \in all : g.st = "ok"} ELSE {})
      \cup (IF f.st = "ok" /\ ~ReadWhole(f)
            THEN {[f EXCEPT !.lines = Seen(f) \o t] : t \in LostTail} ELSE {})

\* A check passes or fails only on what it read: for every checker, filling in
\* the part of the host it could not read (a file that could not be opened, the
\* lines a bufio.Scanner never delivered) does not change the verdict. Where it
\* would, the checker has to answer StatusError.
VerdictOnEvidence ==
  last # <<>> /\ results[Len(results)] # "error" =>
    LET c   == last[1]
        all == {g[1] : g \in HostFiles[c.item.type]}
    IN  \A k \in 1..Len(c.files) : \A g \in Completions(c.files[k], all) :
          (g.st = "ok" /\ ReadWhole(g)) =>
             executeOne(c.item, [c.files EXCEPT ![k] = g], c.late) = results[Len(results)]

\* The completed message stands by itself: whatever intermediate messages were
\* lost, and however early the deadline passed, it is the last message, holds
\* one result per item of the request, and its summary partitions them.
CompletedIsWhole ==
  \A m \in 1..Len(received) : received[m].completed =>
    LET s == received[m].summary IN
    /\ m = Len(received) /\ phase = "over"
    /\ Len(received[m].results) = Len(items) /\ s.total = Len(items)
    /\ s.pass + s.fail + s.error = s.total
====
