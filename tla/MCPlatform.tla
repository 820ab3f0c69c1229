----------------------------- MODULE MCPlatform -----------------------------
(***************************************************************************)
(* The parts of the agent around the collection pipeline, each on a small  *)
(* instance.  A behaviour is one of one part, named by focus; the others   *)
(* stay in an initial state.                                               *)
(***************************************************************************)
EXTENDS Federation, SshProxy, Updater, Marketplace, OutputStreamer,
        SandboxRun, HealthCheck, AgentLifecycle, Discovery

CONSTANTS a1, a2, t1, t2

VARIABLE focus

(* Federation: overlapping groups, and levels that set a key as a scalar and *)
(* as a map.                                                                 *)
MCGroup == <<"db", "web">>
MCMatch == [g \in {"db", "web"} |-> IF g = "db" THEN [role |-> "db"] ELSE [env |-> "prod"]]
MCLabelSet == {<<>>, [role |-> "db"], [env |-> "prod"], [role |-> "web", env |-> "prod"]}
Scalar(v) == [val |-> v]
Nested(f) == [map |-> f]
MCLevelSet ==
  {[global |-> [x |-> Scalar(1), m |-> Nested([p |-> Scalar(1), q |-> Scalar(1)])],
    region |-> [m |-> Nested([q |-> Scalar(2)])],
    groups |-> [db |-> [x |-> Scalar(3)], web |-> [m |-> Nested([p |-> Scalar(4)]), x |-> Scalar(4)]],
    agents |-> a1 :> [m |-> Nested([r |-> Scalar(5)]), x |-> Scalar(5)]],
   [global |-> <<>>,
    region |-> [m |-> Scalar(2), x |-> Scalar(2)],
    groups |-> [db |-> [m |-> Nested([p |-> Scalar(3)])]],
    agents |-> a2 :> [x |-> Nested([p |-> Scalar(6)])]]}

(* The sandbox. *)
MCSandboxConfig == {[timeout |-> 0, max |-> 0, mem |-> 0, tasks |-> 1, cgroup |-> TRUE], [timeout |-> 5, max |-> 2, mem |-> 9, tasks |-> 2, cgroup |-> FALSE]}
Request(k, id, name, args, net, to, mem) == [kind |-> k, id |-> id, cmd |-> [name |-> name, args |-> args], net |-> net, timeout |-> to, mem |-> mem]
MCSandboxRequest == {Request("command", "ok", "ls", <<"a">>, "good_ips", 0, 0), Request("command", "bad", "ls", <<>>, "disabled", 90, 99),
  Request("command", "ok", "rm", <<>>, "disabled", 1, 1), Request("script", "ok", "sh", <<"a", "b">>, "bad_ips", 9, 3),
  Request("script", "ok", "awk", <<"a">>, "no_ips", 1, 1), Request("script", "bad", "sh", <<"a">>, "no_ips", 1, 1)}
MCPolicy == [blocked |-> <<"rm", "">>, allowed |-> <<>>, interpreters |-> <<>>, keywords |-> <<"kw">>, allowSudo |-> FALSE, maxScript |-> 2]
MCveth == (t1 :> "v1") @@ (t2 :> "v2")

(* Health checks. *)
Good == [json |-> TRUE, key |-> "k", goodPath |-> TRUE, expected |-> "v", mode |-> 493,
         sticky |-> "unset", check |-> "exists"]
CheckItem(type, p) == [type |-> type, p |-> p]
Want(v) == [Good EXCEPT !.expected = v]

MCHealthItem ==
  {CheckItem("boot_param_check", Want("1")), CheckItem("boot_param_check", Want("")),
   CheckItem("kernel_module_check", Want("not_loaded")), CheckItem("kernel_module_check", [Good EXCEPT !.key = ""]),
   CheckItem("kernel_version_check", [Good EXCEPT !.json = FALSE]),
   CheckItem("sysctl_check", Good), CheckItem("sysctl_check", [Good EXCEPT !.goodPath = FALSE]),
   CheckItem("dir_perm_check", Good), CheckItem("dir_perm_check", [Good EXCEPT !.mode = 1005, !.sticky = "true"]),
   CheckItem("file_exist_check", Want("not_exists")), CheckItem("file_exist_check", Good),
   CheckItem("file_perm_check", Good),
   CheckItem("mount_option_check", Want("noexec")),
   CheckItem("iptables_check", [Want("DROP") EXCEPT !.key = "INPUT"]), CheckItem("iptables_check", Good),
   CheckItem("network_param_check", Good),
   CheckItem("port_check", Want("listening")), CheckItem("port_check", Want("not_listening")),
   CheckItem("ssh_config_check", Good), CheckItem("ssh_config_check", Want("")),
   CheckItem("cron_check", Good), CheckItem("pam_check", Good), CheckItem("pam_check", [Good EXCEPT !.goodPath = FALSE]),
   CheckItem("service_check", Want("active")), CheckItem("service_check", Want("inactive")),
   CheckItem("user_check", Good), CheckItem("user_check", [Good EXCEPT !.check = "locked"]),
   CheckItem("user_check", [Good EXCEPT !.check = "other"]),
   CheckItem("cgroup_check", Good), CheckItem("containerd_check", Good), CheckItem("docker_check", Good),
   CheckItem("container_runtime_check", [Want("") EXCEPT !.key = "docker"]),
   CheckItem("container_runtime_check", Good), CheckItem("unknown", Good)}

Line(kind, key, val) == [kind |-> kind, key |-> key, val |-> val, opts |-> {}]
HostFile(st, ls) == [st |-> st, lines |-> ls, dir |-> TRUE, mode |-> 493, sticky |-> FALSE]
Unreadable == {HostFile("absent", <<>>), HostFile("denied", <<>>)}
Readable(lls) == {HostFile("ok", ls) : ls \in lls}
One(fs) == {<<f>> : f \in fs}
Two(fs) == {<<f, g>> : f \in fs, g \in fs}
Long == Line("long", "x", "")
Lines(v, w) == {<<>>, <<Line("entry", "k", v)>>, <<Line("comment", "k", v), Line("entry", "j", v)>>,
                <<Line("entry", "k", w), Line("entry", "k", v)>>, <<Line("bare", "k", "")>>}
Scanned(v, w) == Lines(v, w) \cup
                 {<<Long>>, <<Line("entry", "k", v), Long>>, <<Line("entry", "j", v), Long>>}
Opts(o) == [Line("entry", "k", "") EXCEPT !.opts = o]

MCHostFiles ==
  [t \in {i.type : i \in MCHealthItem} |->
    CASE t \in {"boot_param_check", "containerd_check"} -> One(Unreadable \cup Readable(Lines("v", "w")))
      [] t \in {"kernel_module_check", "cron_check", "pam_check", "ssh_config_check"} ->
           One(Unreadable \cup Readable(Scanned("v", "w")))
      [] t \in {"kernel_version_check", "sysctl_check", "network_param_check",
                "container_runtime_check", "file_exist_check"} ->
           One(Unreadable \cup Readable({<<>>, <<Line("entry", "", "v")>>, <<Line("entry", "", "w")>>}))
      [] t \in {"dir_perm_check", "file_perm_check"} ->
           One(Unreadable \cup {[HostFile("ok", <<>>) EXCEPT !.mode = m, !.sticky = s, !.dir = d] :
                         m \in {493, 420}, s, d \in BOOLEAN})
      [] t = "mount_option_check" ->
           One(Unreadable \cup Readable({<<>>, <<Opts({"noexec", "ro"})>>, <<Opts({"ro"}), Opts({"noexec"})>>, <<Long>>}))
      [] t = "iptables_check" ->
           One({HostFile("exit", <<>>), HostFile("denied", <<>>)} \cup
               Readable({<<>>, <<Line("entry", "", "DROP")>>, <<Line("bare", "", "")>>}))
      [] t = "service_check" ->
           One({HostFile("denied", <<>>), HostFile("exit", <<>>), HostFile("exit", <<Line("entry", "", "inactive")>>),
                HostFile("ok", <<Line("entry", "", "active")>>)})
      [] t = "port_check" -> Two(Unreadable \cup Readable({<<Line("entry", "k", "0A")>>, <<Line("entry", "k", "01")>>, <<Long>>}))
      [] t = "user_check" -> One(Unreadable \cup Readable(Scanned("!", "x")))
      [] t = "cgroup_check" -> Two(Unreadable \cup Readable({<<>>}))
      [] t = "docker_check" ->
           One(Unreadable \cup Readable(Lines("v", "w") \cup {<<Line("nested", "k", "v")>>, <<Line("entry", "k", "v"), Line("broken", "", "")>>,
                                                 <<Line("broken", "", "")>>}))
      [] OTHER -> One(Readable({<<>>}))]

MCHealthRequest ==
  {<<>>} \cup {<<i>> : i \in MCHealthItem} \cup
  {<<i, j>> : i, j \in {CheckItem("service_check", Want("active")), CheckItem("unknown", Good), CheckItem("sysctl_check", Good)}}

MCLostTail == {<<>>, <<Line("entry", "k", "v")>>, <<Line("entry", "k", "0A")>>, <<Opts({"noexec"})>>}
(* The agent. *)
MCAgentConfig ==
  [inputs : {"none", "good", "bad"}, plugin : {"off", "external", "auto"}, audit : {"good", "bad"},
   parts : {{}, {"plugins", "gateway", "discovery", "hub"}, {"gateway", "leaf"}}, dryRun : BOOLEAN]

(* Discovery. *)
MCLayers == <<"systemd", "proc", "container", "metadata">>
UnitOf(n, s, p) == [unit |-> n, service |-> s, pid |-> p]
MCUnitLists == {<<>>, <<UnitOf("a", TRUE, 1), UnitOf("b", TRUE, 0), UnitOf("c", FALSE, 2)>>, <<UnitOf("a", TRUE, 1), UnitOf("b", TRUE, 2)>>}
ConnectionOf(p, q, l) == [pid |-> p, port |-> q, listen |-> l]
MCConnections == {{}, {ConnectionOf(1, 80, TRUE), ConnectionOf(1, 81, TRUE), ConnectionOf(2, 80, FALSE), ConnectionOf(0, 22, TRUE)},
                  {ConnectionOf(1, 80, TRUE), ConnectionOf(2, 81, TRUE), ConnectionOf(3, 82, TRUE)}}
MCProcName == <<"n", "n", "">>
MCContainers == {<<[name |-> "x", id |-> 7, state |-> "running", ports |-> {[public |-> 0, private |-> 80]}],
                   [name |-> "", id |-> 8, state |-> "running", ports |-> {}],
                   [name |-> "y", id |-> 9, state |-> "paused", ports |-> {}]>>}
-----------------------------------------------------------------------------
Part == {"hub", "leaf", "ssh", "updater", "market", "stream", "sandbox", "health",
         "agent", "discovery"}

\* Of the initial states of a part that is not looked at, one is enough.
Unless(P, choice) == focus \in P \/ choice

MCInit ==
    /\ focus \in Part
    /\ UpdaterInit /\ MarketInit /\ StreamInit /\ HealthInit /\ DiscoveryInit
    /\ FedInit /\ Unless({"hub"}, levels.global = <<>>)
    /\ ProxyInit /\ Unless({"ssh"}, auth = "ok")
    /\ SandboxInit /\ Unless({"sandbox"}, exec = NewExecutor(CHOOSE c \in SandboxConfig : TRUE))
    /\ AgentInit /\ Unless({"agent"}, conf = CHOOSE c \in AgentConfig : TRUE)

Others(p) ==
    /\ p \notin {"hub", "leaf"} => UNCHANGED fedVars
    /\ p # "ssh" => UNCHANGED proxyVars
    /\ p # "updater" => UNCHANGED updaterVars
    /\ p # "market" => UNCHANGED marketVars
    /\ p # "stream" => UNCHANGED streamVars
    /\ p # "sandbox" => UNCHANGED sandboxVars
    /\ p # "health" => UNCHANGED healthVars
    /\ p # "agent" => UNCHANGED agentVars
    /\ p # "discovery" => UNCHANGED discoveryVars
    /\ UNCHANGED focus

MCNext ==
    \/ focus = "hub" /\ ServerNext /\ Others("hub")
    \/ focus = "leaf" /\ LifeNext /\ Others("leaf")
    \/ focus = "ssh" /\ ProxyNext /\ Others("ssh")
    \/ focus = "updater" /\ UpdaterNext /\ Others("updater")
    \/ focus = "market" /\ MarketNext /\ Others("market")
    \/ focus = "stream" /\ StreamNext /\ Others("stream")
    \/ focus = "sandbox" /\ SandboxNext /\ Others("sandbox")
    \/ focus = "health" /\ HealthNext /\ Others("health")
    \/ focus = "agent" /\ AgentNext /\ Others("agent")
    \/ focus = "discovery" /\ DiscoveryNext /\ Others("discovery")

\* The fairness of the parts with a liveness property, asked for when the part
\* is the one looked at.
MCFairness ==
    /\ WF_fedVars(focus = "leaf" /\ LeafConnects)
    /\ WF_fedVars(focus = "leaf" /\ LeafMarks)
    /\ WF_fedVars(focus = "leaf" /\ LeafDrops)
    /\ \A t \in Task : WF_sandboxVars(focus = "sandbox" /\ TaskStep(t))
    /\ WF_agentVars(focus = "agent" /\ AgentStep)
    /\ WF_agentVars(focus = "agent" /\ (RuntimeReady \/ StartupTimeout))
    /\ WF_agentVars(focus = "agent" /\ StopTimeout)

mcVars == <<fedVars, proxyVars, updaterVars, marketVars, streamVars, sandboxVars,
            healthVars, agentVars, discoveryVars, focus>>

MCSpec == MCInit /\ [][MCNext]_mcVars /\ MCFairness
=============================================================================
