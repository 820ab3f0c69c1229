---- MODULE Discovery ----
\* The discovery service (internal/discovery): passes over the configured layers,
\* at once and then on a ticker, whose merged result LastResults hands out.
\*
\* A service is [type, name, pid, ports]. What a layer looks at may change between
\* two passes and between two layers: it is chosen when the layer runs.
EXTENDS Naturals, Sequences, FiniteSets, Functions

CONSTANTS Layers,      \* the enabled layers, in the order of the configuration
          UnitLists,   \* what systemctl list-units prints: sequences of
                       \* [unit, service, pid] (pid 0: no main process or no answer)
          Connections, \* sets of [pid, port, listen]
          ProcName,    \* the name gopsutil or /proc/<pid>/comm gives a pid, "" for none
          Containers,  \* sequences of [name, id, state, ports]; a port is [public, private]
          periodic     \* Interval > 0

ASSUME DiscoveryAssumption ==
  /\ Layers \in Seq({"systemd", "proc", "container", "metadata"})
  /\ \A us \in UnitLists \cup Containers : Len(us) \in Nat
  /\ \A cs \in Connections : IsFiniteSet(cs)

VARIABLES dpc,       \* "pass", "wait" or "returned"
          layer,     \* the next layer of the pass
          rest,      \* what is left of the services the last layer returned
          seenKeys,  \* discover's seen
          found,     \* discover's results so far
          lastRun,   \* the published result
          stopping,  \* the context is cancelled
          offered    \* every service the layers of the pass returned

discoveryVars == <<dpc, layer, rest, seenKeys, found, lastRun, stopping, offered>>

dedupKey(s) == <<s.type, s.name>>
Keys(ss) == {dedupKey(ss[i]) : i \in 1..Len(ss)}
Failed == <<[type |-> "error", name |-> <<>>, pid |-> 0, ports |-> {}]>>
Service(type, name, pid, ports) == [type |-> type, name |-> name, pid |-> pid, ports |-> ports]

DiscoveryInit ==
  /\ dpc = "pass" /\ layer = 1 /\ rest = <<>> /\ seenKeys = {} /\ found = <<>>
  /\ lastRun = <<>> /\ stopping = FALSE /\ offered = {}

----
\* The layers. Each returns the set of results Discover may give.

\* The members of a set in any order, and those of a set of positions in theirs.
Orders(T) == Injection(1..Cardinality(T), T)
InOrder(T) == {o \in Orders(T) : \A i, j \in DOMAIN o : i < j => o[i] < o[j]}

\* systemctl runs under the context. A unit that is no .service, or without a main
\* process, is left out.
SystemdDiscover(gone) ==
  IF gone THEN {Failed}
  ELSE {Failed} \cup UNION
       {{[i \in DOMAIN o |-> Service("systemd", <<"name", us[o[i]].unit>>, us[o[i]].pid, {})] :
         o \in InOrder({k \in 1..Len(us) : us[k].service /\ us[k].pid > 0})} :
        us \in UnitLists}

procDetails(pid) == IF ProcName[pid] = "" THEN <<"pid", pid>> ELSE <<"name", ProcName[pid]>>

\* The listening sockets with an owner, grouped by process; a Go map gives the
\* processes in any order. The context is looked at before each process.
ProcDiscover(gone) ==
  {Failed} \cup UNION
  {LET owners == {c.pid : c \in {c \in cs : c.listen /\ c.pid > 0 /\ c.port > 0}}
       Ports(pid) == {c.port : c \in {c \in cs : c.listen /\ c.pid = pid /\ c.port > 0}}
   IN  IF gone /\ owners # {} THEN {Failed}
       ELSE {[i \in DOMAIN order |->
                Service("process", procDetails(order[i]), order[i], Ports(order[i]))] :
             order \in Orders(owners)} : cs \in Connections}

extractPublicPorts(ports) == {IF p.public > 0 THEN p.public ELSE p.private : p \in ports}

\* No socket is no error; the Docker API is asked under the context. A container
\* without a name goes by the first twelve characters of its id.
ContainerDiscover(gone) ==
  {<<>>, Failed} \cup
  (IF gone THEN {}
   ELSE UNION
        {{[i \in DOMAIN o |->
            Service("container", IF cs[o[i]].name = "" THEN <<"id", cs[o[i]].id>> ELSE <<"name", cs[o[i]].name>>,
                    0, extractPublicPorts(cs[o[i]].ports))] :
          o \in InOrder({k \in 1..Len(cs) : cs[k].state = "running"})} : cs \in Containers})

\* Four requests, each of which may fail; without the instance id there is nothing.
MetadataDiscover(gone) ==
  {<<>>} \cup (IF gone THEN {} ELSE {<<Service("cloud_metadata", <<"id", 1>>, 0, {})>>})

Discover(l) ==
  CASE l = "systemd"   -> SystemdDiscover(stopping)
    [] l = "proc"      -> ProcDiscover(stopping)
    [] l = "container" -> ContainerDiscover(stopping)
    [] l = "metadata"  -> MetadataDiscover(stopping)

\* One layer of discover: an error is logged and the next layer runs.
LayerRuns ==
  /\ dpc = "pass" /\ rest = <<>> /\ layer <= Len(Layers)
  /\ layer' = layer + 1
  /\ \E ss \in Discover(Layers[layer]) :
       IF ss = Failed THEN UNCHANGED <<rest, offered>>
       ELSE rest' = ss /\ offered' = offered \cup Keys(ss)
  /\ UNCHANGED <<dpc, seenKeys, found, lastRun, stopping>>

\* Variant: only what an earlier layer returned counts as seen.
KeepFirstOfLayers ==
  /\ rest # <<>>
  /\ rest' = Tail(rest)
  /\ found' = IF dedupKey(Head(rest)) \in seenKeys THEN found ELSE Append(found, Head(rest))
  /\ seenKeys' = IF rest' = <<>> THEN Keys(found') ELSE seenKeys
  /\ UNCHANGED <<dpc, layer, lastRun, stopping, offered>>

\* One service of the layer: the first of its key is kept.
KeepFirst ==
  /\ rest # <<>>
  /\ rest' = Tail(rest)
  /\ LET key == dedupKey(Head(rest)) IN
     IF key \in seenKeys THEN UNCHANGED <<seenKeys, found>>
     ELSE seenKeys' = seenKeys \cup {key} /\ found' = Append(found, Head(rest))
  /\ UNCHANGED <<dpc, layer, lastRun, stopping, offered>>

\* Run stores the result of the pass under the lock.
PublishPass ==
  /\ dpc = "pass" /\ rest = <<>> /\ layer = Len(Layers) + 1
  /\ lastRun' = found /\ found' = <<>> /\ seenKeys' = {} /\ layer' = 1 /\ dpc' = "wait"
  /\ UNCHANGED <<rest, stopping, offered>>

\* The select of Run takes the tick, also when the context is over as well.
PassTick ==
  /\ dpc = "wait" /\ periodic
  /\ dpc' = "pass" /\ offered' = {}
  /\ UNCHANGED <<layer, rest, seenKeys, found, lastRun, stopping>>

DiscoveryCancelled ==
  /\ ~stopping /\ stopping' = TRUE
  /\ UNCHANGED <<dpc, layer, rest, seenKeys, found, lastRun, offered>>

RunReturnsLast ==
  /\ dpc = "wait" /\ stopping
  /\ dpc' = "returned"
  /\ UNCHANGED <<layer, rest, seenKeys, found, lastRun, stopping, offered>>

DiscoveryNext ==
  LayerRuns \/ KeepFirst \/ PublishPass \/ PassTick \/ DiscoveryCancelled \/ RunReturnsLast

DiscoverySpec == DiscoveryInit /\ [][DiscoveryNext]_discoveryVars

----
\* What is published is one whole pass: every service a layer of that pass
\* returned is in it under its type and name, whichever other layers failed, no
\* two entries share a type and a name, and a reader sees no pass half done.
PassIsWhole ==
  dpc # "pass" =>
    /\ Keys(lastRun) = offered
    /\ \A i, j \in 1..Len(lastRun) : i # j => dedupKey(lastRun[i]) # dedupKey(lastRun[j])
====
