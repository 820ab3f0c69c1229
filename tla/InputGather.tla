---------------------------- MODULE InputGather ----------------------------
(***************************************************************************)
(* One Gather of an input that reads the host or asks other machines       *)
(* (internal/collector/inputs except tail, journald and syslog), called by *)
(* gatherOnce.  The inputs differ in what one bad item does: snmp,         *)
(* cloud_metadata and disk give up, and gatherOnce then drops what the     *)
(* good items brought; http reports the failure as a metric; process, gpu  *)
(* and memory pass over it.                                                *)
(*                                                                         *)
(* A behaviour configures one input, initialises it and gathers once.      *)
(* Items (agents, urls, processes, connections, partitions, lines) are     *)
(* numbers and are visited in order.  What the world answers for an item   *)
(* is chosen when it is asked.                                             *)
(***************************************************************************)
EXTENDS Integers, FiniteSets

CONSTANTS
    Items,      \* bound: items of an input
    TopN,       \* values of top_n a configuration can hold
    Load        \* values of a process's cpu share

ASSUME GatherAssumption == Items \in Nat /\ TopN \subseteq Int

VARIABLES
    input,      \* the configured input
    opt,        \* the class of its configuration values
    filter,     \* the items its configuration selects (disk, connections)
    topN,       \* process: top_n
    avail,      \* gpu, temp: found at Init
    gpc,        \* where it is
    n,          \* items there are
    item,       \* the item it is at
    seen,       \* answers so far
    acc,        \* what is in the accumulator
    out,        \* what gatherOnce passes on
    gDone       \* the context is cancelled

gatherVars == <<input, opt, filter, topN, avail, gpc, n, item, seen, acc, out, gDone>>

Inputs == {"snmp", "cloud_metadata", "http", "process", "gpu", "connections", "disk",
           "cpu", "memory", "temp", "net", "diskio", "load"}
Opt == {"absent", "good", "wrong_type", "out_of_range"}

(***************************************************************************)
(* Init of the inputs: which configurations they refuse.                   *)
(***************************************************************************)
SnmpInit == opt = "wrong_type" \/ opt = "out_of_range"      \* version must be 1, 2 or 3
HttpInit == opt = "wrong_type"
ProcessInit == opt = "wrong_type" \/ topN <= 0
GpuInit == opt = "wrong_type"
CpuInit == opt = "wrong_type"
DiskInit == opt = "wrong_type"                  \* a list of mount points
DiskioInit == opt = "wrong_type"                \* a list of devices
ConnectionsInit == opt = "wrong_type"           \* a list of states
CloudInit == FALSE                              \* a value of the wrong type is ignored

Refuses ==
    \/ input = "snmp" /\ SnmpInit
    \/ input = "http" /\ HttpInit
    \/ input = "process" /\ ProcessInit
    \/ input = "gpu" /\ GpuInit
    \/ input = "cpu" /\ CpuInit
    \/ input = "disk" /\ DiskInit
    \/ input = "diskio" /\ DiskioInit
    \/ input = "connections" /\ ConnectionsInit
    \/ input = "cloud_metadata" /\ CloudInit

InputInit ==
    /\ gpc = "init"
    /\ gpc' = IF Refuses THEN "refused" ELSE "list"
    /\ avail' \in IF input \in {"gpu", "temp"} THEN BOOLEAN ELSE {TRUE}
    /\ UNCHANGED <<input, opt, filter, topN, n, item, seen, acc, out, gDone>>

CancelGather ==
    /\ ~gDone /\ gpc \in {"list", "item", "end"}
    /\ gDone' = TRUE
    /\ UNCHANGED <<input, opt, filter, topN, avail, gpc, n, item, seen, acc, out>>

(***************************************************************************)
(* Gather.                                                                 *)
(***************************************************************************)
Fail == gpc' = "failed" /\ UNCHANGED <<n, item, seen, acc>>

\* Configured targets, the partitions, the pids, the connections, the lines
\* nvidia-smi prints: reading the list can fail.  Without permission connections
\* reports nothing.  process adds its summary (0), memory its virtual memory (0).
List ==
    /\ gpc = "list"
    /\ \/ ~avail /\ gpc' = "end" /\ UNCHANGED <<n, item, seen, acc>>
       \/ avail /\ input \notin {"snmp", "http", "cloud_metadata", "cpu"} /\ Fail
       \/ input = "connections" /\ gpc' = "end" /\ UNCHANGED <<n, item, seen, acc>>
       \/ /\ avail
          /\ n' \in IF input = "cloud_metadata" THEN {Items}
                    ELSE IF input \in {"memory", "load"} THEN {1} ELSE 0 .. Items
          /\ gpc' = "item"
          /\ acc' = IF input \in {"process", "memory"} THEN {0} ELSE {}
          /\ UNCHANGED <<item, seen>>
    /\ UNCHANGED <<input, opt, filter, topN, avail, out, gDone>>

\* What an item can answer.
Answer ==
    CASE input \in {"process"} -> [ok : {TRUE}, cpu : Load] \cup {[ok |-> FALSE]}
      [] input \in {"connections"} -> [ok : {TRUE}, proto : {"tcp", "udp"}, state : {"NONE", "LISTEN"}]
      [] input = "snmp" -> [ok : {TRUE}, fields : BOOLEAN] \cup {[ok |-> FALSE]}
      [] input \in {"temp", "net", "diskio", "load"} -> {[ok |-> TRUE]}
      [] OTHER -> [ok : BOOLEAN]

Next1(a) == seen' = [k \in 1 .. item |-> IF k = item THEN a ELSE seen[k]] /\ item' = item + 1

\* An agent that does not answer ends the Gather, and so does a cancelled
\* context; one that answers without a usable value is passed over.
gatherAgent(a) ==
    IF ~a.ok \/ gDone THEN Fail
    ELSE Next1(a) /\ acc' = (IF a.fields THEN acc \cup {item} ELSE acc) /\ UNCHANGED <<gpc, n>>

\* The partitions the configuration selects; no mount point means all.
InFilter(k) == filter = {} \/ k \in filter

gatherDisk(a) ==
    IF InFilter(item) /\ ~a.ok THEN Fail
    ELSE Next1(a) /\ acc' = (IF InFilter(item) THEN acc \cup {item} ELSE acc) /\ UNCHANGED <<gpc, n>>

\* Per-cpu and total usage: each reading can fail.
gatherCPU(a) ==
    IF ~a.ok THEN Fail ELSE Next1(a) /\ acc' = acc \cup {item} /\ UNCHANGED <<gpc, n>>

\* All four paths have to be fetched before the one metric is added.
fetchMetadata(a) ==
    IF ~a.ok THEN Fail
    ELSE Next1(a) /\ acc' = (IF item = n THEN {item} ELSE acc) /\ UNCHANGED <<gpc, n>>

\* A failed request is a metric too, with the error in place of the status.
gatherURL(a) == Next1(a) /\ acc' = acc \cup {item} /\ UNCHANGED <<gpc, n>>

Keep(a) == Next1(a) /\ acc' = (IF a.ok THEN acc \cup {item} ELSE acc) /\ UNCHANGED <<gpc, n>>

gatherGPU(a) == Keep(a)         \* a malformed line is passed over
gatherMemory(a) == Keep(a)      \* so is swap that cannot be read

\* The sensors, interfaces, devices and averages the one call returned.
gatherTemp(a) == Keep(a)
gatherNet(a) == Keep(a)
gatherDiskio(a) == Keep(a)
gatherLoad(a) == Keep(a)

\* A process that has exited is passed over; the ones read wait for the sort.
readProcess(a) == IF gDone THEN Fail ELSE Next1(a) /\ UNCHANGED <<gpc, n, acc>>

countConnection(a) == Next1(a) /\ UNCHANGED <<gpc, n, acc>>

GatherItem ==
    /\ gpc = "item" /\ item <= n
    /\ \E a \in Answer :
           CASE input = "snmp" -> gatherAgent(a)
             [] input = "disk" -> gatherDisk(a)
             [] input = "cloud_metadata" -> fetchMetadata(a)
             [] input = "cpu" -> gatherCPU(a)
             [] input = "http" -> gatherURL(a)
             [] input = "gpu" -> gatherGPU(a)
             [] input = "memory" -> gatherMemory(a)
             [] input = "temp" -> gatherTemp(a)
             [] input = "net" -> gatherNet(a)
             [] input = "diskio" -> gatherDiskio(a)
             [] input = "load" -> gatherLoad(a)
             [] input = "process" -> readProcess(a)
             [] input = "connections" -> countConnection(a)
    /\ UNCHANGED <<input, opt, filter, topN, avail, out, gDone>>

Readable == {k \in DOMAIN seen : seen[k].ok}

\* The first topN of the processes sorted by cpu share; the order of equal
\* ones is not determined.
topProcesses(T) ==
    /\ Cardinality(T) = (IF topN < Cardinality(Readable) THEN topN ELSE Cardinality(Readable))
    /\ \A k \in T, r \in Readable \ T : seen[k].cpu >= seen[r].cpu

\* A count of the connections per protocol and state, the configured states
\* only (an empty filter means all).
States == IF filter = {} THEN {"NONE", "LISTEN"} ELSE {"LISTEN"}

Counts ==
    {[proto |-> p, state |-> s,
      count |-> Cardinality({k \in DOMAIN seen : seen[k].proto = p /\ seen[k].state = s})] :
         p \in {"tcp", "udp"}, s \in States}

GatherEnds ==
    /\ gpc = "item" /\ item > n
    /\ CASE input = "process" -> \E T \in SUBSET Readable : topProcesses(T) /\ acc' = acc \cup T
         [] input = "connections" -> acc' = {c \in Counts : c.count > 0}
         [] OTHER -> UNCHANGED acc
    /\ gpc' = "end"
    /\ UNCHANGED <<input, opt, filter, topN, avail, n, item, seen, out, gDone>>

\* Variant: what is in the accumulator is passed on after an error.
gatherOnceKeeps ==
    /\ gpc \in {"end", "failed"}
    /\ \/ out' = acc
       \/ gDone /\ UNCHANGED out
    /\ gpc' = "done"
    /\ UNCHANGED <<input, opt, filter, topN, avail, n, item, seen, acc, gDone>>

\* gatherOnce: an error drops everything; otherwise the metrics go to the
\* channel unless the context is done.
gatherOnce ==
    /\ gpc \in {"end", "failed"}
    /\ \/ gpc = "end" /\ out' = acc
       \/ gpc = "failed" /\ UNCHANGED out
       \/ gDone /\ UNCHANGED out
    /\ gpc' = "done"
    /\ UNCHANGED <<input, opt, filter, topN, avail, n, item, seen, acc, gDone>>

GatherInit ==
    /\ input \in Inputs
    /\ opt \in Opt
    /\ filter \in IF input = "disk" THEN SUBSET (1 .. Items)
                  ELSE IF input = "connections" THEN {{}, {1}} ELSE {{}}
    /\ topN \in IF input = "process" THEN TopN ELSE {1}
    /\ avail = TRUE /\ gpc = "init" /\ n = 0 /\ item = 1
    /\ seen = <<>> /\ acc = {} /\ out = {} /\ gDone = FALSE

GatherNext ==
    InputInit \/ CancelGather \/ List \/ GatherItem \/ GatherEnds \/ gatherOnce

GatherSpec == GatherInit /\ [][GatherNext]_gatherVars

(***************************************************************************)
(* Properties.                                                             *)
(***************************************************************************)

\* What snmp, cloud_metadata, disk and cpu pass on is complete: every agent,
\* path, selected partition and reading answered in that Gather.
StrictInputsAllOrNothing ==
    gpc = "done" /\ out # {} /\ input \in {"snmp", "cloud_metadata", "disk", "cpu"} =>
        /\ item = n + 1
        /\ \A k \in 1 .. n : seen[k].ok \/ (input = "disk" /\ ~InFilter(k))

\* A Gather that delivers has a metric for every url, reached or not, and for
\* everything gpu and memory could read.  (0 is the virtual memory.)
LenientInputsReportAll ==
    gpc = "done" /\ out # {} =>
        /\ input = "http" => out = 1 .. n
        /\ input = "gpu" => out = Readable
        /\ input = "memory" => out = Readable \cup {0}

\* process passes on its summary and at least one process when there is one
\* it could read, and no process it leaves out was busier than one it reports.
BusiestProcessesReported ==
    gpc = "done" /\ input = "process" /\ out # {} =>
        /\ 0 \in out
        /\ Readable # {} => out \ {0} # {}
        /\ \A k \in out \ {0}, r \in Readable \ out : seen[k].cpu >= seen[r].cpu

\* The count reported for a protocol and a state, none being zero.
CountOf(p, s) ==
    IF \E c \in out : c.proto = p /\ c.state = s
    THEN (CHOOSE c \in out : c.proto = p /\ c.state = s).count ELSE 0

\* connections reports a protocol and a state once, and the counts add up to
\* the connections of the configured states.
ConnectionsCounted ==
    gpc = "done" /\ input = "connections" /\ out # {} =>
        /\ \A c \in out : c.state \in States
        /\ \A c, d \in out : c.proto = d.proto /\ c.state = d.state => c = d
        /\ CountOf("tcp", "NONE") + CountOf("tcp", "LISTEN")
               + CountOf("udp", "NONE") + CountOf("udp", "LISTEN")
           = Cardinality({k \in 1 .. n : seen[k].state \in States})

\* What a Gather passes on is what its input promises when some of the items it
\* asked for fail: all or nothing, all that could be read, the busiest, or
\* counts that add up.
GatherComplete ==
    /\ StrictInputsAllOrNothing /\ LenientInputsReportAll
    /\ BusiestProcessesReported /\ ConnectionsCounted
============================================================================
