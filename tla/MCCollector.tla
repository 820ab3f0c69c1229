---------------------------- MODULE MCCollector ----------------------------
(***************************************************************************)
(* The collection pipeline: its scheduler with two inputs and one reload,  *)
(* its plugins and the alerting behind it, each on a small instance.  A    *)
(* behaviour is one of one part, named by focus; the others stay in an     *)
(* initial state.                                                          *)
(***************************************************************************)
EXTENDS Scheduler, TailInput, JournaldInput, SyslogInput, InputGather,
        Aggregators, DeltaProcessor, Outputs, Processors, Alerting

VARIABLE focus

(* tail: a file of whole lines, and one with a partial or an over-long line. *)
MCPath == <<"p", "q">>
MCTailCap == [p |-> 2, q |-> 1]
MCTailKind == [p |-> {"line"}, q |-> {"part", "long"}]
MCCursorFilename == [p |-> "p.cursor", q |-> "q.cursor"]

(* The system inputs. *)
MCTopN == {-1, 0, 1, 2}

(* The aggregators: values of both numeric types, one that is no number, and *)
(* a metric without the field.                                               *)
MCAggValue ==
    {[t |-> "int64", v |-> 1], [t |-> "float64", v |-> 4],
     [t |-> "string", v |-> 0], [t |-> "none", v |-> 0]}

(* The processors: conditions and rules that overlap, the part of the grok   *)
(* library that nests, and entries of logparse right and wrong.              *)
MCTagMap == {<<>>, [k1 |-> "a"], [k1 |-> "b", k2 |-> "b"]}
MCCondition ==
    {[tag |-> "k1", value |-> "a", when |-> "cpu"], [tag |-> "k1", value |-> "b", when |-> "cpu"],
     [tag |-> "k2", value |-> "a", when |-> "mem"]}
MCRegexRule == {[key |-> "k1", pat |-> "ab"], [key |-> "k1", pat |-> "bc"], [key |-> "k2", pat |-> "bc"]}
MCReplace == [ab |-> [a |-> "b", b |-> "b", c |-> "c"], bc |-> [a |-> "a", b |-> "c", c |-> "c"]]

Literal == [ref |-> "", cap |-> ""]
Ref(name, cap_) == [ref |-> name, cap |-> cap_]
MCLibrary ==
    [IPORHOST |-> <<Ref("IP", ""), Ref("HOSTNAME", "")>>, IP |-> <<Ref("IPV4", ""), Ref("IPV6", "")>>,
     IPV4 |-> <<Literal>>, IPV6 |-> <<Literal>>, HOSTNAME |-> <<Literal>>,
     NUMBER |-> <<Ref("BASE10NUM", "")>>, BASE10NUM |-> <<Literal>>, WORD |-> <<Literal>>]
HostPattern == <<Ref("IPORHOST", "client"), Literal, Ref("NUMBER", "bytes")>>
WordPattern == <<Ref("WORD", "message")>>
UnknownPattern == <<Ref("URIPATHPARAM", "request")>>
E0 == [field |-> "message", parser |-> "json", grok |-> <<>>, patterns |-> <<>>, regex |-> ""]
MCEntry ==
    {E0, [E0 EXCEPT !.field = ""], [E0 EXCEPT !.parser = ""], [E0 EXCEPT !.parser = "regex"],
     [E0 EXCEPT !.parser = "regex", !.regex = "bad"], [E0 EXCEPT !.parser = "regex", !.regex = "good"],
     [E0 EXCEPT !.parser = "regex", !.regex = "good", !.field = "client"],
     [E0 EXCEPT !.parser = "grok"], [E0 EXCEPT !.parser = "grok", !.grok = HostPattern],
     [E0 EXCEPT !.parser = "grok", !.patterns = <<WordPattern, HostPattern>>],
     [E0 EXCEPT !.parser = "grok", !.grok = HostPattern, !.patterns = <<WordPattern>>],
     [E0 EXCEPT !.parser = "grok", !.patterns = <<HostPattern, UnknownPattern>>]}
MCCaptures ==
    [good |-> [a |-> [message |-> "b"], b |-> [client |-> "c"], c |-> NoMatch],
     json |-> [a |-> NoMatch, b |-> [message |-> "c", client |-> "a"], c |-> NoMatch]]
MCGrokCaptures ==
    (<<"client", "bytes">> :> [a |-> [client |-> "a", bytes |-> "b"], b |-> NoMatch, c |-> NoMatch])
    @@ (<<"message">> :> [a |-> NoMatch, b |-> [message |-> "a"], c |-> NoMatch])

(* Alerting: rules of every operator the engine's pattern tells apart. *)
MCAlertRule ==
    [metric : {"cpu"}, op : {<<">">>, <<"<">>, <<">", "=">>, <<"=", "=">>, <<"~">>},
     threshold : {1}, for : {0, 2}]
-----------------------------------------------------------------------------
Part == {"scheduler", "tail", "journald", "syslog", "gather", "aggregator", "delta", "output",
         "processor", "alerting"}

\* Of the initial states of a part that is not looked at, one is enough.
Unless(p, choice) == focus = p \/ choice

MCInit ==
    /\ focus \in Part
    /\ NewScheduler /\ Unless("scheduler", inputs = Input /\ hasAgg)
    /\ TailInit /\ Unless("tail", fromBeg /\ persists)
    /\ JournalInit /\ Unless("journald", jpersists)
    /\ SyslogInit /\ Unless("syslog", protocol = "tcp")
    /\ GatherInit /\ Unless("gather", input = "cpu" /\ opt = "good")
    /\ AggInit /\ Unless("aggregator", kind = "avg")
    /\ DeltaInit /\ Unless("delta", outputMode = "delta" /\ \A s \in Series : counter[s] = 0)
    /\ OutputInit /\ Unless("output", output = "http")
    /\ AlertInit /\ Unless("alerting", configured.op = <<">">> /\ configured.for = 0)
    /\ IF focus = "processor" THEN ProcInit
       ELSE /\ chain = "logparse" /\ stage = "init" /\ pconf = <<>> /\ rules = <<>> /\ ri = 1
            /\ mtags = <<>> /\ mfields = [message |-> "a"] /\ fields = <<>>

Others(p) ==
    /\ p # "scheduler" => UNCHANGED vars
    /\ p # "tail" => UNCHANGED tailVars
    /\ p # "journald" => UNCHANGED journalVars
    /\ p # "syslog" => UNCHANGED syslogVars
    /\ p # "gather" => UNCHANGED gatherVars
    /\ p # "aggregator" => UNCHANGED aggVars
    /\ p # "delta" => UNCHANGED deltaVars
    /\ p # "output" => UNCHANGED outputVars
    /\ p # "processor" => UNCHANGED procVars
    /\ p # "alerting" => UNCHANGED alertVars
    /\ UNCHANGED focus

MCNext ==
    \/ focus = "scheduler" /\ Next /\ Others("scheduler")
    \/ focus = "tail" /\ TailNext /\ Others("tail")
    \/ focus = "journald" /\ JournalNext /\ Others("journald")
    \/ focus = "syslog" /\ SyslogNext /\ Others("syslog")
    \/ focus = "gather" /\ GatherNext /\ Others("gather")
    \/ focus = "aggregator" /\ AggNext /\ Others("aggregator")
    \/ focus = "delta" /\ DeltaNext /\ Others("delta")
    \/ focus = "output" /\ OutputNext /\ Others("output")
    \/ focus = "processor" /\ ProcNext /\ Others("processor")
    \/ focus = "alerting" /\ AlertNext /\ Others("alerting")

\* The fairness of the parts with a liveness property, asked for when the part
\* is the one looked at.
MCFairness ==
    /\ \A i \in Input : WF_vars(focus = "scheduler" /\ InputStep(i))
    /\ \A i \in Input : SF_vars(focus = "scheduler" /\ InputExit(i))
    /\ WF_vars(focus = "scheduler" /\ AgentStep)
    /\ WF_vars(focus = "scheduler" /\ ReloadStep)
    /\ WF_vars(focus = "scheduler" /\ AggPushed)
    /\ SF_vars(focus = "scheduler" /\ AggPush /\ push' = "lastPush")
    /\ WF_vars(focus = "scheduler" /\ CloserStep)
    /\ WF_vars(focus = "scheduler" /\ parentDone /\ EventLoopEnds)
    /\ WF_syslogVars(focus = "syslog" /\ (SelectTick \/ Listen))
    /\ SF_syslogVars(focus = "syslog" /\ SelectDone)
    /\ WF_syslogVars(focus = "syslog" /\ CloseListener)
    /\ WF_syslogVars(focus = "syslog" /\ GatherReturns)
    /\ \A c \in Peer : WF_syslogVars(focus = "syslog" /\ Acquire(c))

mcVars == <<vars, tailVars, journalVars, syslogVars, gatherVars, aggVars, deltaVars, outputVars,
            procVars, alertVars, focus>>

MCSpec == MCInit /\ [][MCNext]_mcVars /\ MCFairness
============================================================================
