----------------------------- MODULE Federation -----------------------------
(***************************************************************************)
(* The federation of internal/federation: HubServer with the configuration *)
(* resolved by ConfigDistributor, and the life cycle of Hub and LeafClient,*)
(* which the agent starts on goroutines of their own and stops from its    *)
(* shutdown.                                                               *)
(*                                                                         *)
(* A configuration maps keys to scalars, [val |-> v], or to nested maps,   *)
(* [map |-> m].                                                            *)
(***************************************************************************)
EXTENDS HubServer, Sequences, SequencesExt

VARIABLES
    hub,       \* the hub's goroutine: "new", "begun", "serving", "over"
    hubRunning,\* Hub.running
    hubCancel, \* Hub.cancel has been called
    leafLoop,  \* LeafClient.connectLoop: "new", "head", "in", "out", "over"
    connected, \* LeafClient.connected
    leafCancel,\* the leaf's context is cancelled
    stopped    \* the agent's shutdown has called Stop on both

lifeVars == <<hub, hubRunning, hubCancel, leafLoop, connected, leafCancel, stopped>>
-----------------------------------------------------------------------------
(* Configuration *)

IsMap(v) == "map" \in DOMAIN v

\* deepMerge: nested maps are merged, anything else is replaced.
RECURSIVE deepMerge(_, _)
deepMerge(dst, src) ==
    [k \in DOMAIN dst \cup DOMAIN src |->
        IF k \notin DOMAIN src THEN dst[k]
        ELSE IF k \in DOMAIN dst /\ IsMap(dst[k]) /\ IsMap(src[k])
             THEN [map |-> deepMerge(dst[k].map, src[k].map)]
        ELSE src[k]]

Level(m, k) == IF k \in DOMAIN m THEN m[k] ELSE <<>>

\* Variant: the groups are merged after the agent's own level.
ResolveConfigSwapped(lv, a, groups) ==
    FoldLeft(deepMerge,
             deepMerge(deepMerge(lv.global, lv.region), Level(lv.agents, a)),
             [i \in 1..Len(SelectSeq(Group, LAMBDA g : g \in groups)) |->
                Level(lv.groups, SelectSeq(Group, LAMBDA g : g \in groups)[i])])

\* ResolveConfig: global, region, the groups in sorted order, the agent.  It is
\* the Resolve of HubServer.
ResolveConfig(lv, a, groups) ==
    LET sorted == SelectSeq(Group, LAMBDA g : g \in groups)
        layers == <<lv.region>> \o [i \in 1..Len(sorted) |-> Level(lv.groups, sorted[i])]
                  \o <<Level(lv.agents, a)>>
    IN  FoldLeft(deepMerge, lv.global, layers)

fedVars == <<hubVars, lifeVars>>
-----------------------------------------------------------------------------
(* Hub and LeafClient *)

\* Hub.Start, on its own goroutine: the context is made first, running is set
\* in a second step, then the goroutine waits for the context.
HubBegins  == hub = "new" /\ hub' = "begun" /\ UNCHANGED <<hubVars, hubRunning, hubCancel, leafLoop, connected, leafCancel, stopped>>
HubServes  == hub = "begun" /\ hub' = "serving" /\ hubRunning' = TRUE
              /\ UNCHANGED <<hubVars, hubCancel, leafLoop, connected, leafCancel, stopped>>
HubReturns == hub = "serving" /\ hubCancel /\ hub' = "over"
              /\ UNCHANGED <<hubVars, hubRunning, hubCancel, leafLoop, connected, leafCancel, stopped>>

\* LeafClient.Start: the loop's goroutine is started.
LeafStarts == leafLoop = "new" /\ leafLoop' = "head"
              /\ UNCHANGED <<hubVars, hub, hubRunning, hubCancel, connected, leafCancel, stopped>>

\* The head of connectLoop, then connect: it marks itself connected and waits
\* for the context.
LeafConnects ==
    /\ leafLoop = "head"
    /\ \/ leafCancel /\ leafLoop' = "over" /\ UNCHANGED connected
       \/ ~leafCancel /\ leafLoop' = "in" /\ UNCHANGED connected
    /\ UNCHANGED <<hubVars, hub, hubRunning, hubCancel, leafCancel, stopped>>

LeafMarks ==
    /\ leafLoop = "in"
    /\ leafLoop' = "out" /\ connected' = TRUE
    /\ UNCHANGED <<hubVars, hub, hubRunning, hubCancel, leafCancel, stopped>>

\* Variant: the loop does not reset connected.
LeafDropsKeeps ==
    /\ leafLoop = "out" /\ leafCancel
    /\ leafLoop' = "over"
    /\ UNCHANGED <<hubVars, hub, hubRunning, hubCancel, connected, leafCancel, stopped>>

\* connect returns the context's error: connected is reset and the loop ends.
LeafDrops ==
    /\ leafLoop = "out" /\ leafCancel
    /\ leafLoop' = "over" /\ connected' = FALSE
    /\ UNCHANGED <<hubVars, hub, hubRunning, hubCancel, leafCancel, stopped>>

\* shutdown: Hub.Stop and LeafClient.Stop; cancel is still nil when Start has
\* not run yet.
StopBoth ==
    /\ ~stopped
    /\ stopped' = TRUE
    /\ hubCancel' = (hub # "new") /\ hubRunning' = FALSE
    /\ leafCancel' = (leafLoop # "new") /\ connected' = FALSE
    /\ UNCHANGED <<hubVars, hub, leafLoop>>

LifeNext == HubBegins \/ HubServes \/ HubReturns \/ LeafStarts \/ LeafConnects \/ LeafMarks \/ LeafDrops \/ StopBoth
-----------------------------------------------------------------------------
FedInit ==
    /\ HubInit
    /\ hub = "new" /\ hubRunning = FALSE /\ hubCancel = FALSE
    /\ leafLoop = "new" /\ connected = FALSE /\ leafCancel = FALSE
    /\ stopped = FALSE

\* A step of the server leaves the goroutines alone.
ServerNext == HubNext /\ UNCHANGED lifeVars

FedNext == ServerNext \/ LifeNext

LifeFairness == WF_fedVars(LeafConnects) /\ WF_fedVars(LeafMarks) /\ WF_fedVars(LeafDrops)

FedSpec == FedInit /\ [][FedNext]_fedVars /\ LifeFairness
-----------------------------------------------------------------------------
(* Properties *)

\* What a configuration key should resolve to: the value of the highest level
\* that sets it; for nested maps, the levels above the last scalar are merged
\* key by key, the highest level winning.
ByPriority(layers) ==
    LET sets(k)  == {i \in 1..Len(layers) : k \in DOMAIN layers[i]}
        maps(k)  == {i \in sets(k) : \A j \in sets(k) : j >= i => IsMap(layers[j][k])}
        inner(k) == {<<i, s>> \in maps(k) \X UNION {DOMAIN layers[i][k].map : i \in maps(k)} :
                        s \in DOMAIN layers[i][k].map}
        top(S)   == CHOOSE i \in S : \A j \in S : i >= j
    IN  [k \in UNION {DOMAIN layers[i] : i \in 1..Len(layers)} |->
            IF maps(k) = {} THEN layers[top(sets(k))][k]
            ELSE [map |-> [s \in {q[2] : q \in inner(k)} |->
                    layers[top({q[1] : q \in {r \in inner(k) : r[2] = s}})][k].map[s]]]]

\* ResolveConfig gives every key the value of the highest-priority level that
\* sets it (agent, then groups, region, global), for every leaf and group set.
ResolveByPriority ==
    reply.op = "heartbeat" => \A a \in Leaf, gs \in SUBSET Range(Group) :
        LET sorted == SelectSeq(Group, LAMBDA g : g \in gs)
        IN  ResolveConfig(levels, a, gs) =
                ByPriority(<<levels.global, levels.region>>
                           \o [i \in 1..Len(sorted) |-> Level(levels.groups, sorted[i])]
                           \o <<Level(levels.agents, a)>>)

\* A leaf client whose loop was cancelled by Stop ends up disconnected and
\* stays so, although the loop may mark itself connected after Stop did the
\* opposite.
LeafEndsDisconnected == (stopped /\ leafCancel) ~> [](~connected)
=============================================================================
