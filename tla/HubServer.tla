----------------------------- MODULE HubServer ------------------------------
(***************************************************************************)
(* HubServer of internal/federation: registration and heartbeats of leaf   *)
(* agents, and the group index kept by GroupEngine.  How a configuration   *)
(* is resolved is left to the constant operator Resolve: the server only   *)
(* compares what it gives, and what is shown here holds whatever the order *)
(* in which the levels are merged.                                         *)
(*                                                                         *)
(* Labels are partial functions from label keys to values.  The version, a *)
(* hash of the resolved configuration, is modelled by the resolved         *)
(* configuration itself: collisions are left out.                          *)
(***************************************************************************)
EXTENDS Integers, FiniteSets, Functions

CONSTANTS Leaf,        \* agent identifiers
          Group,       \* names of the group rules, in the order of the strings
          Match,       \* Match[g]: the labels rule g asks for
          LabelSet,    \* label maps a leaf may report
          LevelSet,    \* configuration levels an operator may install
          MaxLeaves,   \* capacity of the hub
          Resolve(_, _, _) \* the configuration of a leaf, given levels and groups

VARIABLES
    leaves,    \* HubServer.leaves: what the hub knows of each registered leaf
    index,     \* GroupEngine.groupIndex, groups with members only
    levels,    \* ConfigDistributor.levels
    held,      \* held[a]: the configuration version leaf a was given last
    reply      \* the last answer of the hub

hubVars == <<leaves, index, levels, held, reply>>
-----------------------------------------------------------------------------
(* Labels and groups *)

\* AllLabels: manual labels override the automatic ones.
AllLabels(l) == [k \in DOMAIN l.labels \cup DOMAIN l.auto |->
                    IF k \in DOMAIN l.labels THEN l.labels[k] ELSE l.auto[k]]

\* A missing label reads as the empty string.
Label(labels, k) == IF k \in DOMAIN labels THEN labels[k] ELSE ""

matchesAll(labels, match) == \A k \in DOMAIN match : Label(labels, k) = match[k]

\* The groups of a leaf.
Evaluate(l) == {g \in Range(Group) : matchesAll(AllLabels(l), Match[g])}

\* UpdateLeaf: the leaf is taken out of the groups it no longer matches (a
\* group without members is dropped) and added to those it matches now.
UpdateLeaf(a, l) ==
    LET before(g) == IF g \in DOMAIN index THEN index[g] ELSE {}
        after(g)  == IF g \in Evaluate(l) THEN before(g) \cup {a} ELSE before(g) \ {a}
    IN  index' = [g \in {h \in DOMAIN index \cup Evaluate(l) : after(h) # {}} |-> after(g)]
-----------------------------------------------------------------------------
(* Registration and heartbeats *)

\* m[k] = v, for a map that may have the key already.
Put(m, k, v) == [j \in DOMAIN m \cup {k} |-> IF j = k THEN v ELSE m[j]]

\* Register: refused when the hub is full, also for a leaf it already knows.
Register(a, labels, auto) ==
    LET l == [labels |-> labels, auto |-> auto]
        g == Evaluate(l)
        v == Resolve(levels, a, g)
    IN  /\ \/ /\ Cardinality(DOMAIN leaves) >= MaxLeaves
              /\ reply' = [op |-> "register", leaf |-> a, ok |-> FALSE, update |-> FALSE]
              /\ UNCHANGED <<leaves, index, held>>
           \/ /\ Cardinality(DOMAIN leaves) < MaxLeaves
              /\ leaves' = Put(leaves, a, [labels |-> labels, auto |-> auto, groups |-> g, version |-> v])
              /\ UpdateLeaf(a, l)
              /\ held' = Put(held, a, v)
              /\ reply' = [op |-> "register", leaf |-> a, ok |-> TRUE, update |-> FALSE]
        /\ UNCHANGED levels

\* Variant: the version is compared for the groups the leaf had before.
HeartbeatStale(a, labels) ==
    /\ \/ /\ a \notin DOMAIN leaves
          /\ reply' = [op |-> "heartbeat", leaf |-> a, ok |-> FALSE, update |-> FALSE]
          /\ UNCHANGED <<leaves, index>>
       \/ /\ a \in DOMAIN leaves
          /\ LET new == IF labels = <<>> THEN leaves[a].labels ELSE labels
                 l == [leaves[a] EXCEPT !.labels = new]
             IN  /\ leaves' = [leaves EXCEPT ![a] = [l EXCEPT !.groups = Evaluate(l)]]
                 /\ IF labels = <<>> THEN UNCHANGED index ELSE UpdateLeaf(a, l)
                 /\ reply' = [op |-> "heartbeat", leaf |-> a, ok |-> TRUE,
                              update |-> Resolve(levels, a, leaves[a].groups) # leaves[a].version]
    /\ UNCHANGED <<levels, held>>

\* Heartbeat: labels, when sent, replace the leaf's and its groups follow; the
\* version in force is compared with the one given at registration.
Heartbeat(a, labels) ==
    /\ \/ /\ a \notin DOMAIN leaves
          /\ reply' = [op |-> "heartbeat", leaf |-> a, ok |-> FALSE, update |-> FALSE]
          /\ UNCHANGED <<leaves, index>>
       \/ /\ a \in DOMAIN leaves
          /\ LET new == IF labels = <<>> THEN leaves[a].labels ELSE labels
                 l == [leaves[a] EXCEPT !.labels = new]
                 g == IF labels = <<>> THEN leaves[a].groups ELSE Evaluate(l)
             IN  /\ leaves' = [leaves EXCEPT ![a] = [l EXCEPT !.groups = g]]
                 /\ IF labels = <<>> THEN UNCHANGED index ELSE UpdateLeaf(a, l)
                 /\ reply' = [op |-> "heartbeat", leaf |-> a, ok |-> TRUE,
                              update |-> Resolve(levels, a, g) # leaves[a].version]
    /\ UNCHANGED <<levels, held>>

UpdateLevels(l) ==
    /\ l # levels
    /\ levels' = l
    /\ reply' = [op |-> "none"]
    /\ UNCHANGED <<leaves, index, held>>
-----------------------------------------------------------------------------
HubInit ==
    /\ leaves = <<>> /\ index = <<>> /\ held = <<>>
    /\ levels \in LevelSet
    /\ reply = [op |-> "none"]

HubNext ==
    \/ \E a \in Leaf, m \in LabelSet :
          \/ \E auto \in LabelSet : Register(a, m, auto)
          \/ Heartbeat(a, m)
    \/ \E l \in LevelSet : UpdateLevels(l)

HubSpec == HubInit /\ [][HubNext]_hubVars
-----------------------------------------------------------------------------
(* Properties *)

\* After any sequence of registrations, re-registrations and heartbeats the
\* group index holds exactly the leaves whose labels match each rule, no empty
\* group is kept, and every leaf's cached groups are the ones it matches.
GroupIndexExact ==
    /\ \A g \in Range(Group) :
          {a \in DOMAIN leaves : g \in Evaluate(leaves[a])} = (IF g \in DOMAIN index THEN index[g] ELSE {})
    /\ \A g \in DOMAIN index : index[g] # {}
    /\ \A a \in DOMAIN leaves : leaves[a].groups = Evaluate(leaves[a])

\* A heartbeat that reports no update comes from a leaf whose last received
\* configuration is the one its current labels and the current levels resolve
\* to: labels, groups or levels never drift unnoticed.
NoSilentDrift ==
    reply.op = "heartbeat" /\ reply.ok /\ ~reply.update =>
        held[reply.leaf] = Resolve(levels, reply.leaf, Evaluate(leaves[reply.leaf]))

\* What the hub derives from labels and levels (the group index, the groups of a
\* leaf, the version it answers a heartbeat with) keeps in step with them.
HubInStep == GroupIndexExact /\ NoSilentDrift
=============================================================================
