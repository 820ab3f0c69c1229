--------------------------- MODULE PlatformProofs ---------------------------
(***************************************************************************)
(* Proofs about the parts of the agent around the collection pipeline and  *)
(* about the hub and discovery, for every value of their constants.  Each  *)
(* part has its own inductive invariant; the theorems follow it.           *)
(***************************************************************************)
EXTENDS Updater, SshProxy, Marketplace, AgentLifecycle, HubServer, Discovery,
        SequenceTheorems, FiniteSetTheorems, TLAPS

\* The prover of every leaf that names none.
USE SMTT(30)

-----------------------------------------------------------------------------
(* The hub *)

\* What a leaf's record looks like.
LeafShape(l) == l = [labels |-> l.labels, auto |-> l.auto, groups |-> l.groups, version |-> l.version]

\* The members of a group according to the index, and according to the labels.
Indexed(g) == IF g \in DOMAIN index THEN index[g] ELSE {}
Matching(g) == {a \in DOMAIN leaves : g \in Evaluate(leaves[a])}

\* The inductive invariant: the index is exact and names rules only; every
\* registered leaf holds the version the hub has on record for it; a heartbeat
\* answered without an update was answered for the levels and groups of now.
HubInv ==
    /\ DOMAIN held = DOMAIN leaves
    /\ \A a \in DOMAIN leaves :
          /\ LeafShape(leaves[a])
          /\ leaves[a].groups = Evaluate(leaves[a])
          /\ held[a] = leaves[a].version
    /\ DOMAIN index \subseteq Range(Group)
    /\ \A g \in DOMAIN index : index[g] # {}
    /\ \A g \in Range(Group) : Matching(g) = Indexed(g)
    /\ reply.op = "heartbeat" /\ reply.ok /\ ~reply.update =>
          /\ reply.leaf \in DOMAIN leaves
          /\ held[reply.leaf] = Resolve(levels, reply.leaf, leaves[reply.leaf].groups)

\* GroupEngine.Evaluate looks at the labels only: records with the same labels
\* are in the same groups, and always in groups of the rules.
LEMMA EvaluateByLabels ==
    ASSUME NEW l, NEW m, l.labels = m.labels, l.auto = m.auto
    PROVE  Evaluate(l) = Evaluate(m) /\ Evaluate(l) \subseteq Range(Group)
  BY Zenon DEF Evaluate, AllLabels, matchesAll

\* UpdateLeaf keeps the index exact: when a leaf's record is stored under new
\* labels and the index is updated for them, the members of every rule are the
\* leaves that match it, and no group is left without members.
LEMMA UpdateKeepsIndex ==
    ASSUME HubInv, NEW a, NEW l, UpdateLeaf(a, l),
           DOMAIN leaves' = DOMAIN leaves \cup {a},
           \A b \in DOMAIN leaves : b # a => leaves'[b] = leaves[b],
           Evaluate(leaves'[a]) = Evaluate(l),
           Evaluate(l) \subseteq Range(Group)
    PROVE  /\ (DOMAIN index \subseteq Range(Group))'
           /\ (\A g \in DOMAIN index : index[g] # {})'
           /\ (\A g \in Range(Group) : Matching(g) = Indexed(g))'
  <1> DEFINE after(g) == IF g \in Evaluate(l) THEN Indexed(g) \cup {a} ELSE Indexed(g) \ {a}
  <1>1. index' = [g \in {h \in DOMAIN index \cup Evaluate(l) : after(h) # {}} |-> after(g)]
    BY Zenon DEF UpdateLeaf, Indexed
  <1>2. DOMAIN index' \subseteq Range(Group)
    BY Zenon, <1>1 DEF HubInv
  <1>3. \A g \in DOMAIN index' : index'[g] # {}
    BY Zenon, <1>1
  <1>4. \A g \in Range(Group) : Indexed(g)' = after(g)
    <2> TAKE g \in Range(Group)
    <2>1. g \notin DOMAIN index \cup Evaluate(l) => after(g) = {}
      BY Zenon DEF Indexed
    <2>2. g \in DOMAIN index' => index'[g] = after(g)
      BY Zenon, <1>1
    <2>3. g \in DOMAIN index' <=> after(g) # {}
      BY Zenon, <1>1, <2>1
    <2> HIDE DEF after
    <2> QED BY Zenon, <2>2, <2>3 DEF Indexed
  <1>5. ASSUME NEW g \in Range(Group) PROVE Matching(g)' = after(g)
    <2>1. Matching(g)' = {b \in DOMAIN leaves' : g \in Evaluate(leaves'[b])}
      BY Zenon DEF Matching, Evaluate, AllLabels, matchesAll, Label
    <2>2. Matching(g) = Indexed(g)
      BY Zenon DEF HubInv
    <2>3. ASSUME NEW b PROVE b \in Matching(g)' <=> b \in after(g)
      <3>1. CASE b = a
        BY Zenon, <2>1, <3>1
      <3>2. CASE b # a
        <4>1. b \in Matching(g)' <=> b \in Matching(g)
          BY Zenon, <2>1, <3>2 DEF Matching
        <4> QED BY Zenon, <4>1, <2>2, <3>2
      <3> QED BY Zenon, <3>1, <3>2
    <2> QED BY Zenon, <2>3
  <1> HIDE DEF after
  <1> QED BY Zenon, <1>2, <1>3, <1>4, <1>5

\* FederationServer.Register keeps the hub in step: the leaf's record, the index
\* and the version it is sent are of one evaluation.
LEMMA RegisterKeeps ==
    ASSUME HubInv, NEW a \in Leaf, NEW m \in LabelSet, NEW auto \in LabelSet, Register(a, m, auto)
    PROVE  HubInv'
<1> DEFINE l == [labels |-> m, auto |-> auto]
           r == [labels |-> m, auto |-> auto, groups |-> Evaluate(l), version |-> Resolve(levels, a, Evaluate(l))]
<1>0. reply'.op = "register"
  BY DEF Register
<1>1. CASE UNCHANGED <<leaves, index, held>>
  BY Zenon, <1>0, <1>1 DEF HubInv, Matching, Indexed
<1>2. CASE /\ leaves' = Put(leaves, a, r)
           /\ UpdateLeaf(a, l)
           /\ held' = Put(held, a, r.version)
  <2>1. /\ DOMAIN leaves' = DOMAIN leaves \cup {a}
        /\ DOMAIN held' = DOMAIN held \cup {a}
        /\ leaves'[a] = r /\ held'[a] = r.version
        /\ \A b \in DOMAIN leaves : b # a => leaves'[b] = leaves[b]
        /\ \A b \in DOMAIN held : b # a => held'[b] = held[b]
    BY Zenon, <1>2 DEF Put
  <2>2. Evaluate(r) = Evaluate(l) /\ Evaluate(l) \subseteq Range(Group)
    BY Zenon, EvaluateByLabels
  <2>3. LeafShape(r) /\ r.groups = Evaluate(r)
    BY Zenon, <2>2 DEF LeafShape
  <2> HIDE DEF l, r
  <2>4. /\ (DOMAIN index \subseteq Range(Group))'
        /\ (\A g \in DOMAIN index : index[g] # {})'
        /\ (\A g \in Range(Group) : Matching(g) = Indexed(g))'
    BY Zenon, <2>1, <2>2, <1>2, UpdateKeepsIndex
  <2>5. ASSUME NEW b \in DOMAIN leaves'
        PROVE  LeafShape(leaves'[b]) /\ leaves'[b].groups = Evaluate(leaves'[b]) /\ held'[b] = leaves'[b].version
    BY Zenon, <2>1, <2>2, <2>3 DEF HubInv
  <2>6. DOMAIN held' = DOMAIN leaves'
    BY Zenon, <2>1 DEF HubInv
  <2> QED BY Zenon, <1>0, <2>4, <2>5, <2>6 DEF HubInv, LeafShape, Evaluate, AllLabels, matchesAll, Label
<1> QED BY Zenon, <1>1, <1>2 DEF Register

\* FederationServer.Heartbeat keeps the hub in step: labels that came with it
\* reach the record and the index before the answer is chosen.
LEMMA HeartbeatKeeps ==
    ASSUME HubInv, NEW a \in Leaf, NEW m \in LabelSet, Heartbeat(a, m)
    PROVE  HubInv'
<1>1. CASE a \notin DOMAIN leaves
  BY <1>1 DEF Heartbeat, HubInv, Matching, Indexed
<1>2. CASE a \in DOMAIN leaves
  <2> DEFINE new == IF m = <<>> THEN leaves[a].labels ELSE m
             l == [leaves[a] EXCEPT !.labels = new]
             g == IF m = <<>> THEN leaves[a].groups ELSE Evaluate(l)
             r == [l EXCEPT !.groups = g]
  <2>1. /\ leaves' = [leaves EXCEPT ![a] = r]
        /\ IF m = <<>> THEN UNCHANGED index ELSE UpdateLeaf(a, l)
        /\ UNCHANGED <<levels, held>>
        /\ reply' = [op |-> "heartbeat", leaf |-> a, ok |-> TRUE,
                     update |-> Resolve(levels, a, g) # leaves[a].version]
    BY Zenon, <1>2 DEF Heartbeat
  <2>2. LeafShape(leaves[a]) /\ leaves[a].groups = Evaluate(leaves[a]) /\ held[a] = leaves[a].version
    BY Zenon, <1>2 DEF HubInv
  <2>3. /\ l = [labels |-> new, auto |-> leaves[a].auto, groups |-> leaves[a].groups, version |-> leaves[a].version]
        /\ r = [labels |-> new, auto |-> leaves[a].auto, groups |-> g, version |-> leaves[a].version]
    <3> DEFINE R(p, q) == [labels |-> p, auto |-> leaves[a].auto, groups |-> q, version |-> leaves[a].version]
    <3>1. leaves[a] = R(leaves[a].labels, leaves[a].groups)
      BY Zenon, <2>2 DEF LeafShape
    <3>2. \A p, q, w : [R(p, q) EXCEPT !.labels = w] = R(w, q) /\ [R(p, q) EXCEPT !.groups = w] = R(p, w)
      OBVIOUS
    <3> HIDE DEF R
    <3>3. l = R(new, leaves[a].groups)
      BY <3>1, <3>2
    <3>4. r = R(new, g)
      <4> HIDE DEF l, g, new
      <4>1. r = [R(new, leaves[a].groups) EXCEPT !.groups = g]
        BY Zenon, <3>3
      <4> QED BY <3>2, <4>1
    <3> QED BY Zenon, <3>3, <3>4 DEF R
  <2>4. Evaluate(r) = Evaluate(l) /\ Evaluate(l) \subseteq Range(Group)
    BY <2>3, EvaluateByLabels
  <2>5. m = <<>> => Evaluate(r) = Evaluate(leaves[a])
    BY Zenon, <2>3, EvaluateByLabels
  <2>6. r.groups = Evaluate(r) /\ r.version = leaves[a].version /\ LeafShape(r) /\ r.groups = g
    BY Zenon, <2>2, <2>3, <2>4, <2>5 DEF LeafShape
  <2>7. reply'.leaf = a /\ (~reply'.update => Resolve(levels, a, g) = leaves[a].version)
    BY Zenon, <2>1
  <2> HIDE DEF l, r, g, new
  <2>8. /\ DOMAIN leaves' = DOMAIN leaves
        /\ leaves'[a] = r
        /\ \A b \in DOMAIN leaves : b # a => leaves'[b] = leaves[b]
    BY Zenon, <1>2, <2>1
  <2>9. /\ (DOMAIN index \subseteq Range(Group))'
        /\ (\A h \in DOMAIN index : index[h] # {})'
        /\ (\A h \in Range(Group) : Matching(h) = Indexed(h))'
    <3>1. CASE m # <<>>
      <4>1. DOMAIN leaves' = DOMAIN leaves \cup {a}
        BY Zenon, <1>2, <2>8
      <4> QED BY Zenon, <2>1, <2>4, <2>8, <3>1, <4>1, UpdateKeepsIndex
    <3>2. CASE m = <<>>
      <4>1. UNCHANGED index
        BY Zenon, <2>1, <3>2
      <4>2. ASSUME NEW h \in Range(Group) PROVE Matching(h)' = Matching(h)
        <5>1. Matching(h)' = {b \in DOMAIN leaves' : h \in Evaluate(leaves'[b])}
          BY Zenon DEF Matching, Evaluate, AllLabels, matchesAll, Label
        <5> QED BY Zenon, <5>1, <2>5, <2>8, <3>2 DEF Matching
      <4> QED BY Zenon, <4>1, <4>2 DEF HubInv, Indexed
    <3> QED BY Zenon, <3>1, <3>2
  <2>10. ASSUME NEW b \in DOMAIN leaves'
         PROVE  LeafShape(leaves'[b]) /\ leaves'[b].groups = Evaluate(leaves'[b]) /\ held'[b] = leaves'[b].version
    BY Zenon, <2>1, <2>2, <2>6, <2>8 DEF HubInv
  <2>11. ~reply'.update => reply'.leaf \in DOMAIN leaves' /\ held'[reply'.leaf] = Resolve(levels', reply'.leaf, leaves'[reply'.leaf].groups)
    BY Zenon, <1>2, <2>1, <2>2, <2>6, <2>7, <2>8
  <2>12. DOMAIN held' = DOMAIN leaves'
    BY Zenon, <2>1, <2>8 DEF HubInv
  <2> QED BY Zenon, <2>9, <2>10, <2>11, <2>12 DEF HubInv, LeafShape, Evaluate, AllLabels, matchesAll, Label
<1> QED BY Zenon, <1>1, <1>2

\* The hub keeps in step with labels and levels, for every set of rules, every
\* number of leaves and whatever ConfigDistributor.ResolveConfig computes.
THEOREM HubCorrect == HubSpec => []HubInStep
<1>1. HubInit => HubInv
  BY DEF HubInit, HubInv, Matching, Indexed
<1>2. HubInv /\ [HubNext]_hubVars => HubInv'
  <2> SUFFICES ASSUME HubInv, [HubNext]_hubVars PROVE HubInv'
    BY Zenon
  <2>1. ASSUME NEW a \in Leaf, NEW m \in LabelSet, NEW auto \in LabelSet, Register(a, m, auto)
        PROVE  HubInv'
    BY Zenon, <2>1, RegisterKeeps
  <2>2. ASSUME NEW a \in Leaf, NEW m \in LabelSet, Heartbeat(a, m)
        PROVE  HubInv'
    BY Zenon, <2>2, HeartbeatKeeps
  <2>3. ASSUME NEW l \in LevelSet, UpdateLevels(l)
        PROVE  HubInv'
    BY Zenon, <2>3 DEF UpdateLevels, HubInv, Matching, Indexed
  <2>4. CASE UNCHANGED hubVars
    BY Zenon, <2>4 DEF hubVars, HubInv, Matching, Indexed
  <2> QED BY Zenon, <2>1, <2>2, <2>3, <2>4 DEF HubNext
<1>3. HubInv => HubInStep
  BY Zenon DEF HubInv, HubInStep, GroupIndexExact, NoSilentDrift, Matching, Indexed
<1> QED BY <1>1, <1>2, <1>3, PTL DEF HubSpec

-----------------------------------------------------------------------------
(* The self-update *)

\* The files hold versions that were offered, never a damaged download.
UpdaterTypeOK ==
    /\ request \in Nat \ {0} /\ data \in Int
    /\ cur \in 0 .. request /\ bak \in 0 .. request /\ tmp \in 0 .. request
    /\ was \in 0 .. request
    /\ upc \in {"idle", "verify", "write", "backup", "install", "restore"}
    /\ uresult \in {"none", "nil", "error", "error_twice", "killed"}

\* Where Apply is says where the old and the new binary are: the old one stays
\* at currentPath up to the first rename and is the backup from then on, the
\* verified one is the temporary file from the write on.
SwapInProgress ==
    /\ upc \in {"verify", "write", "backup"} => cur = was
    /\ upc \in {"write", "backup", "install", "restore"} => data = request
    /\ upc \in {"backup", "install", "restore"} => tmp = request
    /\ upc \in {"install", "restore"} => cur = 0 /\ bak = was /\ was > 0

UpdaterInv ==
    UpdaterTypeOK /\ SwapInProgress /\ (cur > 0 \/ bak > 0) /\ ApplyResultTrue

\* The binary the agent was installed with.
LEMMA UpdaterStarts == UpdaterInit => UpdaterInv
BY DEF UpdaterInit, UpdaterInv, UpdaterTypeOK, SwapInProgress, ApplyResultTrue

\* No step of Apply, no kill and no Rollback breaks it.
LEMMA UpdaterKeeps == UpdaterInv /\ [UpdaterNext]_updaterVars => UpdaterInv'
<1> SUFFICES ASSUME UpdaterInv, [UpdaterNext]_updaterVars PROVE UpdaterInv'
  BY Zenon
<1> USE DEF UpdaterInv, UpdaterTypeOK, SwapInProgress, ApplyResultTrue
<1>1. CASE Apply
  BY <1>1 DEF Apply
<1>2. CASE verify
  BY <1>2 DEF verify, Go, ApplyReturns
<1>3. CASE writeTemp
  BY <1>3 DEF writeTemp, Go, ApplyReturns
<1>4. CASE swapBackup
  BY <1>4 DEF swapBackup, Go, ApplyReturns
<1>5. CASE swapInstall
  BY <1>5 DEF swapInstall, Go, ApplyReturns
<1>6. CASE swapRestore
  BY <1>6 DEF swapRestore, Go, ApplyReturns
<1>7. CASE Killed
  BY <1>7 DEF Killed, ApplyReturns
<1>8. CASE Rollback
  BY <1>8 DEF Rollback
<1>9. CASE UNCHANGED updaterVars
  BY Zenon, <1>9 DEF updaterVars
<1> QED BY Zenon, <1>1, <1>2, <1>3, <1>4, <1>5, <1>6, <1>7, <1>8, <1>9 DEF UpdaterNext

\* Whatever rename fails and wherever the process is killed, a whole binary is
\* at currentPath or at backupPath, and what Apply returned says which.
THEOREM BinariesCorrect == UpdaterSpec => []BinariesAsReported
<1>1. UpdaterInv => BinariesAsReported
  BY DEF UpdaterInv, UpdaterTypeOK, BinariesAsReported, AlwaysABinary
<1> QED BY <1>1, UpdaterStarts, UpdaterKeeps, PTL DEF UpdaterSpec

-----------------------------------------------------------------------------
(* Proxy commands *)

\* What is open follows from where the handler is, and an answer that claims an
\* exit status or a timeout was given behind one.
ProxyInv ==
    /\ spc \in {"idle", "connect", "handshake", "session", "run", "answer"}
    /\ sshConn <=> spc \in {"handshake", "session", "run"}
    /\ session <=> spc = "run"
    /\ remote \in {"none", "running", "0", "1"}
    /\ spc \in {"connect", "handshake", "session"} => remote = "none"
    /\ spc \in {"connect", "handshake", "session", "run"} => ~answer.given
    /\ ProxyAnswerHonest

\* Nothing is open before the first command.
LEMMA ProxyStarts == ProxyInit => ProxyInv
BY DEF ProxyInit, ProxyInv, ProxyAnswerHonest, NoAnswer

\* Every way through the handler keeps it.
LEMMA ProxyKeeps == ProxyInv /\ [ProxyNext]_proxyVars => ProxyInv'
<1> SUFFICES ASSUME ProxyInv, [ProxyNext]_proxyVars PROVE ProxyInv'
  BY Zenon
<1> USE DEF ProxyInv, ProxyAnswerHonest
<1>1. ASSUME NEW h \in Host, HandleProxyCommand(h) PROVE ProxyInv'
  BY <1>1 DEF HandleProxyCommand, NoAnswer
<1>2. CASE DeadlinePasses
  BY Zenon, <1>2 DEF DeadlinePasses
<1>3. CASE Connect
  BY <1>3 DEF Connect, Give, Answered
<1>4. CASE Handshake
  <2>1. CASE spc' = "session" /\ UNCHANGED <<sshConn, answer, witness>>
    BY Zenon, <1>4, <2>1 DEF Handshake
  <2>2. CASE Give(Answered(-1, FALSE)) /\ sshConn' = FALSE
    BY <1>4, <2>2 DEF Handshake, Give, Answered
  <2> QED BY Zenon, <1>4, <2>1, <2>2 DEF Handshake
<1>5. CASE NewSession
  <2>1. CASE Give(Answered(-1, FALSE)) /\ sshConn' = FALSE /\ UNCHANGED <<session, remote>>
    BY <1>5, <2>1 DEF NewSession, Give, Answered
  <2>2. CASE /\ session' = TRUE /\ spc' = "run" /\ remote' = "running"
             /\ UNCHANGED <<sshConn, answer, witness>>
    BY Zenon, <1>5, <2>2 DEF NewSession
  <2> QED BY Zenon, <1>5, <2>1, <2>2 DEF NewSession
<1>6. CASE RemoteExits
  BY Zenon, <1>6 DEF RemoteExits
<1>7. CASE Execute
  BY <1>7 DEF Execute, Give, Answered
<1>8. CASE SendProxyResponse
  BY Zenon, <1>8 DEF SendProxyResponse
<1>9. CASE UNCHANGED proxyVars
  BY Zenon, <1>9 DEF proxyVars
<1> QED BY Zenon, <1>1, <1>2, <1>3, <1>4, <1>5, <1>6, <1>7, <1>8, <1>9 DEF ProxyNext

\* Whichever step of a proxied command fails, and whatever the host and the
\* deadline do meanwhile, session and connection are closed and the answer says
\* what the host reported.
THEOREM ProxyCorrect == ProxySpec => []ProxyEndsWell
<1>1. ProxyInv => ProxyEndsWell
  BY Zenon DEF ProxyInv, ProxyEndsWell, ProxyLeavesNothingOpen
<1> QED BY <1>1, ProxyStarts, ProxyKeeps, PTL DEF ProxySpec

-----------------------------------------------------------------------------
(* The plugin marketplace *)

\* What Install has in hand, and that metadata is only there for a version
\* whose binary was once written whole, with a binary beside it.
MarketInv ==
    /\ release \in Nat \ {0} /\ entry \in Nat /\ got \in Nat
    /\ binary \in Int /\ meta \in Int /\ complete \subseteq Nat \ {0}
    /\ mpc \in {"idle", "mkdir", "download", "write", "writing", "meta", "meta_writing"}
    /\ mpc # "idle" => entry > 0
    /\ mpc \in {"write", "writing", "meta", "meta_writing"} => got = entry
    /\ mpc \in {"meta", "meta_writing"} => entry \in complete /\ binary = entry
    /\ meta > 0 => meta \in complete /\ binary # 0

\* Nothing is installed at first.
LEMMA MarketStarts == MarketInit => MarketInv
BY DEF MarketInit, MarketInv

\* No step of an install or a removal, nor a kill, breaks it.
LEMMA MarketKeeps == MarketInv /\ [MarketNext]_marketVars => MarketInv'
<1> SUFFICES ASSUME MarketInv, [MarketNext]_marketVars PROVE MarketInv'
  BY Zenon
<1> USE DEF MarketInv, At, Quit
<1>1. CASE Publish
  BY <1>1 DEF Publish
<1>2. CASE Get
  BY <1>2 DEF Get
<1>3. CASE MkdirAll
  BY Zenon, <1>3 DEF MkdirAll
<1>4. CASE Download
  BY <1>4 DEF Download
<1>5. CASE WriteBinary
  <2>1. CASE mpc = "write" /\ binary' = -1 /\ At("writing") /\ UNCHANGED <<entry, got, complete>>
    <3>1. binary' \in Int /\ binary' # 0
      BY <2>1
    <3> QED BY Zenon, <1>5, <2>1, <3>1 DEF WriteBinary
  <2>2. CASE mpc = "writing" /\ Quit /\ UNCHANGED <<binary, complete>>
    BY Zenon, <1>5, <2>2 DEF WriteBinary
  <2>3. CASE /\ mpc = "writing" /\ binary' = got /\ complete' = complete \cup {got}
             /\ At("meta") /\ UNCHANGED <<entry, got>>
    BY <1>5, <2>3 DEF WriteBinary
  <2> QED BY Zenon, <1>5, <2>1, <2>2, <2>3 DEF WriteBinary
<1>6. CASE WriteMeta
  BY <1>6 DEF WriteMeta
<1>7. CASE KilledInstall
  BY Zenon, <1>7 DEF KilledInstall
<1>8. CASE RemovePlugin
  BY <1>8 DEF RemovePlugin
<1>9. CASE UNCHANGED marketVars
  BY Zenon, <1>9 DEF marketVars
<1> QED BY Zenon, <1>1, <1>2, <1>3, <1>4, <1>5, <1>6, <1>7, <1>8, <1>9 DEF MarketNext

\* A version that List shows was once installed whole and still has a binary,
\* for any number of releases and wherever installs are killed.
THEOREM ListedCorrect == MarketSpec => []ListedWasInstalled
<1>1. MarketInv => ListedWasInstalled
  BY DEF MarketInv, ListedWasInstalled, Listed
<1> QED BY <1>1, MarketStarts, MarketKeeps, PTL DEF MarketSpec

-----------------------------------------------------------------------------
(* The life of the agent *)

\* The parts shutdown has still to stop when it is at position k.
ToStop(k) == {stopOrder[i] : i \in k .. Len(stopOrder)}

\* Everything startSubsystems starts, shutdown stops, but for discovery, which
\* ends with the context.
LEMMA OrdersAgree ==
    /\ Len(startOrder) = 9 /\ Len(stopOrder) = 9
    /\ \A i \in 1 .. 9 : startOrder[i] \in {"discovery"} \cup ToStop(1)
    /\ \A k \in 1 .. 9 : ToStop(k) = {stopOrder[k]} \cup ToStop(k + 1)
    /\ ToStop(10) = {}
    /\ \A k \in 1 .. 9 : stopOrder[k] = "runtime" <=> k = 4
    /\ "runtime" \in ToStop(1) /\ "scheduler" \in ToStop(1)
    /\ \A k \in 5 .. 10 : "runtime" \notin ToStop(k)
BY DEF startOrder, stopOrder, ToStop

\* Where the command is says which parts can be running, and a plugin runtime
\* process exists only while the runtime part is being started or is running.
LifeInv ==
    /\ at \in {"load", "build", "once", "start", "loop", "stop", "over"}
    /\ step \in 1 .. 10 /\ (at = "stop" => step \in 1 .. 9)
    /\ returned = "no" <=> at # "over"
    /\ process \in {"none", "starting", "up", "gone"}
    /\ conf.plugin # "auto" => process = "none"
    /\ running \subseteq {"discovery"} \cup ToStop(IF at = "stop" THEN step ELSE 1)
    /\ at \in {"load", "build", "once"} => running \subseteq {"scheduler"} /\ process = "none"
    /\ at \in {"load", "build"} => step = 1
    /\ at \in {"load", "build"} \/ StartingRuntime => running = {}
    /\ at \in {"once"} => step = 1
    /\ (at = "start" /\ step > 1) \/ at = "loop" \/ at = "stop" \/ returned = "error" =>
           ("runtime" \notin running => process = "none")
    /\ returned = "nil" => NilMeansStopped

\* Nothing runs at first.
LEMMA LifeStarts == AgentInit => LifeInv
BY OrdersAgree DEF AgentInit, LifeInv, StartingRuntime, NilMeansStopped

\* Every step of the command, of the runtime process and of the signal.
LEMMA LifeKeeps == LifeInv /\ [AgentNext]_agentVars => LifeInv'
<1> SUFFICES ASSUME LifeInv, [AgentNext]_agentVars PROVE LifeInv'
  BY Zenon
<1> USE OrdersAgree DEF LifeInv, StartingRuntime, NilMeansStopped
<1>1. CASE LoadConfig
  BY Zenon, <1>1 DEF LoadConfig, Return
<1>2. CASE NewAgent
  BY Zenon, <1>2 DEF NewAgent, Return
<1>3. CASE RuntimeStart
  <2>1. CASE conf.plugin # "auto"
    <3>1. at = "start" /\ step = 1 /\ process = "none" /\ running = {}
      BY Zenon, <1>3, <2>1 DEF RuntimeStart
    <3>2. /\ running' = IF conf.plugin = "off" THEN running ELSE running \cup {"runtime"}
          /\ step' = 2 /\ UNCHANGED <<at, process, returned, conf, ctxDone, stopDone>>
      BY <1>3, <2>1, <3>1 DEF RuntimeStart
    <3>3. running' \subseteq {"runtime"}
      BY Zenon, <3>1, <3>2
    <3> QED BY <3>1, <3>2, <3>3
  <2>2. CASE conf.plugin = "auto"
    <3>1. /\ at = "start" /\ step = 1 /\ process = "none" /\ running = {}
          /\ UNCHANGED <<step, running, conf, ctxDone, stopDone>>
      BY Zenon, <1>3, <2>2 DEF RuntimeStart
    <3>2. CASE at' = "over" /\ returned' = "error" /\ UNCHANGED process
      BY Zenon, <3>1, <3>2
    <3>3. CASE process' = "starting" /\ UNCHANGED <<at, returned>>
      BY <2>2, <3>1, <3>3
    <3> QED BY Zenon, <1>3, <2>2, <3>2, <3>3 DEF RuntimeStart
  <2> QED BY Zenon, <2>1, <2>2
<1>4. CASE StartNext
  <2> DEFINE s == startOrder[step]
  <2>1. s \in {"discovery"} \cup ToStop(1) /\ step \in 2 .. 9
    BY <1>4 DEF StartNext
  <2>2. CASE step' = step + 1 /\ UNCHANGED <<at, returned>> /\ running' \in {running, running \cup {s}}
    BY <1>4, <2>1, <2>2 DEF StartNext
  <2>3. CASE at' = "over" /\ returned' \in {"error", "panic"} /\ UNCHANGED <<step, running>>
    BY <1>4, <2>1, <2>3 DEF StartNext
  <2> QED BY Zenon, <1>4, <2>2, <2>3 DEF StartNext
<1>5. CASE EnterLoop
  BY <1>5 DEF EnterLoop
<1>6. CASE EventLoopEnds
  BY <1>6 DEF EventLoopEnds
<1>7. CASE StopNext
  <2>1. /\ running' \subseteq {"discovery"} \cup ToStop(step + 1)
        /\ "runtime" \in running' <=> "runtime" \in running
    BY Zenon, <1>7 DEF StopNext
  <2>2. CASE step < 9
    BY <1>7, <2>1, <2>2 DEF StopNext
  <2>3. CASE step = 9
    BY <1>7, <2>1, <2>3 DEF StopNext
  <2> QED BY <1>7, <2>2, <2>3 DEF StopNext
<1>8. CASE RuntimeStop
  BY <1>8 DEF RuntimeStop
<1>9. CASE RunOnce
  BY Zenon, <1>9 DEF RunOnce, Return
<1>10. CASE RuntimeReady
  BY <1>10 DEF RuntimeReady
<1>11. CASE StartupTimeout
  BY Zenon, <1>11 DEF StartupTimeout
<1>12. CASE ProcessEnds
  BY Zenon, <1>12 DEF ProcessEnds
<1>13. CASE Signal
  BY Zenon, <1>13 DEF Signal
<1>14. CASE DiscoveryEnds
  BY Zenon, <1>14 DEF DiscoveryEnds
<1>15. CASE HttpFails
  BY Zenon, <1>15 DEF HttpFails
<1>16. CASE StopTimeout
  BY Zenon, <1>16 DEF StopTimeout
<1>17. CASE UNCHANGED agentVars
  BY Zenon, <1>17 DEF agentVars
<1> QED
  BY Zenon, <1>1, <1>2, <1>3, <1>4, <1>5, <1>6, <1>7, <1>8, <1>9, <1>10, <1>11, <1>12, <1>13,
     <1>14, <1>15, <1>16, <1>17 DEF AgentNext, AgentStep

\* For every configuration: a command that returned nil has stopped everything it
\* started but discovery and waited for the plugin runtime, and one that failed
\* before the runtime was up leaves no process of it.
THEOREM ReturnCorrect == AgentSpec => []ReturnLeavesNothing
<1>1. LifeInv => ReturnLeavesNothing
  BY Zenon DEF LifeInv, ReturnLeavesNothing, NilMeansStopped, NoOrphanRuntime
<1> QED BY <1>1, LifeStarts, LifeKeeps, PTL DEF AgentSpec

-----------------------------------------------------------------------------
(* Discovery *)

\* A value is a sequence, whatever its elements.
IsSequence(s) == s \in Seq({s[i] : i \in DOMAIN s})

\* No two services of a sequence share a type and a name.
Distinct(ss) == \A i, j \in 1..Len(ss) : i # j => dedupKey(ss[i]) # dedupKey(ss[j])

\* What was offered in a pass is kept already or still to be looked at; what was
\* kept is what has been seen; and nothing is left over between two passes.
DiscoveryInv ==
  /\ IsSequence(rest) /\ IsSequence(found) /\ IsSequence(lastRun)
  /\ layer \in 1..Len(Layers) + 1
  /\ Distinct(found) /\ Distinct(lastRun)
  /\ seenKeys = Keys(found)
  /\ dpc = "pass" => offered = seenKeys \cup Keys(rest)
  /\ dpc # "pass" => layer = 1 /\ rest = <<>> /\ found = <<>> /\ Keys(lastRun) = offered

\* A function on 1..n is a sequence.
LEMMA TableIsSequence ==
  ASSUME NEW n \in Nat, NEW T, NEW f \in [1..n -> T]
  PROVE  IsSequence(f)
<1>1. DOMAIN f = 1..n /\ f \in [1..n -> {f[i] : i \in DOMAIN f}]
  BY Zenon
<1> QED BY <1>1, SMT DEF IsSequence

\* The order of a finite set is a table on 1..n.
LEMMA OrdersAreTables ==
  ASSUME NEW T, IsFiniteSet(T), NEW o \in Orders(T)
  PROVE  \E n \in Nat : DOMAIN o = 1..n
<1>1. Cardinality(T) \in Nat
  BY Zenon, FS_CardinalityType
<1>2. DOMAIN o = 1..Cardinality(T)
  BY Zenon DEF Orders, Injection
<1> QED BY Zenon, <1>1, <1>2

\* So what a layer answers is a sequence of services.
LEMMA AnswersAreSequences ==
  ASSUME NEW l \in {"systemd", "proc", "container", "metadata"}, NEW ss \in Discover(l)
  PROVE  IsSequence(ss)
<1>t. ASSUME NEW n \in Nat, NEW f, DOMAIN f = 1..n, f = [i \in 1..n |-> f[i]] PROVE IsSequence(f)
  <2>1. f \in [1..n -> {f[i] : i \in 1..n}]
    BY Zenon, <1>t
  <2> QED BY Zenon, <2>1, TableIsSequence
<1>e. IsSequence(<<>>)
  BY DEF IsSequence
<1>f. IsSequence(Failed) /\ \A s : IsSequence(<<s>>)
  BY DEF IsSequence, Failed
<1>p. ASSUME NEW us, Len(us) \in Nat, NEW T \in SUBSET (1..Len(us)), NEW o \in InOrder(T)
      PROVE  \E n \in Nat : DOMAIN o = 1..n
  <2>1. IsFiniteSet(T)
    <3>1. IsFiniteSet(1..Len(us))
      BY <1>p, FS_Interval
    <3> QED BY Zenon, <3>1, FS_Subset
  <2>2. o \in Orders(T)
    BY Zenon DEF InOrder
  <2> QED BY Zenon, <2>1, <2>2, OrdersAreTables
<1>1. CASE l = "systemd"
  <2>1. CASE ss = Failed
    BY Zenon, <1>f, <2>1
  <2>2. CASE ss # Failed
    <3>1. PICK us \in UnitLists :
            \E o \in InOrder({k \in 1..Len(us) : us[k].service /\ us[k].pid > 0}) :
              ss = [i \in DOMAIN o |-> Service("systemd", <<"name", us[o[i]].unit>>, us[o[i]].pid, {})]
      BY Zenon, <1>1, <2>2 DEF Discover, SystemdDiscover
    <3>2. PICK o \in InOrder({k \in 1..Len(us) : us[k].service /\ us[k].pid > 0}) :
            ss = [i \in DOMAIN o |-> Service("systemd", <<"name", us[o[i]].unit>>, us[o[i]].pid, {})]
      BY Zenon, <3>1
    <3>3. Len(us) \in Nat
      BY Zenon, DiscoveryAssumption
    <3>4. PICK n \in Nat : DOMAIN o = 1..n
      BY Zenon, <1>p, <3>3
    <3>5. DOMAIN ss = 1..n /\ ss = [i \in 1..n |-> ss[i]]
      BY Zenon, <3>2, <3>4
    <3> QED BY Zenon, <1>t, <3>5
  <2> QED BY Zenon, <2>1, <2>2
<1>2. CASE l = "container"
  <2>1. CASE ss \in {<<>>, Failed}
    BY Zenon, <1>e, <1>f, <2>1
  <2>2. CASE ss \notin {<<>>, Failed}
    <3> DEFINE S(cs, o, i) == Service("container", IF cs[o[i]].name = "" THEN <<"id", cs[o[i]].id>>
                                                   ELSE <<"name", cs[o[i]].name>>,
                                      0, extractPublicPorts(cs[o[i]].ports))
    <3>1. PICK cs \in Containers :
            \E o \in InOrder({k \in 1..Len(cs) : cs[k].state = "running"}) :
              ss = [i \in DOMAIN o |-> S(cs, o, i)]
      <4>1. ss \in ContainerDiscover(stopping)
        BY Zenon, <1>2 DEF Discover
      <4> DEFINE F(cs) == {[i \in DOMAIN o |-> S(cs, o, i)] :
                            o \in InOrder({k \in 1..Len(cs) : cs[k].state = "running"})}
      <4>2. ss \in {<<>>, Failed} \cup (IF stopping THEN {} ELSE UNION {F(cs) : cs \in Containers})
        BY Zenon, <4>1 DEF ContainerDiscover
      <4>3. PICK cs \in Containers : ss \in F(cs)
        <5> HIDE DEF F
        <5> QED BY Zenon, <2>2, <4>2
      <4> QED BY Zenon, <4>3
    <3>2. PICK o \in InOrder({k \in 1..Len(cs) : cs[k].state = "running"}) :
            ss = [i \in DOMAIN o |-> S(cs, o, i)]
      BY Zenon, <3>1
    <3>3. Len(cs) \in Nat
      BY Zenon, DiscoveryAssumption
    <3>4. PICK n \in Nat : DOMAIN o = 1..n
      BY Zenon, <1>p, <3>3
    <3>5. DOMAIN ss = 1..n /\ ss = [i \in 1..n |-> ss[i]]
      BY Zenon, <3>2, <3>4
    <3> QED BY Zenon, <1>t, <3>5
  <2> QED BY Zenon, <2>1, <2>2
<1>3. CASE l = "proc"
  <2>1. CASE ss = Failed
    BY Zenon, <1>f, <2>1
  <2>2. CASE ss # Failed
    <3> DEFINE L(cs) == {c \in cs : c.listen /\ c.pid > 0 /\ c.port > 0}
               O(cs) == {c.pid : c \in L(cs)}
               P(cs, pid) == {c.port : c \in {c \in cs : c.listen /\ c.pid = pid /\ c.port > 0}}
    <3>1. PICK cs \in Connections : \E o \in Orders(O(cs)) :
            ss = [i \in DOMAIN o |-> Service("process", procDetails(o[i]), o[i], P(cs, o[i]))]
      <4> DEFINE F(cs) == {[i \in DOMAIN o |-> Service("process", procDetails(o[i]), o[i], P(cs, o[i]))] :
                            o \in Orders(O(cs))}
      <4>1. ss \in ProcDiscover(stopping)
        BY Zenon, <1>3 DEF Discover
      <4>2. PICK cs \in Connections :
              ss \in IF stopping /\ O(cs) # {} THEN {Failed} ELSE F(cs)
        BY Zenon, <2>2, <4>1 DEF ProcDiscover
      <4>3. ss \in F(cs)
        BY Zenon, <2>2, <4>2
      <4> QED BY Zenon, <4>3
    <3>2. PICK o \in Orders(O(cs)) :
            ss = [i \in DOMAIN o |-> Service("process", procDetails(o[i]), o[i], P(cs, o[i]))]
      BY Zenon, <3>1
    <3>3. IsFiniteSet(L(cs))
      BY Zenon, DiscoveryAssumption, FS_Subset
    <3>4. [c \in L(cs) |-> c.pid] \in Surjection(L(cs), O(cs))
      BY Zenon DEF Surjection
    <3>5. IsFiniteSet(O(cs))
      BY Zenon, <3>3, <3>4, FS_Surjection DEF ExistsSurjection
    <3>6. PICK n \in Nat : DOMAIN o = 1..n
      BY Zenon, <3>5, OrdersAreTables
    <3>7. DOMAIN ss = 1..n /\ ss = [i \in 1..n |-> ss[i]]
      BY Zenon, <3>2, <3>6
    <3> QED BY Zenon, <1>t, <3>7
  <2> QED BY Zenon, <2>1, <2>2
<1>4. CASE l = "metadata"
  BY Zenon, <1>4, <1>e, <1>f DEF Discover, MetadataDiscover
<1> QED BY Zenon, <1>1, <1>2, <1>3, <1>4

\* Taking the first element off a sequence takes its key off the keys, unless a
\* later element has it as well.
LEMMA TailOfSequence ==
  ASSUME NEW s, IsSequence(s), s # <<>>
  PROVE  /\ IsSequence(Tail(s))
         /\ Keys(s) = {dedupKey(Head(s))} \cup Keys(Tail(s))
<1> DEFINE S == {s[i] : i \in DOMAIN s}
           t == Tail(s)
<1>1. s \in Seq(S)
  BY Zenon DEF IsSequence
<1>2. Len(s) \in Nat /\ DOMAIN s = 1..Len(s) /\ Len(s) # 0
  BY <1>1
<1>3. t \in Seq(S) /\ Len(t) = Len(s) - 1 /\ \A i \in 1..Len(t) : t[i] = s[i + 1]
  BY Zenon, <1>1, HeadTailProperties
<1>4. Len(t) \in Nat /\ t \in [1..Len(t) -> S]
  BY Zenon, <1>3, LenProperties
<1>5. IsSequence(t)
  BY Zenon, <1>4, TableIsSequence
<1>6. Head(s) = s[1]
  BY <1>1
<1> HIDE DEF t
<1>7. \A i \in 1..Len(s) : i = 1 \/ (i - 1 \in 1..Len(t) /\ s[i] = t[i - 1])
  BY <1>2, <1>3, <1>4
<1>8. \A i \in 1..Len(t) : i + 1 \in 1..Len(s) /\ t[i] = s[i + 1]
  BY <1>2, <1>3, <1>4
<1>9. 1 \in 1..Len(s)
  BY <1>2
<1>10. Keys(s) = {dedupKey(s[1])} \cup Keys(t)
  BY Zenon, <1>7, <1>8, <1>9 DEF Keys
<1> QED BY Zenon, <1>5, <1>6, <1>10 DEF t

\* A service appended adds its key; when the key is new, the keys stay distinct.
LEMMA AppendToSequence ==
  ASSUME NEW s, IsSequence(s), NEW e
  PROVE  /\ IsSequence(Append(s, e))
         /\ Keys(Append(s, e)) = Keys(s) \cup {dedupKey(e)}
         /\ Distinct(s) /\ dedupKey(e) \notin Keys(s) => Distinct(Append(s, e))
<1> DEFINE S == {s[i] : i \in DOMAIN s} \cup {e}
           a == Append(s, e)
<1>1. Len(s) \in Nat /\ s \in Seq(S)
  BY DEF IsSequence
<1>2. /\ a \in Seq(S) /\ Len(a) = Len(s) + 1 /\ a[Len(s) + 1] = e
      /\ \A i \in 1..Len(s) : a[i] = s[i]
  <2>1. e \in S
    BY Zenon
  <2> HIDE DEF S
  <2> QED BY <1>1, <2>1, AppendProperties
<1>3. Len(a) \in Nat /\ a \in [1..Len(a) -> S]
  BY Zenon, <1>2, LenProperties
<1>4. IsSequence(a)
  BY Zenon, <1>3, TableIsSequence
<1> HIDE DEF a
<1>5. /\ \A i \in 1..Len(a) : i = Len(s) + 1 \/ i \in 1..Len(s)
      /\ \A i \in 1..Len(s) : i \in 1..Len(a) /\ i # Len(s) + 1
      /\ Len(s) + 1 \in 1..Len(a)
  BY <1>1, <1>2
<1>6. Keys(a) = Keys(s) \cup {dedupKey(e)}
  BY Zenon, <1>2, <1>5 DEF Keys
<1>7. ASSUME Distinct(s), dedupKey(e) \notin Keys(s) PROVE Distinct(a)
  <2> SUFFICES ASSUME NEW i \in 1..Len(a), NEW j \in 1..Len(a), i # j
               PROVE  dedupKey(a[i]) # dedupKey(a[j])
    BY Zenon DEF Distinct
  <2>1. \A k \in 1..Len(s) : dedupKey(s[k]) # dedupKey(e)
    BY Zenon, <1>7 DEF Keys
  <2>2. CASE i \in 1..Len(s) /\ j \in 1..Len(s)
    BY Zenon, <1>2, <1>7, <2>2 DEF Distinct
  <2>3. CASE i = Len(s) + 1
    BY Zenon, <1>2, <1>5, <2>1, <2>3
  <2>4. CASE j = Len(s) + 1
    BY Zenon, <1>2, <1>5, <2>1, <2>4
  <2> QED BY Zenon, <1>5, <2>2, <2>3, <2>4
<1> QED BY Zenon, <1>4, <1>6, <1>7 DEF a

\* The empty sequence.
LEMMA EmptyPass == IsSequence(<<>>) /\ Keys(<<>>) = {} /\ Distinct(<<>>)
<1>1. <<>> \in Seq({}) /\ Len(<<>>) = 0 /\ 1..0 = {}
  OBVIOUS
<1>2. IsSequence(<<>>)
  BY DEF IsSequence
<1> QED BY Zenon, <1>1, <1>2 DEF Keys, Distinct

\* Every step of the service keeps the invariant.
LEMMA DiscoveryKeeps == DiscoveryInv /\ [DiscoveryNext]_discoveryVars => DiscoveryInv'
<1> SUFFICES ASSUME DiscoveryInv, [DiscoveryNext]_discoveryVars PROVE DiscoveryInv'
  BY Zenon
<1>1. CASE LayerRuns
  <2>1. PICK ss \in Discover(Layers[layer]) :
          IF ss = Failed THEN UNCHANGED <<rest, offered>>
          ELSE rest' = ss /\ offered' = offered \cup Keys(ss)
    BY Zenon, <1>1 DEF LayerRuns
  <2>2. Layers[layer] \in {"systemd", "proc", "container", "metadata"} /\ layer' \in 1..Len(Layers) + 1
    BY <1>1, DiscoveryAssumption DEF LayerRuns, DiscoveryInv
  <2>3. IsSequence(ss)
    BY Zenon, <2>2, AnswersAreSequences
  <2>4. dpc = "pass" /\ rest = <<>> /\ UNCHANGED <<dpc, seenKeys, found, lastRun>> /\ offered = seenKeys
    BY Zenon, <1>1, EmptyPass DEF LayerRuns, DiscoveryInv
  <2>5. IsSequence(rest') /\ offered' = seenKeys' \cup Keys(rest')
    BY Zenon, <2>1, <2>3, <2>4, EmptyPass
  <2> QED BY Zenon, <2>2, <2>4, <2>5 DEF DiscoveryInv
<1>2. CASE KeepFirst
  <2> DEFINE e == Head(rest)
  <2>1. /\ rest # <<>> /\ rest' = Tail(rest) /\ UNCHANGED <<dpc, layer, lastRun, offered>>
        /\ IF dedupKey(e) \in seenKeys THEN UNCHANGED <<seenKeys, found>>
           ELSE seenKeys' = seenKeys \cup {dedupKey(e)} /\ found' = Append(found, e)
    BY Zenon, <1>2 DEF KeepFirst
  <2>2. IsSequence(rest') /\ Keys(rest) = {dedupKey(e)} \cup Keys(rest')
    BY Zenon, <2>1, TailOfSequence DEF DiscoveryInv
  <2>3. dpc = "pass"
    BY Zenon, <2>1 DEF DiscoveryInv
  <2>4. seenKeys' = seenKeys \cup {dedupKey(e)}
    BY Zenon, <2>1
  <2>5. IsSequence(found') /\ Distinct(found') /\ Keys(found') = seenKeys'
    <3>1. CASE dedupKey(e) \in seenKeys
      BY Zenon, <2>1, <3>1 DEF DiscoveryInv
    <3>2. CASE dedupKey(e) \notin seenKeys
      <4>1. /\ IsSequence(found) /\ Distinct(found) /\ Keys(found) = seenKeys
            /\ found' = Append(found, e)
        BY Zenon, <2>1, <3>2 DEF DiscoveryInv
      <4> QED BY Zenon, <2>4, <3>2, <4>1, AppendToSequence
    <3> QED BY Zenon, <3>1, <3>2
  <2>6. offered' = seenKeys' \cup Keys(rest')
    BY Zenon, <2>1, <2>2, <2>3, <2>4 DEF DiscoveryInv
  <2> QED BY Zenon, <2>1, <2>2, <2>3, <2>5, <2>6 DEF DiscoveryInv
<1>3. CASE PublishPass
  <2>1. 1 \in 1..Len(Layers) + 1
    BY DiscoveryAssumption
  <2>2. Keys(rest) = {}
    BY Zenon, <1>3, EmptyPass DEF PublishPass
  <2> QED BY Zenon, <1>3, <2>1, <2>2, EmptyPass DEF PublishPass, DiscoveryInv
<1>4. CASE PassTick
  BY Zenon, <1>4, EmptyPass DEF PassTick, DiscoveryInv
<1>5. CASE DiscoveryCancelled
  BY Zenon, <1>5 DEF DiscoveryCancelled, DiscoveryInv
<1>6. CASE RunReturnsLast
  BY Zenon, <1>6 DEF RunReturnsLast, DiscoveryInv
<1>7. CASE UNCHANGED discoveryVars
  BY Zenon, <1>7 DEF discoveryVars, DiscoveryInv
<1> QED BY Zenon, <1>1, <1>2, <1>3, <1>4, <1>5, <1>6, <1>7 DEF DiscoveryNext

\* For any layers, whatever they answer and however often they fail: a published
\* result is one whole pass, with one entry for each type and name it met.
THEOREM PassCorrect == DiscoverySpec => []PassIsWhole
<1>1. DiscoveryInit => DiscoveryInv
  <2>1. 1 \in 1..Len(Layers) + 1
    BY DiscoveryAssumption
  <2> QED BY Zenon, <2>1, EmptyPass DEF DiscoveryInit, DiscoveryInv
<1>2. DiscoveryInv => PassIsWhole
  BY Zenon DEF DiscoveryInv, PassIsWhole, Distinct
<1> QED BY PTL, <1>1, <1>2, DiscoveryKeeps DEF DiscoverySpec

=============================================================================
