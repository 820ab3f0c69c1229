----------------------------- MODULE LinkProofs -----------------------------
(***************************************************************************)
(* Proofs about what links the agent to the platform besides its gRPC      *)
(* client: the ring buffer of the metric cache, for every capacity and     *)
(* every set of metrics, and the tunnel gateway, for any set of            *)
(* connections, any limit on tunnels and any number of messages of the     *)
(* platform.                                                               *)
(***************************************************************************)
EXTENDS MetricCache, TunnelGateway, FiniteSetTheorems, TLAPS

\* The prover of every leaf that names none.
USE SMTT(30)

-----------------------------------------------------------------------------
(* The metric cache *)

\* Index arithmetic modulo maxSize, for positions less than two turns away:
\* the only positions Add and Drain compute.
LEMMA WrapAround ==
    ASSUME NEW k \in 0 .. 2 * maxSize - 1
    PROVE  k % maxSize = IF k < maxSize THEN k ELSE k - maxSize
<1>1. CASE k < maxSize
  BY <1>1, SizeAssumption
<1>2. CASE k >= maxSize
  BY <1>2, SizeAssumption
<1> QED BY <1>1, <1>2, SizeAssumption

\* The slots of the c entries from slot t on, without the modulo.
Occupied(s, t, c) ==
    IF t + c <= maxSize THEN t <= s /\ s < t + c ELSE t <= s \/ s < t + c - maxSize

\* The slot c places after slot t.
SlotAfter(t, c) == IF t + c < maxSize THEN t + c ELSE t + c - maxSize

\* Going round the ring is addition modulo its size.
LEMMA SlotAfterIsMod ==
    ASSUME NEW t \in Slot, NEW c \in 0 .. maxSize
    PROVE  /\ (t + c) % maxSize = SlotAfter(t, c)
           /\ SlotAfter(t, c) \in Slot
<1>1. t + c \in 0 .. 2 * maxSize - 1
  BY SizeAssumption DEF Slot
<1> QED
  BY <1>1, WrapAround, SizeAssumption DEF SlotAfter, Slot

\* The occupied slots are those fewer than count steps after tail.
LEMMA OccupiedIsWindow ==
    ASSUME NEW t \in Slot, NEW c \in 0 .. maxSize, NEW s \in Slot
    PROVE  (\E i \in 0 .. c - 1 : s = (t + i) % maxSize) <=> Occupied(s, t, c)
<1>1. (\E i \in 0 .. c - 1 : s = (t + i) % maxSize)
        <=> (\E i \in 0 .. c - 1 : s = SlotAfter(t, i))
  <2>1. \A i \in 0 .. c - 1 : i \in 0 .. maxSize
    BY SizeAssumption
  <2> QED BY Zenon, <2>1, SlotAfterIsMod
<1>2. ASSUME NEW i \in 0 .. c - 1, s = SlotAfter(t, i)
      PROVE  Occupied(s, t, c)
  BY <1>2, SizeAssumption DEF SlotAfter, Occupied, Slot
<1>3. ASSUME Occupied(s, t, c)
      PROVE  \E i \in 0 .. c - 1 : s = SlotAfter(t, i)
  <2>1. CASE t <= s
    <3>1. s - t \in 0 .. c - 1
      BY <1>3, <2>1, SizeAssumption DEF Occupied, Slot
    <3>2. s = SlotAfter(t, s - t)
      BY <2>1, SizeAssumption DEF SlotAfter, Slot
    <3> QED BY Zenon, <3>1, <3>2
  <2>2. CASE s < t
    <3>1. s - t + maxSize \in 0 .. c - 1
      BY <1>3, <2>2, SizeAssumption DEF Occupied, Slot
    <3>2. s = SlotAfter(t, s - t + maxSize)
      BY <2>2, SizeAssumption DEF SlotAfter, Slot
    <3> QED BY Zenon, <3>1, <3>2
  <2> QED BY <2>1, <2>2, SizeAssumption DEF Slot
<1> QED BY Zenon, <1>1, <1>2, <1>3

\* No slot is occupied when there is no entry.
LEMMA NothingOccupied ==
    ASSUME NEW t \in Slot
    PROVE  /\ SlotAfter(t, 0) = t
           /\ \A s \in Slot : ~Occupied(s, t, 0)
BY SizeAssumption DEF SlotAfter, Occupied, Slot

\* Functions that agree on their domain are equal.
LEMMA FunEqual ==
    ASSUME NEW D, NEW S, NEW f \in [D -> S], NEW g \in [D -> S], \A i \in D : f[i] = g[i]
    PROVE  f = g
OBVIOUS

\* A sequence is a function on its positions.
LEMMA SeqIsFun ==
    ASSUME NEW S, NEW s \in Seq(S), NEW n, Len(s) = n
    PROVE  s \in [1 .. n -> S]
OBVIOUS

\* Append, entry by entry.
LEMMA AppendByIndex ==
    ASSUME NEW S, NEW s \in Seq(S), NEW e \in S
    PROVE  Append(s, e) = [i \in 1 .. Len(s) + 1 |-> IF i = Len(s) + 1 THEN e ELSE s[i]]
<1> DEFINE f == [i \in 1 .. Len(s) + 1 |-> IF i = Len(s) + 1 THEN e ELSE s[i]]
<1>1. Len(s) \in Nat /\ \A i \in 1 .. Len(s) : s[i] \in S
  OBVIOUS
<1>2. f \in Seq(S) /\ Len(f) = Len(s) + 1
  BY <1>1
<1>3. /\ Append(s, e) \in Seq(S)
      /\ Len(Append(s, e)) = Len(s) + 1
      /\ \A i \in 1 .. Len(s) : Append(s, e)[i] = s[i]
      /\ Append(s, e)[Len(s) + 1] = e
  OBVIOUS
<1>4. \A i \in 1 .. Len(s) + 1 : Append(s, e)[i] = f[i]
  BY <1>1, <1>3
<1>5. Append(s, e) \in [1 .. Len(s) + 1 -> S]
  BY Zenon, <1>3, SeqIsFun
<1>6. f \in [1 .. Len(s) + 1 -> S]
  BY Zenon, <1>2, SeqIsFun
<1> QED BY Zenon, <1>4, <1>5, <1>6, FunEqual

\* Dropping the oldest and appending, entry by entry.
LEMMA ShiftByIndex ==
    ASSUME NEW S, NEW s \in Seq(S), s # << >>, NEW e \in S
    PROVE  Append(Tail(s), e) = [i \in 1 .. Len(s) |-> IF i = Len(s) THEN e ELSE s[i + 1]]
<1>1. /\ Tail(s) \in Seq(S)
      /\ Len(Tail(s)) = Len(s) - 1
      /\ \A i \in 1 .. Len(Tail(s)) : Tail(s)[i] = s[i + 1]
  OBVIOUS
<1> DEFINE t == Tail(s)
<1>2. t \in Seq(S) /\ Len(t) = Len(s) - 1 /\ \A i \in 1 .. Len(t) : t[i] = s[i + 1]
  BY Zenon, <1>1
<1> HIDE DEF t
<1>3. Append(t, e) = [i \in 1 .. Len(t) + 1 |-> IF i = Len(t) + 1 THEN e ELSE t[i]]
  BY <1>2, AppendByIndex
<1>4. Len(t) + 1 = Len(s)
  BY <1>2
<1>5. \A i \in 1 .. Len(s) : i # Len(s) => t[i] = s[i + 1]
  BY <1>2
<1>6. Append(t, e) = [i \in 1 .. Len(s) |-> IF i = Len(s) THEN e ELSE s[i + 1]]
  BY Zenon, <1>3, <1>4, <1>5
<1> QED BY Zenon, <1>6 DEF t

\* Window in the form without modulo, which the solvers can work with.
Ring ==
    /\ head = SlotAfter(tail, count)
    /\ \A s \in Slot : buf[s] # Nil <=> Occupied(s, tail, count)

\* Window, said with sets of slots, is Ring, said with distances from tail.
LEMMA WindowIsRing == TypeOK => (Window <=> Ring)
<1> SUFFICES ASSUME TypeOK PROVE Window <=> Ring
  BY Zenon
<1>1. (tail + count) % maxSize = SlotAfter(tail, count)
  BY Zenon, SlotAfterIsMod DEF TypeOK
<1>2. \A s \in Slot : (\E i \in 0 .. count - 1 : s = Index(i))
                         <=> Occupied(s, tail, count)
  BY Zenon, OccupiedIsWindow DEF TypeOK, Index
<1> QED BY Zenon, <1>1, <1>2 DEF Window, Ring

\* The entries are metrics, at the slots SlotAfter gives.
LEMMA EntriesAreMetrics ==
    ASSUME TypeOK, Ring
    PROVE  /\ Entries = [i \in 1 .. count |-> buf[SlotAfter(tail, i - 1)]]
           /\ Entries \in Seq(Metric)
           /\ Len(Entries) = count
<1>1. \A i \in 1 .. count : /\ Index(i - 1) = SlotAfter(tail, i - 1)
                            /\ SlotAfter(tail, i - 1) \in Slot
  <2>1. \A i \in 1 .. count : i - 1 \in 0 .. maxSize
    BY SizeAssumption DEF TypeOK
  <2> QED BY Zenon, <2>1, SlotAfterIsMod DEF TypeOK, Index
<1>2. Entries = [i \in 1 .. count |-> buf[SlotAfter(tail, i - 1)]]
  BY Zenon, <1>1 DEF Entries
<1>3. \A i \in 1 .. count : Occupied(SlotAfter(tail, i - 1), tail, count)
  BY SizeAssumption DEF TypeOK, Occupied, SlotAfter, Slot
<1>4. \A i \in 1 .. count : buf[SlotAfter(tail, i - 1)] \in Metric
  BY Zenon, <1>1, <1>3 DEF TypeOK, Ring
<1>5. count \in Nat
  BY SizeAssumption DEF TypeOK
<1> QED BY <1>2, <1>4, <1>5

-----------------------------------------------------------------------------

\* The inductive invariant.
IInv == TypeOK /\ Ring

\* A new cache satisfies the inductive invariant.
LEMMA InitIInv == NewMetricCache => IInv
BY SizeAssumption DEF NewMetricCache, IInv, TypeOK, Ring, Slot, SlotAfter, Occupied

\* One Add: the modulo of Advance is a step of SlotAfter.
LEMMA AdvanceIsNext ==
    ASSUME NEW i \in Slot
    PROVE  Advance(i) = SlotAfter(i, 1)
BY SlotAfterIsMod, SizeAssumption DEF Advance

\* Add keeps the invariant, in a full ring and in one with room.
LEMMA AddIInv ==
    ASSUME IInv, NEW m \in Metric, Add(m)
    PROVE  IInv'
<1> USE SizeAssumption DEF IInv, Add
<1>1. head' = SlotAfter(head, 1) /\ head' \in Slot
  BY AdvanceIsNext, SlotAfterIsMod DEF TypeOK
<1>2. count = maxSize => tail' = SlotAfter(tail, 1) /\ tail' \in Slot
  BY AdvanceIsNext, SlotAfterIsMod DEF TypeOK
<1>3. TypeOK'
  BY <1>1, <1>2 DEF TypeOK
<1>4. head' = SlotAfter(tail', count')
  <2>1. CASE count = maxSize
    BY <1>1, <1>2, <2>1 DEF TypeOK, Ring, SlotAfter, Slot
  <2>2. CASE count # maxSize
    BY <1>1, <2>2 DEF TypeOK, Ring, SlotAfter, Slot
  <2> QED BY Zenon, <2>1, <2>2
<1>5. ASSUME NEW s \in Slot
      PROVE  buf'[s] # Nil <=> Occupied(s, tail', count')
  <2>1. CASE s = head
    <3>1. buf'[s] # Nil
      BY Zenon, <2>1, NilAssumption DEF TypeOK
    <3>2. Occupied(s, tail', count')
      BY <2>1, <1>2 DEF TypeOK, Ring, SlotAfter, Slot, Occupied
    <3> QED BY Zenon, <3>1, <3>2
  <2>2. CASE s # head
    <3>1. buf'[s] = buf[s]
      BY Zenon, <2>2 DEF TypeOK
    <3>2. Occupied(s, tail', count') <=> Occupied(s, tail, count)
      BY <2>2, <1>2 DEF TypeOK, Ring, SlotAfter, Slot, Occupied
    <3> QED BY Zenon, <3>1, <3>2 DEF Ring
  <2> QED BY Zenon, <2>1, <2>2
<1> QED BY Zenon, <1>3, <1>4, <1>5 DEF Ring

\* Drain keeps the invariant.
LEMMA DrainIInv ==
    ASSUME IInv, Drain
    PROVE  IInv'
<1> USE SizeAssumption DEF IInv, Drain
<1>1. result' \in Seq(Metric)
  BY Zenon, EntriesAreMetrics
<1>2. \A s \in Slot : (\E i \in 0 .. count - 1 : s = Index(i))
                         <=> Occupied(s, tail, count)
  BY Zenon, OccupiedIsWindow DEF TypeOK, Index
<1>3. buf' = [s \in Slot |-> Nil]
  BY Zenon, <1>2 DEF TypeOK, Ring
<1>4. count' = 0 /\ tail' \in Slot /\ head' = tail'
  <2>1. CASE count = 0
    BY <2>1 DEF TypeOK, Ring, SlotAfter, Slot
  <2>2. CASE count # 0
    BY <2>2 DEF Slot
  <2> QED BY Zenon, <2>1, <2>2
<1>5. TypeOK'
  BY <1>1, <1>3, <1>4 DEF TypeOK
<1>6. Ring'
  BY Zenon, <1>3, <1>4, NothingOccupied DEF Ring
<1> QED BY Zenon, <1>5, <1>6

\* Every step of the cache keeps the invariant.
LEMMA NextIInv == IInv /\ [Next]_vars => IInv'
<1>1. ASSUME IInv, UNCHANGED vars PROVE IInv'
  BY Zenon, <1>1 DEF vars, IInv, TypeOK, Ring, Slot, SlotAfter, Occupied
<1> QED BY Zenon, <1>1, AddIInv, DrainIInv DEF Next

\* Every slot index stays inside the buffer, count never exceeds the capacity
\* and Drain returns metrics only, whatever the capacity.
THEOREM TypeCorrect == Spec => []TypeOK
<1>1. IInv => TypeOK
  BY Zenon DEF IInv
<1> QED BY <1>1, InitIInv, NextIInv, PTL DEF Spec

\* The occupied slots are always the count slots from tail on.
THEOREM WindowCorrect == Spec => []Window
<1>1. IInv => Window
  BY Zenon, WindowIsRing DEF IInv
<1> QED BY <1>1, InitIInv, NextIInv, PTL DEF Spec

-----------------------------------------------------------------------------

\* An Add of the ring buffer is an Add of the queue.
LEMMA AddRefines ==
    ASSUME IInv, IInv', NEW m \in Metric, Add(m)
    PROVE  Fifo!Add(m)
<1> USE SizeAssumption DEF IInv
<1>0. Entries \in Seq(Metric) /\ Len(Entries) = count
  BY Zenon, EntriesAreMetrics
<1>1. Entries = [i \in 1 .. count |-> buf[SlotAfter(tail, i - 1)]]
  BY Zenon, EntriesAreMetrics
<1>2. Entries' = [i \in 1 .. count' |-> buf'[SlotAfter(tail', i - 1)]]
  <2>1. \A i \in 1 .. count' : (tail' + (i - 1)) % maxSize = SlotAfter(tail', i - 1)
    <3>1. \A i \in 1 .. count' : i - 1 \in 0 .. maxSize
      BY DEF TypeOK
    <3> QED BY Zenon, <3>1, SlotAfterIsMod DEF TypeOK
  <2> QED BY Zenon, <2>1 DEF Entries, Index
<1>3. CASE count = maxSize
  <2>1. tail' = SlotAfter(tail, 1) /\ count' = count /\ head = tail
    BY <1>3, AdvanceIsNext DEF Add, TypeOK, Ring, SlotAfter, Slot
  <2>2. Append(Tail(Entries), m)
          = [i \in 1 .. count |-> IF i = count THEN m ELSE Entries[i + 1]]
    <3>1. Entries # << >>
      BY Zenon, <1>0, <1>3
    <3>2. Append(Tail(Entries), m)
            = [i \in 1 .. Len(Entries) |-> IF i = Len(Entries) THEN m ELSE Entries[i + 1]]
      BY <1>0, <3>1, ShiftByIndex
    <3> QED BY Zenon, <3>2, <1>0
  <2>3. \A i \in 1 .. count : i # count => Entries[i + 1] = buf[SlotAfter(tail, i)]
    BY <1>1, <1>3
  <2>4. \A i \in 1 .. count : buf'[SlotAfter(tail', i - 1)]
                              = IF i = count THEN m ELSE buf[SlotAfter(tail, i)]
    BY <1>3, <2>1 DEF Add, TypeOK, SlotAfter, Slot
  <2>5. Entries' = Append(Tail(Entries), m)
    BY <1>2, <2>1, <2>2, <2>3, <2>4
  <2> QED BY Zenon, <1>0, <1>3, <2>5 DEF Fifo!Add, Fifo!Push, Add
<1>4. CASE count # maxSize
  <2>1. tail' = tail /\ count' = count + 1 /\ count < maxSize
    BY <1>4 DEF Add, TypeOK
  <2>2. Append(Entries, m)
          = [i \in 1 .. count + 1 |-> IF i = count + 1 THEN m
                                      ELSE buf[SlotAfter(tail, i - 1)]]
    <3>1. Append(Entries, m)
            = [i \in 1 .. count + 1 |-> IF i = count + 1 THEN m ELSE Entries[i]]
      <4>1. Append(Entries, m)
              = [i \in 1 .. Len(Entries) + 1 |->
                   IF i = Len(Entries) + 1 THEN m ELSE Entries[i]]
        BY <1>0, AppendByIndex
      <4> QED BY Zenon, <4>1, <1>0
    <3>2. \A i \in 1 .. count + 1 :
             i # count + 1 => Entries[i] = buf[SlotAfter(tail, i - 1)]
      BY <1>1, <2>1 DEF TypeOK
    <3> QED BY Zenon, <3>1, <3>2
  <2>3. \A i \in 1 .. count + 1 : buf'[SlotAfter(tail, i - 1)]
                  = IF i = count + 1 THEN m ELSE buf[SlotAfter(tail, i - 1)]
    BY <2>1 DEF Add, TypeOK, Ring, SlotAfter, Slot
  <2>4. Entries' = Append(Entries, m)
    BY Zenon, <1>2, <2>1, <2>2, <2>3
  <2> QED BY Zenon, <1>0, <1>4, <2>4 DEF Fifo!Add, Fifo!Push, Add
<1> QED BY Zenon, <1>3, <1>4

\* A Drain of the ring buffer is a Drain of the queue.
LEMMA DrainRefines ==
    ASSUME IInv, Drain
    PROVE  Fifo!Drain
<1>1. count' = 0
  BY Zenon DEF Drain, IInv, TypeOK
<1>2. Entries' = << >>
  BY <1>1 DEF Entries
<1> QED BY Zenon, <1>2 DEF Fifo!Drain, Drain

\* The ring buffer implements the bounded queue for every capacity: entries
\* come out in the order they went in, and only the oldest are ever dropped.
THEOREM RingImplementsFifo == Spec => ImplementsFifo
<1>1. NewMetricCache => Fifo!Init
  BY DEF NewMetricCache, Fifo!Init, Entries
<1>2. IInv /\ IInv' /\ [Next]_vars => [Fifo!Next]_(Fifo!vars)
  <2>1. ASSUME UNCHANGED vars PROVE UNCHANGED Fifo!vars
    BY Zenon, <2>1 DEF vars, Fifo!vars, Entries, Index
  <2> QED BY Zenon, <2>1, AddRefines, DrainRefines DEF Next, Fifo!Next
<1> QED BY <1>1, <1>2, InitIInv, NextIInv, PTL DEF Spec, ImplementsFifo, Fifo!Spec

-----------------------------------------------------------------------------
(* The tunnel gateway *)

\* A connection that has not been through authentication is nobody's tunnel, and
\* one whose handler has returned is closed.
Fresh ==
    \A c \in Conn :
        /\ hs[c] \in {"none", "auth"} =>
             c \notin closed /\ c \notin shut /\ \A a \in Actor : c \notin todo[a]
        /\ hs[c] = "done" => c \in shut

\* A handler closes only its own tunnel, as its last act; Stop has none to close
\* before it has emptied the pool.  So CloseLater overwrites no list.
ListsFree ==
    /\ \A c \in Conn : hs[c] # "close" => todo[c] = {}
    /\ gphase \in {"new", "starting", "running", "stopping", "failed"} => todo["stop"] = {}

\* The actor that set closed is the only one to tell the platform, once.
OneCloser ==
    /\ \A a \in Actor : closing[a] # Nothing =>
          /\ closing[a].c \in closed
          /\ \A i \in DOMAIN told[closing[a].c] : told[closing[a].c][i] # "close"
          /\ \A b \in Actor : closing[b] # Nothing /\ closing[b].c = closing[a].c => a = b
    /\ \A c \in Conn : \A i \in DOMAIN told[c] : told[c][i] = "close" => c \in closed

\* Once Stop has begun nothing listens.
Deaf == gphase \in {"stopping", "closing", "stopped", "timeout", "failed", "new"} => ~listening

\* The inductive invariant.
TunnelInv ==
    /\ TunnelTypeOK /\ IsFiniteSet(pool)
    /\ Fresh /\ ListsFree /\ OneCloser /\ Deaf
    /\ PoolAndRelaysAgree /\ ClosedOnce /\ StopIsClean

-----------------------------------------------------------------------------
(* What the steps leave alone *)

\* Closing a tunnel moves no handler, and nothing of the gateway.
LEMMA CloseFrame ==
    ASSUME NEW a \in Actor, Close(a)
    PROVE  /\ UNCHANGED <<hs, pool, idle, gphase, gctxDone, listening, loops, up, final, msgs>>
           /\ shut \subseteq shut'
<1>1. ASSUME NEW c \in Conn, CloseMark(a, c)
      PROVE  UNCHANGED <<hs, pool, idle, shut, gphase, gctxDone, listening, loops, up, final, msgs>>
  BY Zenon, <1>1 DEF CloseMark, gateway, link
<1>2. ASSUME CloseRest(a)
      PROVE  /\ UNCHANGED <<hs, pool, idle, gphase, gctxDone, listening, loops, up, final, msgs>>
             /\ shut' = shut \cup {closing[a].c}
  BY Zenon, <1>2 DEF CloseRest, gateway, link
<1> QED BY Zenon, <1>1, <1>2 DEF Close

\* A step of an accepted connection moves nothing of the gateway.
LEMMA HandlerFrame ==
    ASSUME NEW c \in Conn,
           Accept(c) \/ AuthFails(c) \/ AddTunnel(c) \/ Handler(c) \/ TunnelTimeouts(c)
    PROVE  UNCHANGED <<gphase, gctxDone, listening, loops, up, final, msgs>>
<1>1. CASE Accept(c) \/ AuthFails(c) \/ AddTunnel(c) \/ TunnelTimeouts(c)
  BY Zenon, <1>1 DEF Accept, AuthFails, AddTunnel, TunnelTimeouts, gateway, link
<1>2. CASE Handler(c)
  BY Zenon, <1>2 DEF Handler, OpenTunnel, RelayHead, RelayRead, RelaySend, Leave, gateway, link
<1> QED BY Zenon, <1>1, <1>2

\* Nor does a message of the platform, which also leaves the handlers alone.
LEMMA MessageFrame ==
    ASSUME NEW c \in Conn, TunnelData(c) \/ TunnelClose(c)
    PROVE  /\ gphase = "running" /\ msgs < MaxMsgs /\ msgs' = msgs + 1
           /\ UNCHANGED <<gphase, gctxDone, listening, loops, up, final, hs, closed, shut, told, closing>>
<1>1. NextMessage
  BY Zenon DEF TunnelData, TunnelClose
<1>2. gphase = "running" /\ msgs < MaxMsgs /\ msgs' = msgs + 1
  BY Zenon, <1>1 DEF NextMessage
<1>3. UNCHANGED <<gphase, gctxDone, listening, loops, up, final, hs, closed, shut, told, closing>>
  BY Zenon DEF TunnelData, TunnelClose, closers, gateway, link
<1> QED BY Zenon, <1>2, <1>3

\* Only Close, the opening message and the end of a handler touch a connection
\* or what the platform is told.
LEMMA ConnFrame ==
    ASSUME NEW c \in Conn,
           Accept(c) \/ AddTunnel(c) \/ RelayHead(c) \/ RelayRead(c) \/ RelaySend(c)
             \/ TunnelTimeouts(c) \/ TunnelData(c) \/ TunnelClose(c)
    PROVE  UNCHANGED <<told, closing, closed, shut>>
<1>1. CASE Accept(c) \/ AddTunnel(c) \/ TunnelTimeouts(c) \/ TunnelData(c) \/ TunnelClose(c)
  BY Zenon, <1>1 DEF Accept, AddTunnel, TunnelTimeouts, TunnelData, TunnelClose, closers
<1>2. CASE RelayHead(c) \/ RelayRead(c) \/ RelaySend(c)
  BY Zenon, <1>2 DEF RelayHead, RelayRead, RelaySend
<1> QED BY Zenon, <1>1, <1>2

\* Emptying the pool moves no handler and closes nothing yet.
LEMMA SweepFrame ==
    ASSUME ReaperTick \/ StopCloses
    PROVE  /\ UNCHANGED <<hs, closed, shut, told, closing, gctxDone, listening, loops, up, final, msgs>>
           /\ \/ UNCHANGED gphase
              \/ gphase = "stopping" /\ gphase' = "closing"
BY Zenon DEF ReaperTick, StopCloses, gateway, link

\* The steps of the gateway's own life touch no tunnel and no list.
LEMMA OwnLife ==
    ASSUME StartGateway \/ StartRegisters \/ RunCancelled \/ ClientStops \/ AcceptFails
           \/ ReaperEnds \/ StopBegins \/ StopReturns \/ Finished \/ UNCHANGED tunnelVars
    PROVE  UNCHANGED <<hs, pool, closed, shut, idle, told, todo, closing, msgs>>
BY Zenon DEF StartGateway, StartRegisters, RunCancelled, ClientStops, AcceptFails, ReaperEnds,
   StopBegins, StopReturns, Finished, tunnelVars, tunnels, closers

\* A connection whose handler steps has been accepted and has not ended.
LEMMA HandlerRuns ==
    ASSUME NEW c \in Conn, AuthFails(c) \/ AddTunnel(c) \/ Handler(c)
    PROVE  hs[c] \in {"auth"} \cup Serving
BY Zenon DEF AuthFails, AddTunnel, Handler, OpenTunnel, RelayHead, RelayRead, RelaySend, Leave, Serving

\* A step of a relay: it goes on, leaves, or closes its own tunnel.
LEMMA RelayEffect ==
    ASSUME NEW c \in Conn, RelayHead(c) \/ RelayRead(c) \/ RelaySend(c)
    PROVE  /\ hs[c] \in Relaying /\ UNCHANGED <<pool, closed, shut, told, closing>>
           /\ idle' = idle \/ idle' = idle \ {c}
           /\ \/ hs' = [hs EXCEPT ![c] = "close"] /\ todo' = [todo EXCEPT ![c] = {c}]
              \/ \E l \in {"relay", "read", "send", "leave"} : hs' = [hs EXCEPT ![c] = l] /\ UNCHANGED todo
<1>1. CASE RelayHead(c)
  BY Zenon, <1>1 DEF RelayHead, CloseLater, Relaying
<1>2. CASE RelayRead(c)
  BY Zenon, <1>2 DEF RelayRead, CloseLater, Relaying
<1>3. CASE RelaySend(c)
  BY Zenon, <1>3 DEF RelaySend, CloseLater, Relaying
<1> QED BY Zenon, <1>1, <1>2, <1>3

-----------------------------------------------------------------------------
(* Types *)

\* Tunnels taken out of the pool leave a finite pool within its limit, ...
LEMMA PoolShrinks ==
    ASSUME IsFiniteSet(pool), Cardinality(pool) <= MaxTunnels, NEW ts, pool' = pool \ ts
    PROVE  IsFiniteSet(pool') /\ Cardinality(pool') <= MaxTunnels
<1>1. IsFiniteSet(pool') /\ Cardinality(pool') <= Cardinality(pool)
  BY Zenon, FS_Subset
<1>2. Cardinality(pool') \in Nat /\ Cardinality(pool) \in Nat
  BY Zenon, <1>1, FS_CardinalityType
<1> QED BY <1>1, <1>2, TunnelAssumption

\* ... and so does one that is added below it.
LEMMA PoolGrows ==
    ASSUME IsFiniteSet(pool), Cardinality(pool) < MaxTunnels, NEW c, pool' = pool \cup {c}
    PROVE  IsFiniteSet(pool') /\ Cardinality(pool') <= MaxTunnels
<1>1. Cardinality(pool) \in Nat
  BY Zenon, FS_CardinalityType
<1>2. IsFiniteSet(pool') /\ Cardinality(pool') <= Cardinality(pool) + 1
  BY <1>1, FS_AddElement
<1>3. Cardinality(pool') \in Nat
  BY Zenon, <1>2, FS_CardinalityType
<1> QED BY <1>1, <1>2, <1>3, TunnelAssumption

\* A message told to the platform is appended, or lost.
LEMMA TellType ==
    ASSUME told \in [Conn -> Seq({"open", "close"})], NEW c \in Conn,
           NEW m \in {"open", "close"}, Tell(c, m)
    PROVE  told' \in [Conn -> Seq({"open", "close"})]
BY DEF Tell

\* The Boolean variables stay Boolean.
LEMMA BooleanStep ==
    ASSUME TunnelTypeOK, [TunnelNext]_tunnelVars
    PROVE  gctxDone' \in BOOLEAN /\ listening' \in BOOLEAN /\ up' \in BOOLEAN /\ final' \in BOOLEAN
<1>1. \/ UNCHANGED <<gctxDone, listening, up, final>>
      \/ StartGateway \/ RunCancelled \/ ClientStops \/ StopBegins
  <2>1. CASE StartRegisters \/ AcceptFails \/ ReaperEnds \/ StopReturns \/ Finished \/ UNCHANGED tunnelVars
    BY Zenon, <2>1 DEF StartRegisters, AcceptFails, ReaperEnds, StopReturns, Finished, tunnelVars, gateway, link
  <2> QED BY Zenon, <2>1, CloseFrame, HandlerFrame, MessageFrame, SweepFrame DEF TunnelNext
<1>2. CASE StartGateway \/ RunCancelled \/ ClientStops \/ StopBegins
  BY Zenon, <1>2 DEF StartGateway, RunCancelled, ClientStops, StopBegins, gateway, link, TunnelTypeOK
<1>3. CASE UNCHANGED <<gctxDone, listening, up, final>>
  BY Zenon, <1>3 DEF TunnelTypeOK
<1> QED BY Zenon, <1>1, <1>2, <1>3

\* So do the phase of the gateway, its goroutines and the count of messages.
LEMMA PhaseStep ==
    ASSUME TunnelTypeOK, [TunnelNext]_tunnelVars
    PROVE  /\ gphase' \in {"new", "starting", "running", "stopping", "closing", "stopped", "timeout", "failed"}
           /\ loops' \subseteq {"accept", "reaper"} /\ msgs' \in 0 .. MaxMsgs
<1>0. /\ gphase \in {"new", "starting", "running", "stopping", "closing", "stopped", "timeout", "failed"}
      /\ loops \subseteq {"accept", "reaper"} /\ msgs \in 0 .. MaxMsgs /\ MaxMsgs \in Nat
  BY Zenon, TunnelAssumption DEF TunnelTypeOK
<1>1. ASSUME NEW a \in Actor, Close(a)
      PROVE  UNCHANGED <<gphase, loops, msgs>>
  BY Zenon, <1>1, CloseFrame
<1>2. ASSUME NEW c \in Conn, Accept(c) \/ AuthFails(c) \/ AddTunnel(c) \/ Handler(c) \/ TunnelTimeouts(c)
      PROVE  UNCHANGED <<gphase, loops, msgs>>
  BY Zenon, <1>2, HandlerFrame
<1>3. ASSUME NEW c \in Conn, TunnelData(c) \/ TunnelClose(c)
      PROVE  UNCHANGED <<gphase, loops>> /\ msgs' \in 0 .. MaxMsgs
  <2>1. msgs < MaxMsgs /\ msgs' = msgs + 1 /\ UNCHANGED <<gphase, loops>>
    BY Zenon, <1>3, MessageFrame
  <2> QED BY <1>0, <2>1
<1>4. CASE ReaperTick \/ StopCloses
  <2>1. UNCHANGED <<loops, msgs>> /\ (UNCHANGED gphase \/ gphase' = "closing")
    BY Zenon, <1>4, SweepFrame
  <2> QED BY Zenon, <1>0, <2>1
<1>5. CASE StartGateway \/ StartRegisters \/ RunCancelled \/ ClientStops \/ AcceptFails
           \/ ReaperEnds \/ StopBegins \/ StopReturns \/ Finished \/ UNCHANGED tunnelVars
  <2>1. UNCHANGED msgs
    BY Zenon, <1>5, OwnLife
  <2>2. loops' = loops \/ loops' = {"reaper"} \/ loops' = {"accept", "reaper"}
        \/ loops' = loops \ {"accept"} \/ loops' = loops \ {"reaper"}
    BY Zenon, <1>5 DEF StartGateway, StartRegisters, RunCancelled, ClientStops, AcceptFails, ReaperEnds,
       StopBegins, StopReturns, Finished, tunnelVars, gateway
  <2>3. UNCHANGED gphase \/ gphase' \in {"failed", "starting", "running", "stopping", "stopped", "timeout"}
    BY Zenon, <1>5 DEF StartGateway, StartRegisters, RunCancelled, ClientStops, AcceptFails, ReaperEnds,
       StopBegins, StopReturns, Finished, tunnelVars, gateway
  <2>4. loops' \subseteq {"accept", "reaper"}
    BY Zenon, <1>0, <2>2
  <2>5. gphase' \in {"new", "starting", "running", "stopping", "closing", "stopped", "timeout", "failed"}
    BY Zenon, <1>0, <2>3
  <2> QED BY Zenon, <1>0, <2>1, <2>4, <2>5
<1> QED BY Zenon, <1>0, <1>1, <1>2, <1>3, <1>4, <1>5 DEF TunnelNext

\* The part of the types that is about tunnels.
TunnelsOK ==
    /\ hs \in [Conn -> {"none", "auth", "done"} \cup Serving]
    /\ pool \subseteq Conn /\ IsFiniteSet(pool) /\ Cardinality(pool) <= MaxTunnels
    /\ closed \subseteq Conn /\ shut \subseteq Conn /\ idle \subseteq pool
    /\ told \in [Conn -> Seq({"open", "close"})]
    /\ todo \in [Actor -> SUBSET Conn]
    /\ closing \in [Actor -> {Nothing} \cup [op : {"closing"}, c : Conn]]

\* A step keeps it; the pool stays within its limit.
LEMMA TunnelsStep ==
    ASSUME TunnelsOK, [TunnelNext]_tunnelVars
    PROVE  TunnelsOK'
<1> USE TunnelAssumption DEF TunnelsOK, tunnels, closers, gateway, link, Serving, Actor
<1>1. ASSUME NEW a \in Actor, Close(a) PROVE TunnelsOK'
  <2>1. ASSUME NEW c \in Conn, CloseMark(a, c) PROVE TunnelsOK'
    BY Zenon, <2>1 DEF CloseMark
  <2>2. CASE CloseRest(a)
    <3>1. closing[a].c \in Conn
      BY Zenon, <2>2 DEF CloseRest
    <3>2. told' \in [Conn -> Seq({"open", "close"})]
      BY Zenon, <2>2, <3>1, TellType DEF CloseRest
    <3> QED BY Zenon, <2>2, <3>1, <3>2 DEF CloseRest
  <2> QED BY Zenon, <1>1, <2>1, <2>2 DEF Close
<1>2. ASSUME NEW c \in Conn, Accept(c) \/ AuthFails(c) PROVE TunnelsOK'
  <2>1. hs' \in [Conn -> {"none", "auth", "done"} \cup Serving] /\ shut' \subseteq Conn
    <3>1. \E l \in {"auth", "done"} : hs' = [hs EXCEPT ![c] = l]
      BY Zenon, <1>2 DEF Accept, AuthFails
    <3>2. shut' = shut \/ shut' = shut \cup {c}
      BY Zenon, <1>2 DEF Accept, AuthFails
    <3> QED BY Zenon, <3>1, <3>2
  <2> QED BY Zenon, <1>2, <2>1 DEF Accept, AuthFails
<1>3. ASSUME NEW c \in Conn, AddTunnel(c) PROVE TunnelsOK'
  <2>1. hs' \in [Conn -> {"none", "auth", "done"} \cup Serving] /\ todo' \in [Actor -> SUBSET Conn]
    <3>1. hs' = [hs EXCEPT ![c] = "open"] \/ hs' = [hs EXCEPT ![c] = "close"]
      BY Zenon, <1>3 DEF AddTunnel
    <3>2. todo' = todo \/ todo' = [todo EXCEPT ![c] = {c}]
      BY Zenon, <1>3 DEF AddTunnel, CloseLater
    <3> QED BY <3>1, <3>2
  <2>2. IsFiniteSet(pool') /\ Cardinality(pool') <= MaxTunnels
    <3>1. CASE Cardinality(pool) < MaxTunnels /\ pool' = pool \cup {c}
      BY Zenon, <3>1, PoolGrows
    <3>2. CASE UNCHANGED pool
      BY Zenon, <3>2
    <3> QED BY Zenon, <1>3, <3>1, <3>2 DEF AddTunnel
  <2>3. pool' \subseteq Conn /\ idle' \subseteq pool'
    BY Zenon, <1>3 DEF AddTunnel
  <2> QED BY Zenon, <1>3, <2>1, <2>2, <2>3 DEF AddTunnel
<1>4. ASSUME NEW c \in Conn, OpenTunnel(c) PROVE TunnelsOK'
  <2>1. told' \in [Conn -> Seq({"open", "close"})]
    BY Zenon, <1>4, TellType DEF OpenTunnel
  <2>2. IsFiniteSet(pool') /\ Cardinality(pool') <= MaxTunnels
    <3>1. CASE pool' = pool \ {c}
      BY Zenon, <3>1, PoolShrinks
    <3>2. CASE UNCHANGED pool
      BY Zenon, <3>2
    <3> QED BY Zenon, <1>4, <3>1, <3>2 DEF OpenTunnel, RemoveTunnels
  <2>3. hs' \in [Conn -> {"none", "auth", "done"} \cup Serving] /\ todo' \in [Actor -> SUBSET Conn]
    <3>1. hs' = [hs EXCEPT ![c] = "relay"] \/ hs' = [hs EXCEPT ![c] = "close"]
      BY Zenon, <1>4 DEF OpenTunnel
    <3>2. todo' = todo \/ todo' = [todo EXCEPT ![c] = {c}]
      BY Zenon, <1>4 DEF OpenTunnel, CloseLater
    <3> QED BY <3>1, <3>2
  <2>4. pool' \subseteq Conn /\ idle' \subseteq pool'
    BY Zenon, <1>4 DEF OpenTunnel, RemoveTunnels
  <2> QED BY Zenon, <1>4, <2>1, <2>2, <2>3, <2>4 DEF OpenTunnel
<1>5. ASSUME NEW c \in Conn, RelayHead(c) \/ RelayRead(c) \/ RelaySend(c)
      PROVE  TunnelsOK'
  <2>1. hs' \in [Conn -> {"none", "auth", "done"} \cup Serving]
    <3>1. \E l \in {"close", "leave", "read", "send", "relay"} : hs' = [hs EXCEPT ![c] = l]
      BY Zenon, <1>5, RelayEffect
    <3> QED BY Zenon, <3>1
  <2>2. todo' \in [Actor -> SUBSET Conn]
    <3>1. todo' = todo \/ todo' = [todo EXCEPT ![c] = {c}]
      BY Zenon, <1>5, RelayEffect
    <3>2. [todo EXCEPT ![c] = {c}] \in [Actor -> SUBSET Conn]
      BY Zenon
    <3> QED BY Zenon, <3>1, <3>2
  <2>3. idle' \subseteq pool' /\ UNCHANGED <<pool, closed, shut, told, closing>>
    BY Zenon, <1>5, RelayEffect
  <2> QED BY Zenon, <2>1, <2>2, <2>3
<1>6. ASSUME NEW ts, RemoveTunnels(ts)
      PROVE  IsFiniteSet(pool') /\ Cardinality(pool') <= MaxTunnels /\ pool' \subseteq Conn /\ idle' \subseteq pool'
  <2>1. IsFiniteSet(pool') /\ Cardinality(pool') <= MaxTunnels
    BY Zenon, <1>6, PoolShrinks DEF RemoveTunnels
  <2> QED BY Zenon, <1>6, <2>1 DEF RemoveTunnels
<1>7. ASSUME NEW c \in Conn, Leave(c) PROVE TunnelsOK'
  <2>1. hs' \in [Conn -> {"none", "auth", "done"} \cup Serving] /\ shut' \subseteq Conn
    BY Zenon, <1>7 DEF Leave
  <2> QED BY Zenon, <1>6, <1>7, <2>1 DEF Leave
<1>8. ASSUME NEW c \in Conn, TunnelTimeouts(c) \/ TunnelData(c) PROVE TunnelsOK'
  BY Zenon, <1>8 DEF TunnelTimeouts, TunnelData
<1>9. ASSUME NEW a \in Actor, NEW ts \in SUBSET Conn, CloseLater(a, ts)
      PROVE  todo' \in [Actor -> SUBSET Conn]
  BY Zenon, <1>9 DEF CloseLater
<1>10. ASSUME NEW c \in Conn, TunnelClose(c) PROVE TunnelsOK'
  <2>1. todo' \in [Actor -> SUBSET Conn]
    BY Zenon, <1>9, <1>10 DEF TunnelClose
  <2> QED BY Zenon, <1>6, <1>10, <2>1 DEF TunnelClose
<1>11. CASE ReaperTick \/ StopCloses
  <2>1. todo' \in [Actor -> SUBSET Conn]
    BY Zenon, <1>9, <1>11 DEF ReaperTick, StopCloses
  <2> QED BY Zenon, <1>6, <1>11, <2>1 DEF ReaperTick, StopCloses
<1>12. CASE StartGateway \/ StartRegisters \/ RunCancelled \/ ClientStops \/ AcceptFails
            \/ ReaperEnds \/ StopBegins \/ StopReturns \/ Finished \/ UNCHANGED tunnelVars
  <2>1. UNCHANGED <<hs, pool, closed, shut, idle, told, todo, closing>>
    BY Zenon, <1>12, OwnLife
  <2> QED BY Zenon, <2>1
<1> QED
  BY Zenon, <1>1, <1>2, <1>3, <1>4, <1>5, <1>7, <1>8, <1>10, <1>11, <1>12 DEF TunnelNext, Handler

\* Together they are the type invariant with a finite pool.
LEMMA TunnelTypeStep ==
    ASSUME TunnelTypeOK, IsFiniteSet(pool), [TunnelNext]_tunnelVars
    PROVE  TunnelTypeOK' /\ IsFiniteSet(pool)'
<1>1. TunnelsOK'
  BY Zenon, TunnelsStep DEF TunnelTypeOK, TunnelsOK
<1> QED BY Zenon, <1>1, BooleanStep, PhaseStep DEF TunnelTypeOK, TunnelsOK

-----------------------------------------------------------------------------
(* The lists of tunnels to close *)

\* The shapes of the variables the arguments below look at.
LEMMA Shapes ==
    ASSUME TunnelTypeOK
    PROVE  /\ DOMAIN hs = Conn /\ DOMAIN todo = Actor /\ DOMAIN told = Conn /\ DOMAIN closing = Actor
           /\ \A a \in Actor : todo[a] \subseteq Conn
           /\ Conn \subseteq Actor /\ {"recv", "reaper", "stop"} \subseteq Actor
           /\ pool \subseteq Conn /\ idle \subseteq pool
           /\ \A c \in Conn : c # "recv" /\ c # "reaper" /\ c # "stop"
<1>1. /\ hs \in [Conn -> {"none", "auth", "done"} \cup Serving] /\ todo \in [Actor -> SUBSET Conn]
      /\ told \in [Conn -> Seq({"open", "close"})]
      /\ closing \in [Actor -> {Nothing} \cup [op : {"closing"}, c : Conn]]
      /\ pool \subseteq Conn /\ idle \subseteq pool
  BY Zenon DEF TunnelTypeOK
<1>2. Conn \subseteq Actor /\ {"recv", "reaper", "stop"} \subseteq Actor
  BY Zenon DEF Actor
<1>3. \A c \in Conn : c # "recv" /\ c # "reaper" /\ c # "stop"
  BY Zenon, TunnelAssumption
<1> QED BY Zenon, <1>1, <1>2, <1>3

\* A step keeps Fresh and ListsFree.  A list is only given to an actor whose
\* list is empty, and only holds tunnels whose handlers are past authentication.
LEMMA ListsStep ==
    ASSUME TunnelInv, [TunnelNext]_tunnelVars
    PROVE  Fresh' /\ ListsFree'
<1>0. TunnelTypeOK /\ Fresh /\ ListsFree /\ PoolAndRelaysAgree
  BY Zenon DEF TunnelInv
<1> USE Shapes, <1>0 DEF Fresh, ListsFree, tunnels, closers, gateway, link, Serving
<1>1. ASSUME NEW a \in Actor, Close(a) PROVE Fresh' /\ ListsFree'
  <2>1. ASSUME NEW c \in Conn, CloseMark(a, c) PROVE Fresh' /\ ListsFree'
    BY Zenon, <2>1 DEF CloseMark
  <2>2. CASE CloseRest(a)
    <3>1. closing[a].c \in closed
      BY Zenon, <2>2 DEF CloseRest, TunnelInv, OneCloser
    <3> QED BY Zenon, <2>2, <3>1 DEF CloseRest
  <2> QED BY Zenon, <1>1, <2>1, <2>2 DEF Close
<1>2. ASSUME NEW c \in Conn, Accept(c) PROVE Fresh' /\ ListsFree'
  BY Zenon, <1>2 DEF Accept
<1>3. ASSUME NEW c \in Conn, AuthFails(c) PROVE Fresh' /\ ListsFree'
  BY Zenon, <1>3 DEF AuthFails
<1>4. ASSUME NEW c \in Conn, AddTunnel(c) PROVE Fresh' /\ ListsFree'
  BY <1>4 DEF AddTunnel, CloseLater
<1>5. ASSUME NEW c \in Conn, OpenTunnel(c) PROVE Fresh' /\ ListsFree'
  BY <1>5 DEF OpenTunnel, CloseLater
<1>6. ASSUME NEW c \in Conn, RelayHead(c) \/ RelayRead(c) \/ RelaySend(c) PROVE Fresh' /\ ListsFree'
  <2>1. UNCHANGED gphase
    BY Zenon, <1>6, HandlerFrame DEF Handler
  <2> QED BY <1>6, <2>1, RelayEffect DEF Relaying
<1>9. ASSUME NEW c \in Conn, Leave(c) PROVE Fresh' /\ ListsFree'
  BY Zenon, <1>9 DEF Leave, Free
<1>10. ASSUME NEW c \in Conn, TunnelTimeouts(c) \/ TunnelData(c) PROVE Fresh' /\ ListsFree'
  BY Zenon, <1>10 DEF TunnelTimeouts, TunnelData
<1>11. ASSUME NEW c \in Conn, TunnelClose(c) PROVE Fresh' /\ ListsFree'
  BY Zenon, <1>11 DEF TunnelClose, CloseLater, PoolAndRelaysAgree
<1>12. CASE ReaperTick
  BY Zenon, <1>12 DEF ReaperTick, CloseLater, PoolAndRelaysAgree
<1>13. CASE StopCloses
  BY Zenon, <1>13 DEF StopCloses, CloseLater, PoolAndRelaysAgree
<1>14. CASE StartGateway \/ StartRegisters \/ RunCancelled \/ ClientStops \/ AcceptFails
            \/ ReaperEnds \/ StopBegins \/ StopReturns \/ Finished \/ UNCHANGED tunnelVars
  <2>1. UNCHANGED <<hs, closed, shut, todo>>
    BY Zenon, <1>14, OwnLife
  <2>2. gphase' \in {"new", "starting", "running", "stopping", "failed"} =>
           gphase \in {"new", "starting", "running", "stopping", "failed"}
    BY Zenon, <1>14 DEF StartGateway, StartRegisters, RunCancelled, ClientStops, AcceptFails, ReaperEnds,
       StopBegins, StopReturns, Finished, tunnelVars
  <2> QED BY Zenon, <2>1, <2>2
<1> QED
  BY Zenon, <1>1, <1>2, <1>3, <1>4, <1>5, <1>6, <1>9, <1>10, <1>11, <1>12, <1>13, <1>14
     DEF TunnelNext, Handler

-----------------------------------------------------------------------------
(* Closing once *)

\* What telling c something does to the record of what the platform was told.
LEMMA TellEffect ==
    ASSUME TunnelTypeOK, NEW c \in Conn, NEW m \in {"open", "close"}, Tell(c, m)
    PROVE  /\ \A d \in Conn \ {c} : told'[d] = told[d]
           /\ \/ told'[c] = told[c]
              \/ /\ DOMAIN told'[c] = 1 .. Len(told[c]) + 1 /\ DOMAIN told[c] = 1 .. Len(told[c])
                 /\ Len(told[c]) \in Nat
                 /\ \A i \in 1 .. Len(told[c]) : told'[c][i] = told[c][i]
                 /\ told'[c][Len(told[c]) + 1] = m
<1>1. told \in [Conn -> Seq({"open", "close"})] /\ told[c] \in Seq({"open", "close"})
  BY Zenon DEF TunnelTypeOK
<1>2. told' = [told EXCEPT ![c] = IF up THEN Append(told[c], m) ELSE told[c]]
  BY Zenon DEF Tell
<1>3. /\ Append(told[c], m) \in Seq({"open", "close"})
      /\ Len(Append(told[c], m)) = Len(told[c]) + 1
      /\ \A i \in 1 .. Len(told[c]) : Append(told[c], m)[i] = told[c][i]
      /\ Append(told[c], m)[Len(told[c]) + 1] = m
  BY <1>1
<1>4. /\ DOMAIN Append(told[c], m) = 1 .. Len(told[c]) + 1 /\ DOMAIN told[c] = 1 .. Len(told[c])
      /\ Len(told[c]) \in Nat
  BY <1>1, <1>3
<1>5. told'[c] = told[c] \/ told'[c] = Append(told[c], m)
  BY Zenon, <1>1, <1>2
<1>6. \A d \in Conn \ {c} : told'[d] = told[d]
  BY Zenon, <1>1, <1>2
<1> QED BY Zenon, <1>3, <1>4, <1>5, <1>6

\* A step that tells nothing, closes nothing and shuts nothing of a tunnel.
LEMMA QuietStep ==
    ASSUME OneCloser, ClosedOnce, UNCHANGED <<told, closing, closed, shut>>,
           \A c \in Conn : hs'[c] \in Serving => hs[c] \in Serving \/ c \notin shut
    PROVE  OneCloser' /\ ClosedOnce'
BY Zenon DEF OneCloser, ClosedOnce

\* The rest of a Close keeps OneCloser and ClosedOnce: nobody else closes c.
LEMMA RestStep ==
    ASSUME TunnelTypeOK, OneCloser, ClosedOnce, NEW a \in Actor, CloseRest(a)
    PROVE  OneCloser' /\ ClosedOnce'
<1>0. /\ closing \in [Actor -> {Nothing} \cup [op : {"closing"}, c : Conn]]
      /\ closing[a] # Nothing
  BY Zenon DEF TunnelTypeOK, CloseRest
<1>1. PICK c \in Conn : c = closing[a].c
  BY Zenon, <1>0
<1>2. /\ closing' = [closing EXCEPT ![a] = Nothing] /\ shut' = shut \cup {c}
      /\ UNCHANGED <<hs, closed>> /\ Tell(c, "close")
  BY Zenon, <1>1 DEF CloseRest
<1>3. c \in closed /\ \A i \in DOMAIN told[c] : told[c][i] # "close"
  BY Zenon, <1>0, <1>1 DEF OneCloser
<1>4. /\ \A d \in Conn \ {c} : told'[d] = told[d]
      /\ \/ told'[c] = told[c]
         \/ /\ DOMAIN told'[c] = 1 .. Len(told[c]) + 1 /\ DOMAIN told[c] = 1 .. Len(told[c])
            /\ Len(told[c]) \in Nat
            /\ \A i \in 1 .. Len(told[c]) : told'[c][i] = told[c][i]
            /\ told'[c][Len(told[c]) + 1] = "close"
  BY Zenon, <1>2, TellEffect
<1>5. \A i, j \in DOMAIN told'[c] : told'[c][i] = "close" /\ told'[c][j] = "close" => i = j
  <2>1. CASE told'[c] = told[c]
    BY Zenon, <1>3, <2>1
  <2>2. CASE told'[c] # told[c]
    <3>1. \A i \in DOMAIN told'[c] : told'[c][i] = "close" => i = Len(told[c]) + 1
      BY <1>3, <1>4, <2>2
    <3> QED BY Zenon, <3>1
  <2> QED BY Zenon, <2>1, <2>2
<1>6. ASSUME NEW b \in Actor, closing'[b] # Nothing
      PROVE  b # a /\ closing'[b] = closing[b] /\ closing[b].c # c /\ closing[b].c \in Conn
  <2>1. b # a /\ closing'[b] = closing[b]
    BY Zenon, <1>0, <1>2, <1>6
  <2>2. closing[b].c # c
    BY Zenon, <1>0, <1>1, <1>6, <2>1 DEF OneCloser
  <2>3. closing[b].c \in Conn
    BY Zenon, <1>0, <1>6, <2>1
  <2> QED BY Zenon, <2>1, <2>2, <2>3
<1>7. ASSUME NEW b \in Actor, closing'[b] # Nothing
      PROVE  /\ closing'[b].c \in closed'
             /\ \A i \in DOMAIN told'[closing'[b].c] : told'[closing'[b].c][i] # "close"
             /\ \A d \in Actor : closing'[d] # Nothing /\ closing'[d].c = closing'[b].c => b = d
  <2>1. told'[closing[b].c] = told[closing[b].c]
    BY Zenon, <1>4, <1>6, <1>7
  <2>2. \A d \in Actor : closing'[d] # Nothing => closing'[d] = closing[d]
    BY Zenon, <1>6
  <2>3. /\ closing[b] # Nothing /\ closing'[b] = closing[b]
        /\ closing[b].c \in closed /\ \A i \in DOMAIN told[closing[b].c] : told[closing[b].c][i] # "close"
        /\ \A d \in Actor : closing[d] # Nothing /\ closing[d].c = closing[b].c => b = d
    BY Zenon, <1>7, <2>2 DEF OneCloser
  <2>4. closed' = closed
    BY Zenon, <1>2
  <2> QED BY Zenon, <2>1, <2>2, <2>3, <2>4
<1>8. \A d \in Conn : \A i \in DOMAIN told'[d] : told'[d][i] = "close" => d \in closed'
  BY Zenon, <1>2, <1>3, <1>4 DEF OneCloser
<1>9. ClosedOnce'
  BY Zenon, <1>2, <1>3, <1>4, <1>5 DEF ClosedOnce
<1> QED BY Zenon, <1>7, <1>8, <1>9 DEF OneCloser

\* A step keeps OneCloser and ClosedOnce.
LEMMA CloserStep ==
    ASSUME TunnelInv, [TunnelNext]_tunnelVars
    PROVE  OneCloser' /\ ClosedOnce'
<1>0. TunnelTypeOK /\ Fresh /\ OneCloser /\ ClosedOnce /\ hs \in [Conn -> {"none", "auth", "done"} \cup Serving]
  BY Zenon DEF TunnelInv, TunnelTypeOK
<1> USE Shapes, <1>0 DEF tunnels, closers, gateway, link
<1>1. ASSUME NEW a \in Actor, NEW c \in Conn, CloseMark(a, c) PROVE OneCloser' /\ ClosedOnce'
  <2>1. Nothing # [op |-> "closing", c |-> c]
    BY Zenon DEF Nothing
  <2>2. CASE c \in closed
    BY Zenon, <1>1, <2>2, QuietStep DEF CloseMark
  <2>3. CASE c \notin closed
    <3>1. /\ closing' = [closing EXCEPT ![a] = [op |-> "closing", c |-> c]]
          /\ closed' = closed \cup {c} /\ UNCHANGED <<told, shut, hs>>
      BY Zenon, <1>1, <2>3 DEF CloseMark
    <3>2. closing'[a].c = c /\ \A b \in Actor \ {a} : closing'[b] = closing[b]
      BY Zenon, <3>1
    <3>3. \A b \in Actor : closing[b] # Nothing => closing[b].c # c
      BY Zenon, <2>3 DEF OneCloser
    <3>4. \A i \in DOMAIN told[c] : told[c][i] # "close"
      BY Zenon, <2>3 DEF OneCloser
    <3>5. ASSUME NEW b \in Actor, closing'[b] # Nothing
          PROVE  /\ closing'[b].c \in closed'
                 /\ \A i \in DOMAIN told'[closing'[b].c] : told'[closing'[b].c][i] # "close"
                 /\ \A d \in Actor : closing'[d] # Nothing /\ closing'[d].c = closing'[b].c => b = d
      <4>1. CASE b = a
        BY Zenon, <4>1, <3>1, <3>2, <3>3, <3>4
      <4>2. CASE b # a
        BY <4>2, <3>1, <3>2, <3>3, <3>5 DEF OneCloser
      <4> QED BY Zenon, <4>1, <4>2
    <3>6. \A d \in Conn : \A i \in DOMAIN told'[d] : told'[d][i] = "close" => d \in closed'
      BY Zenon, <3>1 DEF OneCloser
    <3>7. ClosedOnce'
      BY Zenon, <3>1 DEF ClosedOnce
    <3> QED BY Zenon, <3>5, <3>6, <3>7 DEF OneCloser
  <2> QED BY Zenon, <2>2, <2>3
<1>2. ASSUME NEW a \in Actor, CloseRest(a) PROVE OneCloser' /\ ClosedOnce'
  BY Zenon, <1>2, RestStep
<1>3. ASSUME NEW c \in Conn, OpenTunnel(c) PROVE OneCloser' /\ ClosedOnce'
  <2>1. /\ \A d \in Conn \ {c} : told'[d] = told[d]
        /\ \/ told'[c] = told[c]
           \/ /\ DOMAIN told'[c] = 1 .. Len(told[c]) + 1 /\ DOMAIN told[c] = 1 .. Len(told[c])
              /\ Len(told[c]) \in Nat
              /\ \A i \in 1 .. Len(told[c]) : told'[c][i] = told[c][i]
              /\ told'[c][Len(told[c]) + 1] = "open"
    BY Zenon, <1>3, TellEffect DEF OpenTunnel
  <2>2. \A d \in Conn : \A i \in DOMAIN told'[d] :
           told'[d][i] = "close" => i \in DOMAIN told[d] /\ told[d][i] = "close"
    BY <2>1
  <2>3. UNCHANGED <<closing, closed, shut>> /\ \A d \in Conn : hs'[d] \in Serving => hs[d] \in Serving
    BY Zenon, <1>3 DEF OpenTunnel, Serving
  <2>4. \A b \in Actor : closing[b] # Nothing => closing[b].c \in Conn
    BY Zenon DEF TunnelTypeOK
  <2>5. OneCloser'
    BY <2>2, <2>3, <2>4 DEF OneCloser
  <2>6. ClosedOnce'
    BY Zenon, <2>2, <2>3 DEF ClosedOnce
  <2> QED BY Zenon, <2>5, <2>6
<1>4. ASSUME NEW c \in Conn, AuthFails(c) \/ Leave(c) PROVE OneCloser' /\ ClosedOnce'
  <2>1. /\ hs' = [hs EXCEPT ![c] = "done"] /\ shut' = shut \cup {c}
        /\ UNCHANGED <<told, closing, closed>>
    BY Zenon, <1>4 DEF AuthFails, Leave
  <2> QED BY Zenon, <2>1 DEF OneCloser, ClosedOnce, Serving
<1>5. ASSUME NEW c \in Conn, Accept(c) \/ AddTunnel(c) \/ RelayHead(c) \/ RelayRead(c) \/ RelaySend(c)
                \/ TunnelTimeouts(c) \/ TunnelData(c) \/ TunnelClose(c)
      PROVE  OneCloser' /\ ClosedOnce'
  <2>1. UNCHANGED <<told, closing, closed, shut>>
    BY Zenon, <1>5, ConnFrame
  <2>2. \A d \in Conn : hs'[d] \in Serving => hs[d] \in Serving \/ d \notin shut
    <3>1. CASE Accept(c) \/ AddTunnel(c)
      BY Zenon, <3>1 DEF Accept, AddTunnel, Fresh
    <3>2. CASE RelayHead(c) \/ RelayRead(c) \/ RelaySend(c)
      <4>1. hs[c] \in Serving /\ \A d \in Conn \ {c} : hs'[d] = hs[d]
        BY <3>2, RelayEffect DEF Relaying, Serving
      <4> QED BY Zenon, <4>1
    <3>3. CASE TunnelTimeouts(c) \/ TunnelData(c) \/ TunnelClose(c)
      BY Zenon, <3>3 DEF TunnelTimeouts, TunnelData, TunnelClose
    <3> QED BY Zenon, <1>5, <3>1, <3>2, <3>3
  <2> QED BY Zenon, <2>1, <2>2, QuietStep
<1>6. CASE ReaperTick \/ StopCloses
  <2>1. UNCHANGED <<told, closing, closed, shut, hs>>
    BY Zenon, <1>6, SweepFrame
  <2> QED BY Zenon, <2>1, QuietStep
<1>7. CASE StartGateway \/ StartRegisters \/ RunCancelled \/ ClientStops \/ AcceptFails
           \/ ReaperEnds \/ StopBegins \/ StopReturns \/ Finished \/ UNCHANGED tunnelVars
  <2>1. UNCHANGED <<told, closing, closed, shut, hs>>
    BY Zenon, <1>7, OwnLife
  <2> QED BY Zenon, <2>1, QuietStep
<1> QED BY Zenon, <1>1, <1>2, <1>3, <1>4, <1>5, <1>6, <1>7 DEF TunnelNext, Handler, Close

-----------------------------------------------------------------------------
(* The pool and the relays *)

\* Who is being closed stays so as long as no list is lost.
LEMMA StillClosed ==
    ASSUME NEW c \in Conn, BeingClosed(c), closed \subseteq closed',
           \A a \in Actor : c \in todo[a] => c \in todo'[a] \/ c \in closed'
    PROVE  BeingClosed(c)'
BY Zenon DEF BeingClosed

\* A step keeps PoolAndRelaysAgree: whoever takes a tunnel out of the pool puts it
\* on a list, unless its own handler is about to end.
LEMMA AgreeStep ==
    ASSUME TunnelInv, [TunnelNext]_tunnelVars
    PROVE  PoolAndRelaysAgree'
<1>0. /\ TunnelTypeOK /\ Fresh /\ ListsFree /\ PoolAndRelaysAgree
      /\ hs \in [Conn -> {"none", "auth", "done"} \cup Serving]
  BY Zenon DEF TunnelInv, TunnelTypeOK
<1> USE Shapes, <1>0 DEF tunnels, closers, gateway, link, PoolAndRelaysAgree, Serving, Relaying
<1>1. ASSUME NEW a \in Actor, NEW c \in Conn, CloseMark(a, c) PROVE PoolAndRelaysAgree'
  <2>1. \A d \in Conn : BeingClosed(d) => BeingClosed(d)'
    BY Zenon, <1>1, StillClosed DEF CloseMark
  <2> QED BY Zenon, <1>1, <2>1 DEF CloseMark
<1>2. ASSUME NEW a \in Actor, CloseRest(a) PROVE PoolAndRelaysAgree'
  BY Zenon, <1>2 DEF CloseRest, BeingClosed
<1>3. ASSUME NEW c \in Conn, Accept(c) \/ AuthFails(c) PROVE PoolAndRelaysAgree'
  BY <1>3 DEF Accept, AuthFails, BeingClosed
<1>4. ASSUME NEW c \in Conn, AddTunnel(c) PROVE PoolAndRelaysAgree'
  <2>1. \A d \in Conn : BeingClosed(d) => BeingClosed(d)'
    BY Zenon, <1>4, StillClosed DEF AddTunnel, CloseLater, ListsFree
  <2> QED BY Zenon, <1>4, <2>1 DEF AddTunnel
<1>5. ASSUME NEW c \in Conn, OpenTunnel(c) PROVE PoolAndRelaysAgree'
  <2>1. \A d \in Conn : BeingClosed(d) => BeingClosed(d)'
    BY Zenon, <1>5, StillClosed DEF OpenTunnel, CloseLater, ListsFree
  <2> QED BY Zenon, <1>5, <2>1 DEF OpenTunnel, RemoveTunnels
<1>6. ASSUME NEW c \in Conn, RelayHead(c) \/ RelayRead(c) \/ RelaySend(c) PROVE PoolAndRelaysAgree'
  <2>1. UNCHANGED closed /\ \A a \in Actor : todo[a] \subseteq todo'[a]
    BY <1>6, RelayEffect DEF ListsFree
  <2>2. \A d \in Conn : BeingClosed(d) => BeingClosed(d)'
    BY Zenon, <2>1, StillClosed
  <2>3. UNCHANGED pool /\ \A d \in Conn : hs'[d] = hs[d] \/ (d = c /\ hs[d] \in Relaying /\ hs'[d] \in Serving)
    BY <1>6, RelayEffect
  <2> QED BY Zenon, <2>2, <2>3
<1>7. ASSUME NEW c \in Conn, Leave(c) PROVE PoolAndRelaysAgree'
  BY Zenon, <1>7 DEF Leave, RemoveTunnels, BeingClosed
<1>8. ASSUME NEW c \in Conn, TunnelTimeouts(c) \/ TunnelData(c) PROVE PoolAndRelaysAgree'
  <2>1. UNCHANGED <<hs, pool, closed, todo>>
    BY Zenon, <1>8 DEF TunnelTimeouts, TunnelData, closers
  <2> QED BY Zenon, <2>1 DEF BeingClosed
<1>9. ASSUME NEW a \in Actor, NEW ts \in SUBSET pool, todo[a] = {}, CloseLater(a, ts),
             pool' = pool \ ts, UNCHANGED <<hs, closed>>
      PROVE  PoolAndRelaysAgree'
  <2>1. \A d \in Conn : BeingClosed(d) => BeingClosed(d)'
    BY Zenon, <1>9, StillClosed DEF CloseLater
  <2>2. \A d \in ts : BeingClosed(d)'
    BY Zenon, <1>9 DEF CloseLater, BeingClosed
  <2> QED BY Zenon, <1>9, <2>1, <2>2
<1>10. ASSUME NEW c \in Conn, TunnelClose(c) PROVE PoolAndRelaysAgree'
  <2>1. /\ todo["recv"] = {} /\ CloseLater("recv", pool \cap {c})
        /\ pool' = pool \ {c} /\ UNCHANGED <<hs, closed>>
    BY Zenon, <1>10 DEF TunnelClose, NextMessage, Free, RemoveTunnels
  <2>2. pool' = pool \ (pool \cap {c}) /\ pool \cap {c} \in SUBSET pool
    BY Zenon, <2>1
  <2> QED BY Zenon, <1>9, <2>1, <2>2
<1>11. CASE ReaperTick
  <2>1. /\ todo["reaper"] = {} /\ CloseLater("reaper", idle)
        /\ pool' = pool \ idle /\ UNCHANGED <<hs, closed>>
    BY Zenon, <1>11 DEF ReaperTick, Free, RemoveTunnels
  <2> QED BY Zenon, <1>9, <2>1
<1>12. CASE StopCloses
  BY Zenon, <1>9, <1>12 DEF StopCloses, RemoveTunnels, ListsFree
<1>13. CASE StartGateway \/ StartRegisters \/ RunCancelled \/ ClientStops \/ AcceptFails
            \/ ReaperEnds \/ StopBegins \/ StopReturns \/ Finished \/ UNCHANGED tunnelVars
  <2>1. UNCHANGED <<pool, hs, todo, closed>>
    BY Zenon, <1>13, OwnLife
  <2> QED BY Zenon, <2>1 DEF BeingClosed
<1> QED
  BY Zenon, <1>1, <1>2, <1>3, <1>4, <1>5, <1>6, <1>7, <1>8, <1>10, <1>11, <1>12, <1>13
     DEF TunnelNext, Handler, Close

-----------------------------------------------------------------------------
(* Stopping *)

\* A step keeps Deaf and StopIsClean.  Stop returns without an error only when no
\* handler runs; a handler that has ended has shut its connection, a tunnel in
\* the pool would have a handler, and nothing is accepted any more.
LEMMA StopStep ==
    ASSUME TunnelInv, [TunnelNext]_tunnelVars
    PROVE  Deaf' /\ StopIsClean'
<1>0. /\ TunnelTypeOK /\ Fresh /\ PoolAndRelaysAgree /\ Deaf /\ StopIsClean
      /\ hs \in [Conn -> {"none", "auth", "done"} \cup Serving]
  BY Zenon DEF TunnelInv, TunnelTypeOK
<1>1. ASSUME NEW a \in Actor, Close(a) PROVE Deaf' /\ StopIsClean'
  BY Zenon, <1>0, <1>1, CloseFrame DEF Deaf, StopIsClean
<1>2. ASSUME NEW c \in Conn, Accept(c) PROVE Deaf' /\ StopIsClean'
  <2>1. listening /\ gphase' = gphase /\ listening' = listening
    BY Zenon, <1>2, HandlerFrame DEF Accept
  <2> QED BY Zenon, <1>0, <2>1 DEF Deaf, StopIsClean
<1>3. ASSUME NEW c \in Conn, AuthFails(c) \/ AddTunnel(c) \/ Handler(c) PROVE Deaf' /\ StopIsClean'
  <2>1. hs[c] \in {"auth"} \cup Serving
    BY Zenon, <1>3, HandlerRuns
  <2>2. gphase # "stopped"
    BY Zenon, <1>0, <2>1 DEF StopIsClean, Serving
  <2>3. UNCHANGED <<gphase, listening>>
    BY Zenon, <1>3, HandlerFrame
  <2> QED BY Zenon, <1>0, <2>2, <2>3 DEF Deaf, StopIsClean
<1>4. ASSUME NEW c \in Conn, TunnelTimeouts(c) PROVE Deaf' /\ StopIsClean'
  <2>1. UNCHANGED <<gphase, listening, loops>> /\ UNCHANGED <<pool, hs, shut>>
    BY Zenon, <1>4, HandlerFrame DEF TunnelTimeouts
  <2> QED BY Zenon, <1>0, <2>1 DEF Deaf, StopIsClean
<1>5. ASSUME NEW c \in Conn, TunnelData(c) \/ TunnelClose(c) PROVE Deaf' /\ StopIsClean'
  BY Zenon, <1>0, <1>5, MessageFrame DEF Deaf, StopIsClean
<1>6. CASE StopReturns
  <2>0. UNCHANGED <<listening, loops, pool, hs, shut>>
    BY Zenon, <1>6 DEF StopReturns, tunnels
  <2>1. CASE gphase' = "stopped"
    <3>1. gphase = "closing" /\ loops = {} /\ \A c \in Conn : ~Running(c)
      BY Zenon, <1>6, <2>1 DEF StopReturns
    <3>2. \A c \in Conn : hs[c] = "none" \/ (hs[c] = "done" /\ c \in shut)
      BY Zenon, <1>0, <3>1 DEF Running, Fresh
    <3>3. pool = {}
      BY Zenon, <1>0, <3>2, Shapes DEF PoolAndRelaysAgree, Serving
    <3> QED BY Zenon, <1>0, <2>0, <2>1, <3>1, <3>2, <3>3 DEF Deaf, StopIsClean
  <2>2. CASE gphase' = "timeout"
    <3>1. gphase = "closing"
      BY Zenon, <1>6 DEF StopReturns
    <3> QED BY Zenon, <1>0, <2>0, <2>2, <3>1 DEF Deaf, StopIsClean
  <2> QED BY Zenon, <1>6, <2>1, <2>2 DEF StopReturns
<1>7. CASE ReaperTick \/ StopCloses
  <2>1. gphase = "stopped" => pool' = {}
    BY Zenon, <1>0, <1>7 DEF ReaperTick, StopCloses, RemoveTunnels, StopIsClean
  <2> QED BY <1>0, <1>7, <2>1, SweepFrame DEF Deaf, StopIsClean
<1>8. CASE StartGateway \/ StartRegisters \/ RunCancelled \/ ClientStops \/ AcceptFails
           \/ ReaperEnds \/ StopBegins
  <2>1. gphase' # "stopped" \/ UNCHANGED <<gphase, listening, loops>> \/ AcceptFails \/ ReaperEnds
    BY Zenon, <1>8 DEF StartGateway, StartRegisters, RunCancelled, ClientStops, StopBegins, gateway
  <2>2. CASE AcceptFails \/ ReaperEnds
    BY <1>0, <1>8, <2>2, OwnLife DEF AcceptFails, ReaperEnds, Deaf, StopIsClean
  <2>3. CASE UNCHANGED <<gphase, listening, loops>>
    BY Zenon, <1>0, <1>8, <2>3, OwnLife DEF Deaf, StopIsClean
  <2>4. CASE gphase' # "stopped" /\ ~(AcceptFails \/ ReaperEnds)
    <3>1. Deaf'
      BY Zenon, <1>0, <1>8, <2>4 DEF StartGateway, StartRegisters, RunCancelled, ClientStops, StopBegins, gateway, Deaf
    <3> QED BY Zenon, <2>4, <3>1 DEF StopIsClean
  <2> QED BY Zenon, <2>1, <2>2, <2>3, <2>4
<1>9. CASE Finished \/ UNCHANGED tunnelVars
  <2>1. UNCHANGED <<gphase, listening, loops, pool, hs, shut>>
    BY Zenon, <1>9 DEF Finished, tunnelVars, tunnels, gateway
  <2> QED BY Zenon, <1>0, <2>1 DEF Deaf, StopIsClean
<1> QED BY Zenon, <1>1, <1>2, <1>3, <1>4, <1>5, <1>6, <1>7, <1>8, <1>9 DEF TunnelNext

-----------------------------------------------------------------------------

\* The gateway starts with the invariant.
LEMMA TunnelStarts == TunnelInit => TunnelInv
<1> SUFFICES ASSUME TunnelInit PROVE TunnelInv
  BY Zenon
<1>1. IsFiniteSet(pool) /\ Cardinality(pool) = 0
  BY Zenon, FS_EmptySet DEF TunnelInit
<1>2. gctxDone \in BOOLEAN /\ listening \in BOOLEAN /\ up \in BOOLEAN /\ final \in BOOLEAN
  BY Zenon DEF TunnelInit
<1>3. TunnelTypeOK
  BY <1>1, <1>2, TunnelAssumption DEF TunnelInit, TunnelTypeOK, Actor
<1>4. Fresh /\ ListsFree /\ Deaf /\ PoolAndRelaysAgree /\ StopIsClean
  BY Zenon, TunnelAssumption DEF TunnelInit, Fresh, ListsFree, Deaf, PoolAndRelaysAgree, StopIsClean, Actor, Relaying
<1>5. OneCloser /\ ClosedOnce
  BY DEF TunnelInit, OneCloser, ClosedOnce
<1> QED BY Zenon, <1>1, <1>3, <1>4, <1>5 DEF TunnelInv

\* The invariant holds in every state.
LEMMA TunnelInvariant == TunnelSpec => []TunnelInv
<1>1. TunnelInv /\ [TunnelNext]_tunnelVars => TunnelInv'
  <2> SUFFICES ASSUME TunnelInv, [TunnelNext]_tunnelVars PROVE TunnelInv'
    BY Zenon
  <2>1. TunnelTypeOK' /\ IsFiniteSet(pool)'
    BY Zenon, TunnelTypeStep DEF TunnelInv
  <2> QED BY Zenon, <2>1, ListsStep, CloserStep, AgreeStep, StopStep DEF TunnelInv
<1> QED BY <1>1, TunnelStarts, PTL DEF TunnelSpec

\* Every variable keeps its type, and the pool never exceeds cfg.MaxTunnels,
\* whatever connects and in whatever order tunnels are closed.
THEOREM TunnelTypeCorrect == TunnelSpec => []TunnelTypeOK
<1>1. TunnelInv => TunnelTypeOK
  BY Zenon DEF TunnelInv
<1> QED BY <1>1, TunnelInvariant, PTL

\* For any number of connections, a relay whose tunnel the reaper, Stop or the
\* platform took out of the pool is closed or about to be, and a tunnel in the
\* pool has a handler that will remove it.
THEOREM AgreeCorrect == TunnelSpec => []PoolAndRelaysAgree
<1>1. TunnelInv => PoolAndRelaysAgree
  BY Zenon DEF TunnelInv
<1> QED BY <1>1, TunnelInvariant, PTL

\* However many actors close a tunnel, the platform is told at most once, and no
\* connection is shut under a relay whose tunnel is not closed.
THEOREM ClosedOnceCorrect == TunnelSpec => []ClosedOnce
<1>1. TunnelInv => ClosedOnce
  BY Zenon DEF TunnelInv
<1> QED BY <1>1, TunnelInvariant, PTL

\* A Stop that returns without an error has left no goroutine, no tunnel and no
\* open connection behind.
THEOREM StopCorrect == TunnelSpec => []StopIsClean
<1>1. TunnelInv => StopIsClean
  BY Zenon DEF TunnelInv
<1> QED BY <1>1, TunnelInvariant, PTL

=============================================================================
