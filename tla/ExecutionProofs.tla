-------------------------- MODULE ExecutionProofs ---------------------------
(***************************************************************************)
(* Proofs about what the agent executes for the platform, for every value  *)
(* of the constants: the output of a command, the sandbox, and the health  *)
(* checks.                                                                 *)
(***************************************************************************)
EXTENDS OutputStreamer, SandboxRun, HealthCheck, SequenceTheorems,
        FiniteSetTheorems, TLAPS

\* The prover of every leaf that names none.
USE SMTT(30)

-----------------------------------------------------------------------------
(* The output of a command *)

\* The first n bytes a command writes.
Bytes(n) == [j \in 1 .. n |-> j]

Lesser(a, b) == IF a < b THEN a ELSE b

\* The two buffers, and that nothing is written once the command is over.
StreamInv ==
    /\ produced \in Nat /\ sbuf \in Seq(Nat) /\ sent \in Seq(Nat)
    /\ sent \o sbuf = Bytes(produced)
    /\ streamStopped => exited /\ sbuf = <<>>
    /\ kept = Bytes(Lesser(produced, maxOutput))
    /\ cut <=> produced > maxOutput

\* The bytes of a write follow those written before it.
LEMMA ChunkFollows ==
    ASSUME produced \in Nat, NEW n \in Nat
    PROVE  Chunk(n) \in Seq(Nat) /\ Len(Chunk(n)) = n /\ Bytes(produced) \in Seq(Nat)
           /\ Bytes(produced) \o Chunk(n) = Bytes(produced + n)
<1>1. Chunk(n) \in Seq(Nat) /\ Len(Chunk(n)) = n
  BY DEF Chunk
<1>2. Bytes(produced) \in Seq(Nat) /\ Len(Bytes(produced)) = produced
  BY DEF Bytes
<1>3. Bytes(produced + n) \in Seq(Nat) /\ Len(Bytes(produced + n)) = produced + n
  BY DEF Bytes
<1>4. \A j \in 1 .. produced + n : (Bytes(produced) \o Chunk(n))[j] = Bytes(produced + n)[j]
  BY <1>1, <1>2 DEF Bytes, Chunk
<1>5. /\ Bytes(produced) \o Chunk(n) \in Seq(Nat)
      /\ Len(Bytes(produced) \o Chunk(n)) = produced + n
  BY Zenon, <1>1, <1>2, ConcatProperties
<1>6. Bytes(produced) \o Chunk(n) = Bytes(produced + n)
  BY Zenon, <1>3, <1>4, <1>5, SeqEqual
<1> QED BY Zenon, <1>1, <1>2, <1>6

\* limitedBuffer keeps the first maxOutput bytes and knows whether there were more.
LEMMA LimitedKeeps ==
    ASSUME StreamInv, NEW n \in Nat, limitedWrite(Chunk(n))
    PROVE  /\ kept' = Bytes(Lesser(produced + n, maxOutput))
           /\ n > 0 => (cut' <=> produced + n > maxOutput)
<1> USE StreamAssumption
<1> DEFINE p == Chunk(n)
           room == maxOutput - Len(kept)
           take == IF Len(p) > room THEN room ELSE Len(p)
<1>1. produced \in Nat /\ maxOutput \in Nat /\ Len(p) = n /\ p \in Seq(Nat)
  BY Zenon, ChunkFollows DEF StreamInv
<1>2. kept \in Seq(Nat) /\ Len(kept) = Lesser(produced, maxOutput)
  BY <1>1 DEF StreamInv, Bytes, Lesser
<1>3. CASE produced >= maxOutput
  <2>1. Len(kept) = maxOutput /\ Lesser(produced + n, maxOutput) = Lesser(produced, maxOutput)
    BY <1>1, <1>2, <1>3 DEF Lesser
  <2>2. cut' = TRUE /\ kept' = kept
    BY <1>1, <2>1 DEF limitedWrite
  <2> QED BY <1>1, <1>3, <2>1, <2>2 DEF StreamInv
<1>4. CASE produced < maxOutput
  <2>1. room > 0 /\ Len(kept) = produced /\ kept = Bytes(produced) /\ ~cut
    BY <1>1, <1>2, <1>4 DEF Lesser, StreamInv
  <2>2. kept' = kept \o SubSeq(p, 1, take) /\ cut' = (cut \/ Len(p) > room)
    BY Zenon, <1>1, <2>1 DEF limitedWrite
  <2>3. take \in 0 .. n /\ produced + take = Lesser(produced + n, maxOutput)
    BY <1>1, <2>1 DEF Lesser
  <2>4. SubSeq(p, 1, take) = Chunk(take)
    BY <1>1, <2>3 DEF Chunk
  <2>5. kept' = Bytes(produced + take)
    <3>1. take \in Nat
      BY <2>3
    <3>2. Bytes(produced) \o Chunk(take) = Bytes(produced + take)
      BY Zenon, <1>1, <3>1, ChunkFollows
    <3> QED BY Zenon, <2>1, <2>2, <2>4, <3>2
  <2>6. cut' <=> n > room
    BY Zenon, <1>1, <2>1, <2>2
  <2> HIDE DEF take
  <2> QED BY <1>1, <1>4, <2>1, <2>3, <2>5, <2>6
<1> QED BY <1>1, <1>3, <1>4

\* Both buffers are empty before the first byte.
LEMMA StreamStarts == StreamInit => StreamInv
BY StreamAssumption DEF StreamInit, StreamInv, Bytes, Lesser

\* A flush moves bytes and neither loses nor doubles one.
LEMMA FlushKeepsOrder ==
    ASSUME StreamInv, Flush
    PROVE  sbuf' \in Seq(Nat) /\ sent' \in Seq(Nat) /\ sent' \o sbuf' = sent \o sbuf /\ sbuf' = <<>>
<1>1. sent \o sbuf \in Seq(Nat)
  BY Zenon, ConcatProperties DEF StreamInv
<1>2. (sent \o sbuf) \o <<>> = sent \o sbuf
  BY Zenon, <1>1, ConcatEmptySeq
<1> QED BY <1>1, <1>2 DEF Flush, StreamInv

\* Every write, every flush by whomever and Stop keep it.
LEMMA StreamStepKeeps == StreamInv /\ [StreamNext]_streamVars => StreamInv'
<1> SUFFICES ASSUME StreamInv, [StreamNext]_streamVars PROVE StreamInv'
  BY Zenon
<1>1. ASSUME NEW n \in 1 .. MaxChunk, Write(n) PROVE StreamInv'
  <2>1. n \in Nat /\ n > 0 /\ produced \in Nat
    BY StreamAssumption DEF StreamInv
  <2>2. sent \o (sbuf \o Chunk(n)) = Bytes(produced + n)
    <3>1. Chunk(n) \in Seq(Nat) /\ Bytes(produced) \o Chunk(n) = Bytes(produced + n)
      BY Zenon, <2>1, ChunkFollows
    <3>2. sent \o (sbuf \o Chunk(n)) = (sent \o sbuf) \o Chunk(n)
      <4>1. sent \in Seq(Nat) /\ sbuf \in Seq(Nat)
        BY Zenon DEF StreamInv
      <4>2. \A r, t, u \in Seq(Nat) : (r \o t) \o u = r \o (t \o u)
        OBVIOUS
      <4> QED BY Zenon, <3>1, <4>1, <4>2
    <3> QED BY Zenon, <3>1, <3>2 DEF StreamInv
  <2>3. sbuf \o Chunk(n) \in Seq(Nat)
    BY Zenon, <2>1, ChunkFollows, ConcatProperties DEF StreamInv
  <2>4. limitedWrite(Chunk(n))
    BY Zenon, <1>1 DEF Write
  <2> QED BY <1>1, <2>1, <2>2, <2>3, <2>4, LimitedKeeps DEF Write, StreamInv
<1>2. CASE WriteFlushes
  BY Zenon, <1>2, FlushKeepsOrder DEF WriteFlushes, StreamInv
<1>3. CASE Exits
  BY Zenon, <1>3 DEF Exits, StreamInv
<1>4. CASE Stop
  <2>1. CASE stopCh /\ Flush /\ streamStopped' = TRUE
    BY Zenon, <1>4, <2>1, FlushKeepsOrder DEF Stop, StreamInv
  <2>2. CASE UNCHANGED <<sbuf, sent, streamStopped>>
    BY Zenon, <1>4, <2>2 DEF Stop, StreamInv
  <2> QED BY Zenon, <1>4, <2>1, <2>2 DEF Stop
<1>5. CASE Tick
  BY Zenon, <1>5, FlushKeepsOrder DEF Tick, StreamInv
<1>6. CASE TickerStops
  BY Zenon, <1>6 DEF TickerStops, StreamInv
<1>7. CASE UNCHANGED streamVars
  BY Zenon, <1>7 DEF streamVars, StreamInv
<1> QED BY Zenon, <1>1, <1>2, <1>3, <1>4, <1>5, <1>6, <1>7 DEF StreamNext

\* For any sizes of the writes and of the limits: what the sender was given and
\* what is buffered are the bytes written, in their order, all of them sent when
\* Stop has returned; and the plain executor keeps a prefix and says truncated
\* exactly when there was more.
THEOREM OutputCorrect == StreamSpec => []OutputInOrder
<1>1. StreamInv => OutputInOrder
  BY Zenon DEF StreamInv, OutputInOrder, StreamInOrder, KeptIsPrefix, Bytes, Lesser
<1> QED BY <1>1, StreamStarts, StreamStepKeeps, PTL DEF StreamSpec

-----------------------------------------------------------------------------
(* The sandbox *)

Undo == {"script", "sem", "cgroup", "net"}

\* The call that undoes d is among those task t has deferred.
Deferred(t, d) == \E i \in 1 .. Len(defers[t]) : defers[t][i] = d

\* What a call may return, and the place of it before.
Outcomes == {NoResult, Err, Ran(0, FALSE), Ran(1, FALSE), Ran(-1, FALSE), Ran(-1, TRUE)}

\* The configuration NewExecutor makes, whatever it was given.
ExecOK ==
    exec.timeout \in Nat \ {0} /\ exec.max \in Nat \ {0} /\ exec.mem \in Nat \ {0}
    /\ exec.tasks \in Nat \ {0}

SandboxTypeOK ==
    /\ ExecOK
    /\ xreq \in [Task -> SandboxRequest]
    /\ xpc \in [Task -> {"new", "script", "acquire", "cgroup", "net", "start", "run",
                         "unwind", "over"}]
    /\ defers \in [Task -> Seq(Undo)]
    /\ sem \subseteq Task /\ IsFiniteSet(sem)
    /\ ctxErr \in [Task -> {"", "deadline", "canceled"}]
    /\ proc \in [Task -> {"none", "running", "held", "0", "1", "killed", "nostart"}]
    /\ result \in [Task -> Outcomes]

\* What exists because of a task is undone by a call it has deferred, and a task
\* that is over has none left.
SetUpIsDeferred ==
    /\ \A t \in Task :
          /\ t \in sem => Deferred(t, "sem")
          /\ t \in scripts => Deferred(t, "script")
          /\ t \in cgroups => Deferred(t, "cgroup")
          /\ xpc[t] \in {"new", "over"} => defers[t] = <<>>
    /\ \A v \in links : \E u \in Task : veth[u] = v /\ Deferred(u, "net")

\* nsjail runs for a task only while the task waits for it, under a slot.
JailHoldsSlot ==
    /\ \A t \in Task :
          /\ xpc[t] \in {"cgroup", "net", "start", "run"} => t \in sem
          /\ xpc[t] \notin {"run", "unwind"} => proc[t] = "none"
          /\ xpc[t] = "unwind" => proc[t] \notin {"running", "held"}
    /\ Cardinality(sem) <= exec.tasks

\* A result is there from the return to the end of the clean-up.
ResultsInTime ==
    \A t \in Task : result[t].kind # "none" <=> xpc[t] = "unwind"

SandboxInv ==
    /\ SandboxTypeOK /\ SetUpIsDeferred /\ JailHoldsSlot /\ ResultsInTime /\ SandboxHonest
    /\ \A t \in Task : result[t].kind = "none" => ~result[t].timedOut

\* Whatever is configured, the limits of the executor are positive.
LEMMA ExecutorLimits ==
    ASSUME NEW c \in SandboxConfig, exec = NewExecutor(c) PROVE ExecOK
BY SandboxAssumption DEF ExecOK, NewExecutor, Default

\* No task has begun.
LEMMA SandboxStarts == SandboxInit => SandboxInv
<1> SUFFICES ASSUME SandboxInit PROVE SandboxInv
  BY Zenon
<1>1. ExecOK
  BY Zenon, ExecutorLimits DEF SandboxInit
<1>2. NoRequest \in SandboxRequest
  BY Zenon, SandboxAssumption DEF NoRequest
<1>3. IsFiniteSet({}) /\ Cardinality({}) = 0
  BY Zenon, FS_EmptySet
<1>4. NoResult \in Outcomes
  BY Zenon DEF Outcomes
<1>5. SandboxTypeOK
  <2>1. sem = {} /\ result = [t \in Task |-> NoResult] /\ xreq = [t \in Task |-> NoRequest]
    BY Zenon DEF SandboxInit
  <2>2. sem \subseteq Task /\ IsFiniteSet(sem)
    BY Zenon, <1>3, <2>1
  <2>3. xreq \in [Task -> SandboxRequest]
    BY Zenon, <1>2, <2>1
  <2>4. result \in [Task -> Outcomes]
    BY Zenon, <1>4, <2>1
  <2>5. /\ xpc \in [Task -> {"new", "script", "acquire", "cgroup", "net", "start", "run",
                             "unwind", "over"}]
        /\ ctxErr \in [Task -> {"", "deadline", "canceled"}]
        /\ proc \in [Task -> {"none", "running", "held", "0", "1", "killed", "nostart"}]
    BY Zenon DEF SandboxInit
  <2>6. defers \in [Task -> Seq(Undo)]
    <3>1. <<>> \in Seq(Undo)
      OBVIOUS
    <3> QED BY Zenon, <3>1 DEF SandboxInit
  <2> QED BY Zenon, <1>1, <2>2, <2>3, <2>4, <2>5, <2>6 DEF SandboxTypeOK
<1>6. SetUpIsDeferred
  BY Zenon DEF SandboxInit, SetUpIsDeferred, Deferred
<1>7. JailHoldsSlot
  <2>1. Cardinality(sem) <= exec.tasks
    <3>1. sem = {}
      BY Zenon DEF SandboxInit
    <3> QED BY <1>1, <1>3, <3>1 DEF ExecOK
  <2> QED BY Zenon, <2>1 DEF SandboxInit, JailHoldsSlot
<1>8. \A t \in Task : result[t] = NoResult /\ xpc[t] = "new"
  BY Zenon DEF SandboxInit
<1>9. ResultsInTime /\ SandboxHonest /\ \A t \in Task : result[t].kind = "none" => ~result[t].timedOut
  BY <1>8 DEF ResultsInTime, SandboxHonest, NoResult
<1> QED BY Zenon, <1>5, <1>6, <1>7, <1>9 DEF SandboxInv

\* Registering a call keeps those registered before.
LEMMA DeferAdds ==
    ASSUME SandboxTypeOK, NEW t \in Task, NEW d \in Undo, Defer(t, d)
    PROVE  /\ defers' \in [Task -> Seq(Undo)]
           /\ Deferred(t, d)'
           /\ \A u \in Task, e \in Undo : Deferred(u, e) => Deferred(u, e)'
           /\ \A u \in Task \ {t} : defers'[u] = defers[u]
<1>1. /\ defers \in [Task -> Seq(Undo)] /\ defers[t] \in Seq(Undo)
      /\ defers' = [defers EXCEPT ![t] = Append(defers[t], d)]
  BY Zenon DEF SandboxTypeOK, Defer
<1>2. /\ Append(defers[t], d) \in Seq(Undo)
      /\ Len(Append(defers[t], d)) = Len(defers[t]) + 1
      /\ \A i \in 1 .. Len(defers[t]) : Append(defers[t], d)[i] = defers[t][i]
      /\ Append(defers[t], d)[Len(defers[t]) + 1] = d
  BY <1>1, AppendProperties
<1>3. defers' \in [Task -> Seq(Undo)] /\ \A u \in Task \ {t} : defers'[u] = defers[u]
  BY Zenon, <1>1, <1>2
<1>4. defers'[t] = Append(defers[t], d) /\ Len(defers[t]) \in Nat
  BY <1>1
<1>5. Deferred(t, d)'
  BY <1>2, <1>4 DEF Deferred
<1>6. ASSUME NEW u \in Task, NEW e \in Undo, Deferred(u, e) PROVE Deferred(u, e)'
  <2>1. CASE u = t
    BY <1>2, <1>4, <1>6, <2>1 DEF Deferred
  <2>2. CASE u # t
    BY Zenon, <1>3, <1>6, <2>2 DEF Deferred
  <2> QED BY Zenon, <2>1, <2>2
<1> QED BY Zenon, <1>3, <1>5, <1>6

\* Dropping the last element keeps the others where they are.
LEMMA FrontKeeps ==
    ASSUME NEW S, NEW s \in Seq(S), s # <<>>
    PROVE  /\ Len(s) \in Nat \ {0}
           /\ SubSeq(s, 1, Len(s) - 1) \in Seq(S) /\ Len(SubSeq(s, 1, Len(s) - 1)) = Len(s) - 1
           /\ \A i \in 1 .. Len(s) - 1 : SubSeq(s, 1, Len(s) - 1)[i] = s[i]
<1> DEFINE n == Len(s) - 1
<1>1. Len(s) \in Nat \ {0}
  BY Zenon, EmptySeq
<1>2. n \in Nat /\ \A i \in 1 .. n : s[i] \in S
  BY <1>1
<1>3. SubSeq(s, 1, n) \in Seq(S)
  BY <1>1
<1>4. \A i \in 1 .. n : SubSeq(s, 1, n)[i] = s[i]
  BY <1>1
<1>5. Len(SubSeq(s, 1, n)) = n
  <2> HIDE DEF n
  <2>1. Len(SubSeq(s, 1, n)) = IF 1 <= n THEN n - 1 + 1 ELSE 0
    BY <1>2, SubSeqProperties
  <2> QED BY <1>2, <2>1
<1> QED BY Zenon, <1>1, <1>3, <1>4, <1>5

\* The deferred calls run last first: the one that runs is gone, the others stay.
LEMMA UnwindTakesLast ==
    ASSUME SandboxTypeOK, NEW t \in Task, defers[t] # <<>>,
           defers' = [defers EXCEPT ![t] = SubSeq(@, 1, Len(@) - 1)]
    PROVE  /\ defers' \in [Task -> Seq(Undo)]
           /\ defers[t][Len(defers[t])] \in Undo
           /\ \A u \in Task \ {t} : defers'[u] = defers[u]
           /\ \A e \in Undo : Deferred(t, e) /\ e # defers[t][Len(defers[t])] => Deferred(t, e)'
<1> DEFINE f == SubSeq(defers[t], 1, Len(defers[t]) - 1)
<1>1. /\ defers \in [Task -> Seq(Undo)] /\ defers[t] \in Seq(Undo)
      /\ defers' = [defers EXCEPT ![t] = f]
  BY Zenon DEF SandboxTypeOK
<1>2. /\ Len(defers[t]) \in Nat \ {0}
      /\ f \in Seq(Undo) /\ Len(f) = Len(defers[t]) - 1
      /\ \A i \in 1 .. Len(defers[t]) - 1 : f[i] = defers[t][i]
  BY Zenon, <1>1, FrontKeeps
<1> HIDE DEF f
<1>3. defers' \in [Task -> Seq(Undo)] /\ \A u \in Task \ {t} : defers'[u] = defers[u]
  BY Zenon, <1>1, <1>2
<1>4. defers[t][Len(defers[t])] \in Undo
  BY <1>1, <1>2
<1>5. ASSUME NEW e \in Undo, Deferred(t, e), e # defers[t][Len(defers[t])] PROVE Deferred(t, e)'
  <2>1. PICK i \in 1 .. Len(defers[t]) : defers[t][i] = e
    BY Zenon, <1>5 DEF Deferred
  <2>2. i \in 1 .. Len(defers[t]) - 1
    BY <1>2, <1>5, <2>1
  <2>3. defers'[t] = f
    BY Zenon, <1>1
  <2> QED BY Zenon, <1>2, <2>1, <2>2, <2>3 DEF Deferred
<1> QED BY Zenon, <1>3, <1>4, <1>5

\* A step of the sandbox is a step of one task.
SandboxStep(t) ==
    \/ \E r \in SandboxRequest : Submit(t, r)
    \/ TaskStep(t) \/ ProcExits(t) \/ DescendantEnds(t) \/ CancelTask(t)

\* Every step keeps the types.
LEMMA SandboxTyped ==
    ASSUME SandboxInv, NEW t \in Task, SandboxStep(t) PROVE SandboxTypeOK'
<1>1. SandboxTypeOK
  BY Zenon DEF SandboxInv
<1>2. exec' = exec /\ ExecOK'
  BY Zenon, <1>1 DEF SandboxTypeOK, ExecOK, SandboxStep, TaskStep, Submit, WriteScript, AcquireSlot,
     GiveUp, SetupCgroup, SetupNetwork, Start, ProcKilled, RunReturns, Unwind,
     DeadlinePassesFor, ProcExits, DescendantEnds, CancelTask
<1>3. {NoResult, Err, Ran(0, FALSE), Ran(1, FALSE), Ran(-1, FALSE), Ran(-1, TRUE)} \subseteq Outcomes
  BY Zenon DEF Outcomes
<1>4. NoRequest \in SandboxRequest
  BY Zenon, SandboxAssumption DEF NoRequest
<1>5. xreq' \in [Task -> SandboxRequest]
  <2>1. xreq' = xreq \/ \E r \in SandboxRequest : xreq' = [xreq EXCEPT ![t] = r]
    BY Zenon, <1>4 DEF SandboxStep, TaskStep, Submit, WriteScript, AcquireSlot,
     GiveUp, SetupCgroup, SetupNetwork, Start, ProcKilled, RunReturns, Unwind,
     DeadlinePassesFor, ProcExits, DescendantEnds, CancelTask
  <2>2. xreq \in [Task -> SandboxRequest]
    BY Zenon, <1>1 DEF SandboxTypeOK
  <2> QED BY Zenon, <2>1, <2>2
<1>6. xpc' \in [Task -> {"new", "script", "acquire", "cgroup", "net", "start", "run",
                         "unwind", "over"}]
  BY Zenon, <1>1 DEF SandboxTypeOK, SandboxStep, TaskStep, Submit, WriteScript, AcquireSlot,
     GiveUp, SetupCgroup, SetupNetwork, Start, ProcKilled, RunReturns, Unwind,
     DeadlinePassesFor, ProcExits, DescendantEnds, CancelTask, XAt, Unwinds
<1>7. ctxErr' \in [Task -> {"", "deadline", "canceled"}]
  BY Zenon, <1>1 DEF SandboxTypeOK, SandboxStep, TaskStep, Submit, WriteScript, AcquireSlot,
     GiveUp, SetupCgroup, SetupNetwork, Start, ProcKilled, RunReturns, Unwind,
     DeadlinePassesFor, ProcExits, DescendantEnds, CancelTask
<1>8. proc' \in [Task -> {"none", "running", "held", "0", "1", "killed", "nostart"}]
  BY Zenon, <1>1 DEF SandboxTypeOK, SandboxStep, TaskStep, Submit, WriteScript, AcquireSlot,
     GiveUp, SetupCgroup, SetupNetwork, Start, ProcKilled, RunReturns, Unwind,
     DeadlinePassesFor, ProcExits, DescendantEnds, CancelTask
<1>9. result' \in [Task -> Outcomes]
  BY Zenon, <1>1, <1>3 DEF SandboxTypeOK, SandboxStep, TaskStep, Submit, WriteScript, AcquireSlot,
     GiveUp, SetupCgroup, SetupNetwork, Start, ProcKilled, RunReturns, Unwind,
     DeadlinePassesFor, ProcExits, DescendantEnds, CancelTask, Unwinds, Returns
<1>10. sem' \subseteq Task /\ IsFiniteSet(sem')
  <2>1. sem' = sem \/ sem' = sem \cup {t} \/ sem' = sem \ {t}
    BY Zenon DEF SandboxStep, TaskStep, Submit, WriteScript, AcquireSlot,
     GiveUp, SetupCgroup, SetupNetwork, Start, ProcKilled, RunReturns, Unwind,
     DeadlinePassesFor, ProcExits, DescendantEnds, CancelTask
  <2>2. sem \subseteq Task /\ IsFiniteSet(sem)
    BY Zenon, <1>1 DEF SandboxTypeOK
  <2>3. IsFiniteSet(sem \cup {t}) /\ IsFiniteSet(sem \ {t})
    BY Zenon, <2>2, FS_AddElement, FS_RemoveElement
  <2> QED BY Zenon, <2>1, <2>2, <2>3
<1>11. defers' \in [Task -> Seq(Undo)]
  <2>1. \/ UNCHANGED defers
        \/ \E d \in Undo : Defer(t, d)
        \/ defers[t] # <<>> /\ defers' = [defers EXCEPT ![t] = SubSeq(@, 1, Len(@) - 1)]
    BY Zenon DEF Undo, SandboxStep, TaskStep, Submit, WriteScript, AcquireSlot,
     GiveUp, SetupCgroup, SetupNetwork, Start, ProcKilled, RunReturns, Unwind,
     DeadlinePassesFor, ProcExits, DescendantEnds, CancelTask
  <2>2. CASE UNCHANGED defers
    BY Zenon, <1>1, <2>2 DEF SandboxTypeOK
  <2>3. CASE \E d \in Undo : Defer(t, d)
    BY Zenon, <1>1, <2>3, DeferAdds
  <2>4. CASE defers[t] # <<>> /\ defers' = [defers EXCEPT ![t] = SubSeq(@, 1, Len(@) - 1)]
    BY Zenon, <1>1, <2>4, UnwindTakesLast
  <2> QED BY Zenon, <2>1, <2>2, <2>3, <2>4
<1> QED BY Zenon, <1>2, <1>5, <1>6, <1>7, <1>8, <1>9, <1>10, <1>11 DEF SandboxTypeOK

\* While no deferred call runs, it is enough that what a step sets up is
\* deferred.
LEMMA SetUpGrows ==
    ASSUME SetUpIsDeferred,
           \A u \in Task, e \in Undo : Deferred(u, e) => Deferred(u, e)',
           \A u \in Task : u \in sem' => u \in sem \/ Deferred(u, "sem")',
           \A u \in Task : u \in scripts' => u \in scripts \/ Deferred(u, "script")',
           \A u \in Task : u \in cgroups' => u \in cgroups \/ Deferred(u, "cgroup")',
           \A v \in links' : v \in links \/ \E u \in Task : veth[u] = v /\ Deferred(u, "net")',
           \A u \in Task : xpc'[u] \in {"new", "over"} => defers'[u] = <<>>
    PROVE  SetUpIsDeferred'
<1>1. {"sem", "script", "cgroup", "net"} \subseteq Undo
  BY Zenon DEF Undo
<1>2. ASSUME NEW u \in Task
      PROVE  /\ u \in sem' => Deferred(u, "sem")'
             /\ u \in scripts' => Deferred(u, "script")'
             /\ u \in cgroups' => Deferred(u, "cgroup")'
             /\ xpc'[u] \in {"new", "over"} => defers'[u] = <<>>
  <2>1. /\ u \in sem => Deferred(u, "sem")
        /\ u \in scripts => Deferred(u, "script")
        /\ u \in cgroups => Deferred(u, "cgroup")
    BY Zenon DEF SetUpIsDeferred
  <2> QED BY Zenon, <1>1, <2>1
<1>3. ASSUME NEW v \in links' PROVE \E u \in Task : veth[u] = v /\ Deferred(u, "net")'
  <2>1. CASE v \in links
    <3>1. PICK u \in Task : veth[u] = v /\ Deferred(u, "net")
      BY Zenon, <2>1 DEF SetUpIsDeferred
    <3> QED BY Zenon, <1>1, <3>1
  <2> QED BY Zenon, <2>1, <1>3
<1> QED BY Zenon, <1>2, <1>3 DEF SetUpIsDeferred

\* What a deferred call undoes is gone before the call is forgotten.
LEMMA SetUpShrinks ==
    ASSUME SandboxInv, NEW t \in Task, Unwind(t), defers[t] # <<>>
    PROVE  SetUpIsDeferred'
<1> DEFINE d == defers[t][Len(defers[t])]
<1>1. /\ xpc[t] = "unwind" /\ xpc' = xpc /\ defers' = [defers EXCEPT ![t] = SubSeq(@, 1, Len(@) - 1)]
      /\ links' = IF d = "net" THEN links \ {veth[t]} ELSE links
      /\ cgroups' = IF d = "cgroup" THEN cgroups \ {t} ELSE cgroups
      /\ sem' = IF d = "sem" THEN sem \ {t} ELSE sem
      /\ scripts' = IF d = "script" THEN scripts \ {t} ELSE scripts
  BY Zenon DEF Unwind
<1>2. SandboxTypeOK /\ SetUpIsDeferred
  BY Zenon DEF SandboxInv
<1>3. /\ \A u \in Task \ {t} : defers'[u] = defers[u]
      /\ \A e \in Undo : Deferred(t, e) /\ e # d => Deferred(t, e)'
  BY Zenon, <1>1, <1>2, UnwindTakesLast
<1>4. ASSUME NEW u \in Task, NEW e \in Undo, Deferred(u, e), u # t \/ e # d PROVE Deferred(u, e)'
  <2>1. CASE u # t
    BY Zenon, <1>3, <1>4, <2>1 DEF Deferred
  <2>2. CASE u = t
    BY Zenon, <1>3, <1>4, <2>2
  <2> QED BY Zenon, <2>1, <2>2
<1> HIDE DEF d
<1>5. {"sem", "script", "cgroup", "net"} \subseteq Undo
  BY Zenon DEF Undo
<1>6. ASSUME NEW u \in Task
      PROVE  /\ u \in sem' => Deferred(u, "sem")'
             /\ u \in scripts' => Deferred(u, "script")'
             /\ u \in cgroups' => Deferred(u, "cgroup")'
             /\ xpc'[u] \in {"new", "over"} => defers'[u] = <<>>
  <2>1. /\ u \in sem => Deferred(u, "sem")
        /\ u \in scripts => Deferred(u, "script")
        /\ u \in cgroups => Deferred(u, "cgroup")
        /\ xpc[u] \in {"new", "over"} => defers[u] = <<>>
    BY Zenon, <1>2 DEF SetUpIsDeferred
  <2>2. u \in sem' => Deferred(u, "sem")'
    BY Zenon, <1>1, <1>4, <1>5, <2>1
  <2>3. u \in scripts' => Deferred(u, "script")'
    BY Zenon, <1>1, <1>4, <1>5, <2>1
  <2>4. u \in cgroups' => Deferred(u, "cgroup")'
    BY Zenon, <1>1, <1>4, <1>5, <2>1
  <2>5. xpc'[u] \in {"new", "over"} => defers'[u] = <<>>
    BY Zenon, <1>1, <1>3, <2>1
  <2> QED BY Zenon, <2>2, <2>3, <2>4, <2>5
<1>7. ASSUME NEW v \in links' PROVE \E u \in Task : veth[u] = v /\ Deferred(u, "net")'
  <2>1. v \in links /\ (d = "net" => v # veth[t])
    BY Zenon, <1>1, <1>7
  <2>2. PICK u \in Task : veth[u] = v /\ Deferred(u, "net")
    BY Zenon, <1>2, <2>1 DEF SetUpIsDeferred
  <2>3. u # t \/ "net" # d
    BY Zenon, <2>1, <2>2
  <2> QED BY Zenon, <1>4, <1>5, <2>2, <2>3
<1> QED BY Zenon, <1>6, <1>7 DEF SetUpIsDeferred

\* Every step keeps what is set up and what is deferred together.
LEMMA SetUpKept ==
    ASSUME SandboxInv, NEW t \in Task, SandboxStep(t) PROVE SetUpIsDeferred'
<1>1. SandboxTypeOK /\ SetUpIsDeferred /\ SandboxTypeOK'
  BY Zenon, SandboxTyped DEF SandboxInv
<1>2. xpc \in [Task -> {"new", "script", "acquire", "cgroup", "net", "start", "run",
                        "unwind", "over"}]
      /\ \A u \in Task : xpc[u] \in {"new", "over"} => defers[u] = <<>>
  BY Zenon, <1>1 DEF SandboxTypeOK, SetUpIsDeferred
<1>3. {"sem", "script", "cgroup", "net"} \subseteq Undo
  BY Zenon DEF Undo
<1>4. CASE UNCHANGED <<defers, sem, scripts, cgroups, links>>
  <2>1. \A u \in Task, e \in Undo : Deferred(u, e) => Deferred(u, e)'
    BY Zenon, <1>4 DEF Deferred
  <2>2. \A u \in Task : xpc'[u] \in {"new", "over"} =>
            xpc[u] \in {"new", "over"} \/ defers[u] = <<>>
    BY Zenon, <1>2, <1>4 DEF SandboxStep, TaskStep, Submit, WriteScript, AcquireSlot, GiveUp,
       SetupCgroup, SetupNetwork, Start, ProcKilled, RunReturns, Unwind, DeadlinePassesFor,
       ProcExits, DescendantEnds, CancelTask, XAt, Unwinds
  <2> QED BY Zenon, <1>1, <1>2, <1>4, <2>1, <2>2, SetUpGrows
<1>5. ASSUME NEW d \in Undo, Defer(t, d),
             \A u \in Task : xpc'[u] \in {"new", "over"} => xpc[u] \in {"new", "over"} /\ u # t,
             \A u \in Task : u \in sem' => u \in sem \/ (u = t /\ d = "sem"),
             \A u \in Task : u \in scripts' => u \in scripts \/ (u = t /\ d = "script"),
             \A u \in Task : u \in cgroups' => u \in cgroups \/ (u = t /\ d = "cgroup"),
             \A v \in links' : v \in links \/ (v = veth[t] /\ d = "net")
      PROVE  SetUpIsDeferred'
  <2>1. /\ Deferred(t, d)'
        /\ \A u \in Task, e \in Undo : Deferred(u, e) => Deferred(u, e)'
        /\ \A u \in Task \ {t} : defers'[u] = defers[u]
    BY Zenon, <1>1, <1>5, DeferAdds
  <2>2. \A u \in Task : xpc'[u] \in {"new", "over"} => defers'[u] = <<>>
    BY Zenon, <1>2, <1>5, <2>1
  <2>3. \A v \in links' : v \in links \/ \E u \in Task : veth[u] = v /\ Deferred(u, "net")'
    BY Zenon, <1>5, <2>1
  <2>4. /\ \A u \in Task : u \in sem' => u \in sem \/ Deferred(u, "sem")'
        /\ \A u \in Task : u \in scripts' => u \in scripts \/ Deferred(u, "script")'
        /\ \A u \in Task : u \in cgroups' => u \in cgroups \/ Deferred(u, "cgroup")'
    BY Zenon, <1>5, <2>1
  <2> QED BY Zenon, <1>1, <2>1, <2>2, <2>3, <2>4, SetUpGrows
<1>6. CASE WriteScript(t)
  <2>1. CASE UNCHANGED <<defers, scripts>>
    BY Zenon, <1>4, <1>6, <2>1 DEF WriteScript
  <2>2. CASE Defer(t, "script") /\ scripts' = scripts \cup {t}
    <3>1. UNCHANGED <<sem, cgroups, links>>
          /\ \A u \in Task : xpc'[u] \in {"new", "over"} => xpc[u] \in {"new", "over"} /\ u # t
      BY Zenon, <1>2, <1>6 DEF WriteScript, XAt, Unwinds
    <3> QED BY Zenon, <1>3, <1>5, <2>2, <3>1
  <2> QED BY Zenon, <1>6, <2>1, <2>2 DEF WriteScript
<1>7. CASE AcquireSlot(t)
  <2>1. UNCHANGED <<scripts, cgroups, links>> /\ Defer(t, "sem") /\ sem' = sem \cup {t}
        /\ \A u \in Task : xpc'[u] \in {"new", "over"} => xpc[u] \in {"new", "over"} /\ u # t
    BY Zenon, <1>2, <1>7 DEF AcquireSlot, XAt
  <2> QED BY Zenon, <1>3, <1>5, <2>1
<1>8. CASE SetupCgroup(t)
  <2>1. CASE UNCHANGED <<defers, cgroups>>
    BY Zenon, <1>4, <1>8, <2>1 DEF SetupCgroup
  <2>2. CASE Defer(t, "cgroup") /\ cgroups' = cgroups \cup {t}
    <3>1. UNCHANGED <<sem, scripts, links>>
          /\ \A u \in Task : xpc'[u] \in {"new", "over"} => xpc[u] \in {"new", "over"} /\ u # t
      BY Zenon, <1>2, <1>8 DEF SetupCgroup, XAt, Unwinds
    <3> QED BY Zenon, <1>3, <1>5, <2>2, <3>1
  <2> QED BY Zenon, <1>8, <2>1, <2>2 DEF SetupCgroup
<1>9. CASE SetupNetwork(t)
  <2>1. CASE UNCHANGED <<defers, links>>
    BY Zenon, <1>4, <1>9, <2>1 DEF SetupNetwork
  <2>2. CASE Defer(t, "net") /\ links' \subseteq links \cup {veth[t]}
    <3>1. UNCHANGED <<sem, scripts, cgroups>>
          /\ \A u \in Task : xpc'[u] \in {"new", "over"} => xpc[u] \in {"new", "over"} /\ u # t
      BY Zenon, <1>2, <1>9 DEF SetupNetwork, XAt
    <3> QED BY Zenon, <1>3, <1>5, <2>2, <3>1
  <2> QED BY Zenon, <1>9, <2>1, <2>2 DEF SetupNetwork
<1>10. CASE Unwind(t)
  <2>1. CASE defers[t] = <<>>
    BY Zenon, <1>4, <1>10, <2>1 DEF Unwind
  <2> QED BY Zenon, <1>10, <2>1, SetUpShrinks
<1>11. CASE \/ \E r \in SandboxRequest : Submit(t, r)
            \/ GiveUp(t) \/ Start(t) \/ ProcKilled(t) \/ RunReturns(t) \/ DeadlinePassesFor(t)
            \/ ProcExits(t) \/ DescendantEnds(t) \/ CancelTask(t)
  BY Zenon, <1>4, <1>11 DEF Submit, GiveUp, Start, ProcKilled, RunReturns, DeadlinePassesFor,
     ProcExits, DescendantEnds, CancelTask
<1> QED BY Zenon, <1>6, <1>7, <1>8, <1>9, <1>10, <1>11 DEF SandboxStep, TaskStep

\* A task has its slot before nsjail starts and keeps it until nsjail has ended.
LEMMA SlotsKept ==
    ASSUME SandboxInv, NEW t \in Task, SandboxStep(t) PROVE JailHoldsSlot'
<1>1. SandboxTypeOK /\ JailHoldsSlot
  BY Zenon DEF SandboxInv
<1>2. exec' = exec
  BY Zenon DEF SandboxStep, TaskStep, Submit, WriteScript, AcquireSlot,
     GiveUp, SetupCgroup, SetupNetwork, Start, ProcKilled, RunReturns, Unwind,
     DeadlinePassesFor, ProcExits, DescendantEnds, CancelTask
<1>3. /\ xpc \in [Task -> {"new", "script", "acquire", "cgroup", "net", "start", "run",
                           "unwind", "over"}]
      /\ proc \in [Task -> {"none", "running", "held", "0", "1", "killed", "nostart"}]
      /\ \A u \in Task :
            /\ xpc[u] \in {"cgroup", "net", "start", "run"} => u \in sem
            /\ xpc[u] \notin {"run", "unwind"} => proc[u] = "none"
            /\ xpc[u] = "unwind" => proc[u] \notin {"running", "held"}
  BY Zenon, <1>1 DEF SandboxTypeOK, JailHoldsSlot
<1>4. ASSUME NEW u \in Task
      PROVE  /\ xpc'[u] \in {"cgroup", "net", "start", "run"} => u \in sem'
             /\ xpc'[u] \notin {"run", "unwind"} => proc'[u] = "none"
             /\ xpc'[u] = "unwind" => proc'[u] \notin {"running", "held"}
  <2>1. CASE AcquireSlot(t) \/ GiveUp(t) \/ SetupCgroup(t) \/ SetupNetwork(t) \/ Start(t)
    BY Zenon, <1>3, <2>1 DEF AcquireSlot, GiveUp, SetupCgroup, SetupNetwork, Start, XAt, Unwinds
  <2>2. CASE ProcKilled(t) \/ RunReturns(t) \/ DeadlinePassesFor(t) \/ ProcExits(t)
             \/ DescendantEnds(t) \/ CancelTask(t)
    BY Zenon, <1>3, <2>2 DEF ProcKilled, RunReturns, DeadlinePassesFor, ProcExits, DescendantEnds,
       CancelTask, XAt, Unwinds
  <2>3. CASE (\E r \in SandboxRequest : Submit(t, r)) \/ WriteScript(t)
    BY Zenon, <1>3, <2>3 DEF Submit, WriteScript, XAt, Unwinds
  <2>4. CASE Unwind(t)
    BY Zenon, <1>3, <2>4 DEF Unwind, XAt
  <2> QED BY Zenon, <2>1, <2>2, <2>3, <2>4 DEF SandboxStep, TaskStep
<1>5. Cardinality(sem') <= exec.tasks
  <2>1. /\ IsFiniteSet(sem) /\ Cardinality(sem) \in Nat /\ Cardinality(sem) <= exec.tasks
        /\ exec.tasks \in Nat
    BY Zenon, <1>1, FS_CardinalityType DEF SandboxTypeOK, JailHoldsSlot, ExecOK
  <2>2. \/ sem' = sem
        \/ sem' = sem \cup {t} /\ Cardinality(sem) < exec.tasks
        \/ sem' = sem \ {t}
    BY Zenon DEF SandboxStep, TaskStep, Submit, WriteScript, AcquireSlot,
     GiveUp, SetupCgroup, SetupNetwork, Start, ProcKilled, RunReturns, Unwind,
     DeadlinePassesFor, ProcExits, DescendantEnds, CancelTask
  <2>3. /\ Cardinality(sem \cup {t}) <= Cardinality(sem) + 1
        /\ Cardinality(sem \ {t}) <= Cardinality(sem)
        /\ Cardinality(sem \cup {t}) \in Nat /\ Cardinality(sem \ {t}) \in Nat
    <3>1. IsFiniteSet(sem \cup {t})
          /\ Cardinality(sem \cup {t}) = IF t \in sem THEN Cardinality(sem) ELSE Cardinality(sem) + 1
      BY Zenon, <2>1, FS_AddElement
    <3>2. IsFiniteSet(sem \ {t})
          /\ Cardinality(sem \ {t}) = IF t \in sem THEN Cardinality(sem) - 1 ELSE Cardinality(sem)
      BY Zenon, <2>1, FS_RemoveElement
    <3>3. Cardinality(sem \cup {t}) \in Nat /\ Cardinality(sem \ {t}) \in Nat
      BY Zenon, <3>1, <3>2, FS_CardinalityType
    <3> QED BY <2>1, <3>1, <3>2, <3>3
  <2> QED BY <2>1, <2>2, <2>3
<1> QED BY Zenon, <1>2, <1>4, <1>5 DEF JailHoldsSlot

\* A result appears when the call returns and says what happened.
LEMMA ResultsKept ==
    ASSUME SandboxInv, NEW t \in Task, SandboxStep(t)
    PROVE  /\ ResultsInTime' /\ SandboxHonest'
           /\ \A u \in Task : result'[u].kind = "none" => ~result'[u].timedOut
<1> DEFINE Says(u) ==
      /\ result[u].kind # "none" <=> xpc[u] = "unwind"
      /\ result[u].timedOut => ctxErr[u] = "deadline" /\ result[u].code = -1
      /\ result[u].kind = "result" /\ result[u].code = 0 => proc[u] = "0"
      /\ result[u].kind = "error" => proc[u] = "none"
      /\ result[u].kind = "none" => ~result[u].timedOut
<1>1. SandboxTypeOK /\ \A u \in Task : Says(u)
  BY Zenon DEF SandboxInv, ResultsInTime, SandboxHonest
<1>2. \A u \in Task : xpc[u] \notin {"run", "unwind"} => proc[u] = "none"
  BY Zenon DEF SandboxInv, JailHoldsSlot
<1>3. /\ xpc \in [Task -> {"new", "script", "acquire", "cgroup", "net", "start", "run",
                           "unwind", "over"}]
      /\ proc \in [Task -> {"none", "running", "held", "0", "1", "killed", "nostart"}]
      /\ ctxErr \in [Task -> {"", "deadline", "canceled"}]
      /\ result \in [Task -> Outcomes]
  BY Zenon, <1>1 DEF SandboxTypeOK
<1>4. \A u \in Task \ {t} : /\ result'[u] = result[u] /\ xpc'[u] = xpc[u]
                            /\ ctxErr'[u] = ctxErr[u] /\ proc'[u] = proc[u]
  BY Zenon, <1>3 DEF SandboxStep, TaskStep, Submit, WriteScript, AcquireSlot,
     GiveUp, SetupCgroup, SetupNetwork, Start, ProcKilled, RunReturns, Unwind,
     DeadlinePassesFor, ProcExits, DescendantEnds, CancelTask, XAt, Unwinds, Returns
<1>5. \A u \in Task \ {t} : Says(u)'
  BY <1>1, <1>4
<1> SUFFICES Says(t)'
  BY Zenon, <1>5 DEF ResultsInTime, SandboxHonest
<1>6. ASSUME UNCHANGED result, xpc[t] # "unwind", xpc'[t] # "unwind" PROVE Says(t)'
  BY Zenon, <1>1, <1>3, <1>6 DEF Outcomes, NoResult, Err, Ran
<1>7. ASSUME xpc[t] \notin {"run", "unwind"}, UNCHANGED proc, Unwinds(t, Err) PROVE Says(t)'
  BY Zenon, <1>2, <1>3, <1>7 DEF Err, Unwinds, XAt, Returns
<1>8. CASE \E r \in SandboxRequest : Submit(t, r)
  BY Zenon, <1>3, <1>6, <1>7, <1>8 DEF Submit, XAt
<1>9. CASE WriteScript(t)
  BY Zenon, <1>3, <1>6, <1>7, <1>9 DEF WriteScript, XAt
<1>10. CASE AcquireSlot(t) \/ SetupNetwork(t) \/ Start(t)
  BY Zenon, <1>3, <1>6, <1>10 DEF AcquireSlot, SetupNetwork, Start, XAt
<1>11. CASE GiveUp(t)
  BY Zenon, <1>7, <1>11 DEF GiveUp
<1>12. CASE SetupCgroup(t)
  BY Zenon, <1>3, <1>6, <1>7, <1>12 DEF SetupCgroup, XAt
<1>13. CASE ProcKilled(t) \/ ProcExits(t) \/ DescendantEnds(t)
  <2>1. xpc[t] # "unwind"
    BY Zenon, <1>13 DEF SandboxInv, JailHoldsSlot, ProcKilled, ProcExits, DescendantEnds
  <2> QED BY Zenon, <1>6, <1>13, <2>1 DEF ProcKilled, ProcExits, DescendantEnds
<1>14. CASE DeadlinePassesFor(t) \/ CancelTask(t)
  BY Zenon, <1>6, <1>14 DEF DeadlinePassesFor, CancelTask
<1>15. CASE RunReturns(t)
  <2>1. /\ xpc'[t] = "unwind" /\ proc' = proc /\ ctxErr' = ctxErr
        /\ \/ proc[t] = "0" /\ result'[t] = Ran(0, FALSE)
           \/ ctxErr[t] = "deadline" /\ result'[t] = Ran(-1, TRUE)
           \/ result'[t] \in {Ran(1, FALSE), Ran(-1, FALSE)}
    BY Zenon, <1>3, <1>15 DEF RunReturns, Unwinds, XAt, Returns
  <2> QED BY <2>1 DEF Ran
<1>16. CASE Unwind(t)
  <2>1. CASE defers[t] = <<>>
    <3>1. xpc'[t] = "over" /\ result'[t] = NoResult
      BY Zenon, <1>3, <1>16, <2>1 DEF Unwind, XAt, Returns
    <3> QED BY <3>1 DEF NoResult
  <2>2. CASE defers[t] # <<>>
    BY Zenon, <1>1, <1>16, <2>2 DEF Unwind
  <2> QED BY Zenon, <2>1, <2>2
<1> QED BY Zenon, <1>8, <1>9, <1>10, <1>11, <1>12, <1>13, <1>14, <1>15, <1>16 DEF SandboxStep, TaskStep

\* Every step keeps the invariant.
LEMMA SandboxKeeps == SandboxInv /\ [SandboxNext]_sandboxVars => SandboxInv'
<1>1. ASSUME SandboxInv, UNCHANGED sandboxVars PROVE SandboxInv'
  <2>1. SandboxTypeOK' /\ SetUpIsDeferred' /\ JailHoldsSlot'
    <3>1. SandboxTypeOK'
      BY Zenon, <1>1 DEF sandboxVars, SandboxInv, SandboxTypeOK, ExecOK
    <3>2. SetUpIsDeferred'
      BY <1>1 DEF sandboxVars, SandboxInv, SetUpIsDeferred, Deferred
    <3>3. JailHoldsSlot'
      BY Zenon, <1>1 DEF sandboxVars, SandboxInv, JailHoldsSlot
    <3> QED BY Zenon, <3>1, <3>2, <3>3
  <2>2. result' = result /\ xpc' = xpc /\ ctxErr' = ctxErr /\ proc' = proc
    BY Zenon, <1>1 DEF sandboxVars
  <2>3. ResultsInTime' /\ SandboxHonest' /\ \A t \in Task : result'[t].kind = "none" => ~result'[t].timedOut
    BY Zenon, <1>1, <2>2 DEF SandboxInv, ResultsInTime, SandboxHonest
  <2> QED BY Zenon, <2>1, <2>3 DEF SandboxInv
<1>2. ASSUME SandboxInv, SandboxNext PROVE SandboxInv'
  <2>1. PICK t \in Task : SandboxStep(t)
    BY Zenon, <1>2 DEF SandboxNext, SandboxStep
  <2> QED BY Zenon, <1>2, <2>1, SandboxTyped, SetUpKept, SlotsKept, ResultsKept DEF SandboxInv
<1> QED BY Zenon, <1>1, <1>2

\* Whatever fails and whoever cancels, ExecuteCommand and ExecuteScript leave no
\* slot, script file, cgroup or veth pair behind, and their result is true.
THEOREM SandboxEndsCorrect == SandboxSpec => []SandboxEndsWell
<1>1. SandboxInv => SandboxEndsWell
  <2> SUFFICES ASSUME SandboxInv PROVE SandboxLeavesNothing
    BY Zenon DEF SandboxInv, SandboxEndsWell
  <2> SUFFICES ASSUME NEW t \in Task, xpc[t] = "over"
               PROVE  /\ t \notin sem \cup scripts \cup cgroups
                      /\ veth[t] \in links => \E u \in Task : veth[u] = veth[t] /\ xpc[u] # "over"
    BY Zenon DEF SandboxLeavesNothing
  <2>1. \A u \in Task, e \in Undo : xpc[u] = "over" => ~Deferred(u, e)
    BY DEF SandboxInv, SetUpIsDeferred, Deferred
  <2>2. {"sem", "script", "cgroup", "net"} \subseteq Undo
    BY Zenon DEF Undo
  <2>3. t \notin sem \cup scripts \cup cgroups
    BY Zenon, <2>1, <2>2 DEF SandboxInv, SetUpIsDeferred
  <2>4. ASSUME veth[t] \in links PROVE \E u \in Task : veth[u] = veth[t] /\ xpc[u] # "over"
    <3>1. PICK u \in Task : veth[u] = veth[t] /\ Deferred(u, "net")
      BY Zenon, <2>4 DEF SandboxInv, SetUpIsDeferred
    <3> QED BY Zenon, <2>1, <2>2, <3>1
  <2> QED BY Zenon, <2>3, <2>4
<1> QED BY <1>1, SandboxStarts, SandboxKeeps, PTL DEF SandboxSpec

\* For every configuration and request: no more jails than
\* max_concurrent_tasks, a deadline within the configured maximum, and memory
\* within the cap or the executor's own limit.
THEOREM SandboxLimitsCorrect == SandboxSpec => []SandboxWithinLimits
<1>1. SandboxInv => SandboxBounded
  <2> SUFFICES ASSUME SandboxInv PROVE SandboxBounded
    BY Zenon
  <2> DEFINE J == {t \in Task : proc[t] \in {"running", "held"}}
  <2>1. J \subseteq sem
    BY Zenon DEF SandboxInv, JailHoldsSlot
  <2>2. /\ IsFiniteSet(sem) /\ Cardinality(sem) <= exec.tasks /\ exec.tasks \in Nat
    BY Zenon DEF SandboxInv, SandboxTypeOK, JailHoldsSlot, ExecOK
  <2>3. /\ IsFiniteSet(J) /\ Cardinality(J) <= Cardinality(sem)
    BY Zenon, <2>1, <2>2, FS_Subset
  <2>4. Cardinality(J) \in Nat /\ Cardinality(sem) \in Nat
    BY Zenon, <2>2, <2>3, FS_CardinalityType
  <2>5. Cardinality(J) <= exec.tasks
    BY <2>2, <2>3, <2>4
  <2> QED BY Zenon, <2>5 DEF SandboxBounded
<1>2. SandboxInv => SandboxLimits
  <2> SUFFICES ASSUME SandboxInv, NEW t \in Task
               PROVE  /\ runTimeout(exec, xreq[t]) \in 1 .. exec.max
                      /\ LET c == buildNsjailConfig(exec, xreq[t])
                         IN  /\ c.time \in 1 .. exec.max
                             /\ c.mem \in 1 .. (IF exec.mem > MemCap THEN exec.mem ELSE MemCap)
    BY Zenon DEF SandboxLimits
  <2>1. /\ exec.timeout \in Nat \ {0} /\ exec.max \in Nat \ {0} /\ exec.mem \in Nat \ {0}
        /\ MemCap \in Nat \ {0}
        /\ xreq[t].timeout \in Int /\ xreq[t].mem \in Int
    BY Zenon, SandboxAssumption DEF SandboxInv, SandboxTypeOK, ExecOK
  <2> QED BY <2>1 DEF runTimeout, buildNsjailConfig, Limit, Least
<1> QED BY <1>1, <1>2, SandboxStarts, SandboxKeeps, PTL DEF SandboxSpec, SandboxWithinLimits

-----------------------------------------------------------------------------
(* The health checks *)

Verdict == {"pass", "fail", "error"}

\* The pieces the checkers are made of answer with a verdict.
LEMMA PiecesJudge ==
    /\ \A a, b : compare(a, b) \in Verdict
    /\ \A f, hits, hit, miss : hit \in Verdict /\ miss \in Verdict =>
           Scan1(f, hits, hit, miss) \in Verdict
    /\ \A v, f, verdict : verdict \in Verdict => Judge(v, f, verdict) \in Verdict \cup {"invalid"}
<1>1. \A a, b : compare(a, b) \in Verdict
  BY Zenon DEF compare, Verdict
<1>2. \A f, hits, hit, miss : hit \in Verdict /\ miss \in Verdict =>
          Scan1(f, hits, hit, miss) \in Verdict
  BY Zenon DEF Scan1, Verdict
<1>3. \A v, f, verdict : verdict \in Verdict => Judge(v, f, verdict) \in Verdict \cup {"invalid"}
  BY Zenon DEF Judge, Verdict
<1> QED BY Zenon, <1>1, <1>2, <1>3

\* Whatever the parameters and the host, a checker answers with one of the
\* three statuses or a Go error, and executeOne with one of the three.
LEMMA ExecuteOneAnswers == \A item, fs, gone : executeOne(item, fs, gone) \in Verdict
<1> SUFFICES ASSUME NEW type, NEW p, NEW fs, NEW gone
             PROVE  Check(type, p, fs, gone) \in Verdict \cup {"invalid"}
  BY Zenon DEF executeOne, Verdict
<1>1. "pass" \in Verdict /\ "fail" \in Verdict /\ "error" \in Verdict
  BY Zenon DEF Verdict
<1>2. /\ BootParamCheck(p, fs) \in Verdict \cup {"invalid"}
      /\ KernelVersionCheck(p, fs) \in Verdict \cup {"invalid"}
      /\ SysctlCheck(p, fs) \in Verdict \cup {"invalid"}
      /\ NetworkParamCheck(p, fs) \in Verdict \cup {"invalid"}
  BY Zenon, <1>1, PiecesJudge DEF BootParamCheck, KernelVersionCheck, SysctlCheck, NetworkParamCheck
<1>3. KernelModuleCheck(p, fs) \in Verdict \cup {"invalid"}
  BY Zenon, <1>1, PiecesJudge DEF KernelModuleCheck
<1>4. /\ DirPermCheck(p, fs) \in Verdict \cup {"invalid"}
      /\ FilePermCheck(p, fs) \in Verdict \cup {"invalid"}
      /\ CronCheck(p, fs) \in Verdict \cup {"invalid"}
  BY Zenon, <1>1, PiecesJudge DEF DirPermCheck, FilePermCheck, CronCheck
<1>5. FileExistCheck(p, fs) \in Verdict \cup {"invalid"}
  BY Zenon, <1>1, PiecesJudge DEF FileExistCheck
<1>6. MountOptionCheck(p, fs) \in Verdict \cup {"invalid"}
  BY Zenon, <1>1, PiecesJudge DEF MountOptionCheck
<1>7. IPTablesCheck(p, fs, gone) \in Verdict \cup {"invalid"}
  BY Zenon, <1>1, PiecesJudge DEF IPTablesCheck
<1>8. PortCheck(p, fs) \in Verdict \cup {"invalid"}
  BY Zenon, <1>1, PiecesJudge DEF PortCheck
<1>9. SSHConfigCheck(p, fs) \in Verdict \cup {"invalid"}
  BY Zenon, <1>1, PiecesJudge DEF SSHConfigCheck
<1>10. PAMCheck(p, fs) \in Verdict \cup {"invalid"}
  BY Zenon, <1>1, PiecesJudge DEF PAMCheck
<1>11. ServiceCheck(p, fs, gone) \in Verdict \cup {"invalid"}
  BY Zenon, <1>1, PiecesJudge DEF ServiceCheck
<1>12. UserCheck(p, fs) \in Verdict \cup {"invalid"}
  BY Zenon, <1>1, PiecesJudge DEF UserCheck, userExistsInPasswd, userIsLocked
<1>13. CgroupCheck(p, fs) \in Verdict \cup {"invalid"}
  BY Zenon, <1>1 DEF CgroupCheck
<1>14. ContainerdCheck(p, fs) \in Verdict \cup {"invalid"}
  BY Zenon, <1>1, PiecesJudge DEF ContainerdCheck
<1>15. DockerCheck(p, fs) \in Verdict \cup {"invalid"}
  BY Zenon, <1>1, PiecesJudge DEF DockerCheck
<1>16. ContainerRuntimeCheck(p, fs) \in Verdict \cup {"invalid"}
  BY Zenon, <1>1, PiecesJudge DEF ContainerRuntimeCheck
<1> QED
  BY <1>2, <1>3, <1>4, <1>5, <1>6, <1>7, <1>8, <1>9, <1>10, <1>11, <1>12, <1>13, <1>14, <1>15, <1>16
  DEF Check

\* The three tallies of the summary add up to the number of results.
LEMMA TalliesAddUp ==
    ASSUME NEW rs \in Seq(Verdict)
    PROVE  /\ BuildSummary(rs).total = Len(rs)
           /\ BuildSummary(rs).pass + BuildSummary(rs).fail + BuildSummary(rs).error = Len(rs)
<1> DEFINE A(st) == {i \in 1 .. Len(rs) : rs[i] = st}
           P == A("pass")  F == A("fail")  E == A("error")
<1>1. Len(rs) \in Nat /\ \A i \in 1 .. Len(rs) : rs[i] \in Verdict
  OBVIOUS
<1>2. IsFiniteSet(1 .. Len(rs)) /\ Cardinality(1 .. Len(rs)) = Len(rs)
  <2>1. \A n \in Nat : /\ IsFiniteSet(1 .. n)
                       /\ Cardinality(1 .. n) = IF 1 > n THEN 0 ELSE n - 1 + 1
    BY FS_Interval
  <2>2. \A n \in Nat : (IF 1 > n THEN 0 ELSE n - 1 + 1) = n
    OBVIOUS
  <2> QED BY Zenon, <1>1, <2>1, <2>2
<1>3. P \subseteq 1 .. Len(rs) /\ F \subseteq 1 .. Len(rs) /\ E \subseteq 1 .. Len(rs)
  BY Zenon
<1>4. (P \cup F) \cup E = 1 .. Len(rs) /\ P \cap F = {} /\ (P \cup F) \cap E = {}
  BY Zenon, <1>1 DEF Verdict
<1> HIDE DEF P, F, E, A
<1>5. IsFiniteSet(P) /\ IsFiniteSet(F) /\ IsFiniteSet(E)
  BY Zenon, <1>2, <1>3, FS_Subset
<1>6. IsFiniteSet(P \cup F) /\ Cardinality(P \cup F) = Cardinality(P) + Cardinality(F) - Cardinality(P \cap F)
  BY Zenon, <1>5, FS_Union
<1>7. Cardinality((P \cup F) \cup E) = Cardinality(P \cup F) + Cardinality(E) - Cardinality((P \cup F) \cap E)
  BY Zenon, <1>5, <1>6, FS_Union
<1>8. /\ Cardinality({}) = 0
      /\ Cardinality(P) \in Nat /\ Cardinality(F) \in Nat /\ Cardinality(E) \in Nat
  <2>1. Cardinality({}) = 0
    BY Zenon, FS_EmptySet
  <2>2. Cardinality(P) \in Nat /\ Cardinality(F) \in Nat /\ Cardinality(E) \in Nat
    BY Zenon, <1>5, FS_CardinalityType
  <2> QED BY Zenon, <2>1, <2>2
<1>9. Cardinality(P) + Cardinality(F) + Cardinality(E) = Len(rs)
  <2>1. Cardinality(P \cup F) = Cardinality(P) + Cardinality(F)
    <3>1. Cardinality(P \cap F) = 0
      BY Zenon, <1>4, <1>8
    <3> QED BY <1>6, <1>8, <3>1
  <2>2. Len(rs) = Cardinality(P \cup F) + Cardinality(E)
    <3>1. Cardinality((P \cup F) \cap E) = 0
      BY Zenon, <1>4, <1>8
    <3>2. Cardinality((P \cup F) \cup E) = Len(rs)
      BY Zenon, <1>2, <1>4
    <3> QED BY <1>7, <1>8, <2>1, <3>1, <3>2
  <2> QED BY Zenon, <1>8, <2>1, <2>2
<1> QED BY Zenon, <1>9 DEF BuildSummary, Tally, P, F, E, A

\* The intermediate messages, and the completed ones.
Between == {[completed |-> FALSE, results |-> <<st>>, summary |-> BuildSummary(<<>>)] : st \in Verdict}
Whole == {[completed |-> TRUE, results |-> rs, summary |-> BuildSummary(rs)] : rs \in Seq(Verdict)}

\* The only completed message is the last, sent when every item had a result.
HealthInv ==
    /\ results \in Seq(Verdict) /\ received \in Seq(Between \cup Whole)
    /\ \A m \in 1 .. Len(received) : received[m].completed =>
          /\ m = Len(received) /\ phase = "over"
          /\ Len(received[m].results) = Len(items)

\* Every step keeps that.
LEMMA HealthKeeps == HealthInv /\ [HealthNext]_healthVars => HealthInv'
<1> SUFFICES ASSUME HealthInv, [HealthNext]_healthVars PROVE HealthInv'
  BY Zenon
<1>1. /\ results \in Seq(Verdict) /\ received \in Seq(Between \cup Whole)
      /\ \A m \in 1 .. Len(received) : received[m].completed =>
            /\ m = Len(received) /\ phase = "over"
            /\ Len(received[m].results) = Len(items)
  BY Zenon DEF HealthInv
<1>2. CASE UNCHANGED healthVars
  BY Zenon, <1>1, <1>2 DEF HealthInv, healthVars
<1>3. ASSUME phase # "over" PROVE \A m \in 1 .. Len(received) : ~received[m].completed
  BY Zenon, <1>1, <1>3
<1>4. CASE HandleHealthCheck \/ HealthDeadline \/ StreamChanges
  <2>1. results' = results /\ received' = received /\ phase # "over"
    BY Zenon, <1>4 DEF HandleHealthCheck, HealthDeadline, StreamChanges
  <2> QED BY Zenon, <1>1, <1>3, <2>1 DEF HealthInv
<1>5. ASSUME NEW m \in Between \cup Whole, SendHealthCheckResult(m), phase = "running",
             m.completed => phase' = "over" /\ Len(m.results) = Len(items')
      PROVE  /\ received' \in Seq(Between \cup Whole)
             /\ \A k \in 1 .. Len(received') : received'[k].completed =>
                   /\ k = Len(received') /\ phase' = "over"
                   /\ Len(received'[k].results) = Len(items')
  <2>1. CASE received' = received
    BY Zenon, <1>1, <1>3, <1>5, <2>1
  <2>2. CASE received' = Append(received, m)
    <3>1. /\ received' \in Seq(Between \cup Whole) /\ Len(received') = Len(received) + 1
          /\ \A k \in 1 .. Len(received) : received'[k] = received[k]
          /\ received'[Len(received) + 1] = m /\ Len(received) \in Nat
      BY <1>1, <1>5, <2>2, AppendProperties
    <3> QED BY <1>3, <1>5, <3>1
  <2> QED BY Zenon, <1>5, <2>1, <2>2 DEF SendHealthCheckResult
<1>6. CASE ExecuteItem
  <2>1. PICK st \in Verdict :
            /\ phase = "running" /\ results' = Append(results, st)
            /\ SendHealthCheckResult([completed |-> FALSE, results |-> <<st>>,
                                      summary |-> BuildSummary(<<>>)])
    BY Zenon, <1>6, ExecuteOneAnswers DEF ExecuteItem
  <2>2. results' \in Seq(Verdict)
    BY <1>1, <2>1
  <2>3. [completed |-> FALSE, results |-> <<st>>, summary |-> BuildSummary(<<>>)] \in Between
    BY Zenon DEF Between
  <2> QED BY Zenon, <1>5, <2>1, <2>2, <2>3 DEF HealthInv
<1>7. CASE Complete
  <2> DEFINE m == [completed |-> TRUE, results |-> results, summary |-> BuildSummary(results)]
  <2>1. /\ phase = "running" /\ phase' = "over" /\ results' = results /\ items' = items
        /\ Len(results) = Len(items) /\ SendHealthCheckResult(m)
    BY Zenon, <1>7 DEF Complete
  <2>2. m \in Whole
    BY Zenon, <1>1 DEF Whole
  <2>3. Len(m.results) = Len(items')
    BY Zenon, <2>1
  <2> HIDE DEF m
  <2> QED BY Zenon, <1>1, <1>5, <2>1, <2>2, <2>3 DEF HealthInv
<1> QED BY Zenon, <1>2, <1>4, <1>6, <1>7 DEF HealthNext

\* Execute's completed message is whole for every request and every host:
\* nothing follows it, no item is missing, and the summary adds up.
THEOREM CompletedCorrect == HealthSpec => []CompletedIsWhole
<1>1. HealthInit => HealthInv
  <2> SUFFICES ASSUME HealthInit PROVE HealthInv
    BY Zenon
  <2>1. results = <<>> /\ received = <<>>
    BY Zenon DEF HealthInit
  <2> QED BY <2>1 DEF HealthInv
<1>2. HealthInv => CompletedIsWhole
  <2> SUFFICES ASSUME HealthInv, NEW m \in 1 .. Len(received), received[m].completed
               PROVE  LET s == received[m].summary IN
                      /\ m = Len(received) /\ phase = "over"
                      /\ Len(received[m].results) = Len(items) /\ s.total = Len(items)
                      /\ s.pass + s.fail + s.error = s.total
    BY Zenon DEF CompletedIsWhole
  <2>1. /\ m = Len(received) /\ phase = "over" /\ Len(received[m].results) = Len(items)
        /\ received[m] \in Between \cup Whole
    BY DEF HealthInv
  <2>2. received[m] \notin Between
    BY DEF Between
  <2>3. PICK rs \in Seq(Verdict) :
            received[m] = [completed |-> TRUE, results |-> rs, summary |-> BuildSummary(rs)]
    BY Zenon, <2>1, <2>2 DEF Whole
  <2>4. received[m].results = rs /\ received[m].summary = BuildSummary(rs)
    BY <2>3
  <2> QED BY Zenon, <2>1, <2>4, TalliesAddUp
<1> QED BY <1>1, <1>2, HealthKeeps, PTL DEF HealthSpec

=============================================================================
