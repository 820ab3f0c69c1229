--------------------------- MODULE TunnelGateway ---------------------------
(***************************************************************************)
(* The jump-host gateway of internal/gateway: the accept loop, one handler *)
(* goroutine per incoming connection (authentication, the tunnel pool, the *)
(* relay loop), the idle reaper, the platform's tunnel messages (handled   *)
(* one at a time by the receive loop of the gRPC client), and Stop.  The   *)
(* proxy commands it runs over SSH are the module SshProxy.                *)
(*                                                                         *)
(* A tunnel is named by its connection: the random identifiers are taken   *)
(* to be distinct.  What the platform has been told of a tunnel is told[c];*)
(* a Send reaches it only while the gRPC stream is up.                     *)
(***************************************************************************)
EXTENDS Integers, Sequences, FiniteSets

CONSTANTS Conn,         \* incoming TCP connections
          MaxTunnels,   \* cfg.MaxTunnels
          MaxMsgs       \* bound: platform messages handled

ASSUME TunnelAssumption ==
    /\ MaxTunnels \in Nat /\ MaxMsgs \in Nat
    /\ Conn \cap {"recv", "reaper", "stop"} = {}

VARIABLES
    gphase,    \* of the gateway, from "new" to "failed", "stopped" or "timeout"
    gctxDone,  \* g.ctx is cancelled
    listening, \* the listener accepts connections
    loops,     \* the background goroutines that have not returned
    up,        \* the gRPC stream to the platform is connected
    final,     \* the gRPC client has been stopped for good
    hs,        \* hs[c]: where the handler of connection c is
    pool,      \* keys of Pool.tunnels
    closed,    \* tunnels whose closed flag is set (and done channel closed)
    shut,      \* connections closed on our side
    idle,      \* tunnels of the pool whose lastActivity is older than idleTimeout
    told,      \* told[c]: the "open" and "close" messages the platform received
    todo,      \* todo[a]: tunnels actor a still has to Close
    closing,   \* closing[a]: the tunnel and the stage of the Close a is in
    msgs       \* platform messages handled so far

tunnels  == <<hs, pool, closed, shut, idle, told>>
closers  == <<todo, closing>>
gateway  == <<gphase, gctxDone, listening, loops>>
link     == <<up, final>>
tunnelVars == <<tunnels, closers, gateway, link, msgs>>

Actor   == Conn \cup {"recv", "reaper", "stop"}
Nothing == [op |-> "none"]
Serving == {"open", "relay", "read", "send", "close", "leave"}
Relaying == {"relay", "read", "send"}

\* Closing one tunnel or several: Close is called for every member of ts.
CloseLater(a, ts) == todo' = [todo EXCEPT ![a] = ts]
Free(a) == todo[a] = {} /\ closing[a] = Nothing

\* Pool.Remove and the loops that empty the pool.
RemoveTunnels(ts) == pool' = pool \ ts /\ idle' = idle \ ts

\* stream.Send through the client: an error when the stream is not up.
Tell(c, m) == told' = [told EXCEPT ![c] = IF up THEN Append(@, m) ELSE @]

TunnelInit ==
    /\ gphase = "new" /\ gctxDone = FALSE /\ listening = FALSE /\ loops = {}
    /\ up \in BOOLEAN /\ final = FALSE
    /\ hs = [c \in Conn |-> "none"]
    /\ pool = {} /\ closed = {} /\ shut = {} /\ idle = {}
    /\ told = [c \in Conn |-> <<>>]
    /\ todo = [a \in Actor |-> {}] /\ closing = [a \in Actor |-> Nothing]
    /\ msgs = 0
-----------------------------------------------------------------------------
(* Start, the run context, the gRPC stream *)

\* Start up to the goroutines: listening may fail, and then nothing runs;
\* without an address only the reaper does.
StartGateway ==
    /\ gphase = "new"
    /\ \/ gphase' = "failed" /\ UNCHANGED <<listening, loops>>
       \/ gphase' = "starting" /\ loops' = {"reaper"} /\ UNCHANGED listening
       \/ gphase' = "starting" /\ listening' = TRUE /\ loops' = {"accept", "reaper"}
    /\ UNCHANGED <<gctxDone, link, tunnels, closers, msgs>>

\* The rest of Start: the proxy hosts are announced to the platform once (a
\* failed send is only logged), then the gateway is marked running.
StartRegisters ==
    /\ gphase = "starting"
    /\ gphase' = "running"
    /\ UNCHANGED <<gctxDone, listening, loops, link, tunnels, closers, msgs>>

\* The context given to Start is cancelled (the agent is told to exit).
RunCancelled ==
    /\ gphase \in {"starting", "running"} /\ ~gctxDone
    /\ gctxDone' = TRUE
    /\ UNCHANGED <<gphase, listening, loops, link, tunnels, closers, msgs>>

\* shutdown stops the gRPC client before the gateway, without waiting for a
\* message handler that is still running.
ClientStops ==
    /\ gphase = "running" /\ ~final
    /\ final' = TRUE /\ up' = FALSE
    /\ UNCHANGED <<gateway, tunnels, closers, msgs>>
-----------------------------------------------------------------------------
(* Tunnel.Close, called by the handlers, the reaper, Stop and the platform *)

\* Under t.mu: a tunnel already closed is left alone, otherwise closed is set
\* and the done channel is closed.
CloseMark(a, c) ==
    /\ c \in todo[a] /\ closing[a] = Nothing
    /\ todo' = [todo EXCEPT ![a] = @ \ {c}]
    /\ closed' = closed \cup {c}
    /\ closing' = IF c \in closed THEN closing ELSE [closing EXCEPT ![a] = [op |-> "closing", c |-> c]]
    /\ UNCHANGED <<hs, pool, shut, idle, told, gateway, link, msgs>>

\* The rest of Close: the platform is told, then the connection is closed.
CloseRest(a) ==
    /\ closing[a] # Nothing
    /\ Tell(closing[a].c, "close")
    /\ shut' = shut \cup {closing[a].c}
    /\ closing' = [closing EXCEPT ![a] = Nothing]
    /\ UNCHANGED <<hs, pool, closed, idle, todo, gateway, link, msgs>>

Close(a) == (\E c \in Conn : CloseMark(a, c)) \/ CloseRest(a)
-----------------------------------------------------------------------------
(* acceptLoop and handleIncoming *)

\* A peer connects, and Accept returns the connection.
Accept(c) ==
    /\ hs[c] = "none" /\ listening /\ "accept" \in loops
    /\ hs' = [hs EXCEPT ![c] = "auth"]
    /\ UNCHANGED <<pool, closed, shut, idle, told, closers, gateway, link, msgs>>

\* Accept fails: the loop ends only when the context is done.
AcceptFails ==
    /\ "accept" \in loops /\ ~listening /\ gctxDone
    /\ loops' = loops \ {"accept"}
    /\ UNCHANGED <<gphase, gctxDone, listening, link, tunnels, closers, msgs>>

\* authenticateConnection waits for the peer's token, without a deadline; a
\* wrong token, a lost peer or a failing random source ends the handler.
AuthFails(c) ==
    /\ hs[c] = "auth"
    /\ hs' = [hs EXCEPT ![c] = "done"]
    /\ shut' = shut \cup {c}
    /\ UNCHANGED <<pool, closed, idle, told, closers, gateway, link, msgs>>

\* The token is right: the tunnel is made and pool.Add is tried; at the limit
\* the new tunnel is closed.
AddTunnel(c) ==
    /\ hs[c] = "auth"
    /\ \/ /\ Cardinality(pool) < MaxTunnels
          /\ pool' = pool \cup {c}
          /\ hs' = [hs EXCEPT ![c] = "open"]
          /\ UNCHANGED todo
       \/ /\ Cardinality(pool) >= MaxTunnels
          /\ hs' = [hs EXCEPT ![c] = "close"]
          /\ CloseLater(c, {c})
          /\ UNCHANGED pool
    /\ UNCHANGED <<closed, shut, idle, told, closing, gateway, link, msgs>>

\* SendTunnelOpen: when it fails the tunnel leaves the pool and is closed.
OpenTunnel(c) ==
    /\ hs[c] = "open"
    /\ Tell(c, "open")
    /\ \/ up /\ hs' = [hs EXCEPT ![c] = "relay"] /\ UNCHANGED <<pool, idle, todo>>
       \/ /\ ~up
          /\ hs' = [hs EXCEPT ![c] = "close"]
          /\ RemoveTunnels({c})
          /\ CloseLater(c, {c})
    /\ UNCHANGED <<closed, shut, closing, gateway, link, msgs>>

\* The select at the head of Relay's loop: the default case only when neither
\* the context nor the tunnel is done.
RelayHead(c) ==
    /\ hs[c] = "relay"
    /\ \/ gctxDone /\ hs' = [hs EXCEPT ![c] = "close"] /\ CloseLater(c, {c})
       \/ c \in closed /\ hs' = [hs EXCEPT ![c] = "leave"] /\ UNCHANGED todo
       \/ ~gctxDone /\ c \notin closed /\ hs' = [hs EXCEPT ![c] = "read"] /\ UNCHANGED todo
    /\ UNCHANGED <<pool, closed, shut, idle, told, closing, gateway, link, msgs>>

\* Read with its five-second deadline: data, the deadline, the peer's end of
\* stream (the relay returns without Close), or an error (Close).
RelayRead(c) ==
    /\ hs[c] = "read"
    /\ \/ /\ c \notin shut
          /\ hs' = [hs EXCEPT ![c] = "send"] /\ idle' = idle \ {c}
          /\ UNCHANGED todo
       \/ c \notin shut /\ hs' = [hs EXCEPT ![c] = "relay"] /\ UNCHANGED <<idle, todo>>
       \/ c \notin shut /\ hs' = [hs EXCEPT ![c] = "leave"] /\ UNCHANGED <<idle, todo>>
       \/ hs' = [hs EXCEPT ![c] = "close"] /\ CloseLater(c, {c}) /\ UNCHANGED idle
    /\ UNCHANGED <<pool, closed, shut, told, closing, gateway, link, msgs>>

\* SendTunnelData: an error closes the tunnel.
RelaySend(c) ==
    /\ hs[c] = "send"
    /\ \/ up /\ hs' = [hs EXCEPT ![c] = "relay"] /\ UNCHANGED todo
       \/ ~up /\ hs' = [hs EXCEPT ![c] = "close"] /\ CloseLater(c, {c})
    /\ UNCHANGED <<pool, closed, shut, idle, told, closing, gateway, link, msgs>>

\* Variant: the handler does not remove its tunnel.
LeaveKeeps(c) ==
    /\ hs[c] = "leave" \/ (hs[c] = "close" /\ Free(c))
    /\ shut' = shut \cup {c}
    /\ hs' = [hs EXCEPT ![c] = "done"]
    /\ UNCHANGED <<pool, idle, closed, told, closers, gateway, link, msgs>>

\* Variant: the handler only returns when it removed the tunnel itself.
LeaveOnlyOwn(c) ==
    /\ hs[c] = "leave" \/ (hs[c] = "close" /\ Free(c))
    /\ c \in pool
    /\ RemoveTunnels({c})
    /\ shut' = shut \cup {c}
    /\ hs' = [hs EXCEPT ![c] = "done"]
    /\ UNCHANGED <<closed, told, closers, gateway, link, msgs>>

\* The relay, or the handler's own Close, has returned: pool.Remove (which
\* finds nothing when another actor removed the tunnel or it never was in the
\* pool) and the deferred conn.Close.
Leave(c) ==
    /\ hs[c] = "leave" \/ (hs[c] = "close" /\ Free(c))
    /\ RemoveTunnels({c})
    /\ shut' = shut \cup {c}
    /\ hs' = [hs EXCEPT ![c] = "done"]
    /\ UNCHANGED <<closed, told, closers, gateway, link, msgs>>

TunnelTimeouts(c) ==
    /\ c \in pool \ idle
    /\ idle' = idle \cup {c}
    /\ UNCHANGED <<hs, pool, closed, shut, told, closers, gateway, link, msgs>>
-----------------------------------------------------------------------------
(* idleReaper *)

\* A tick: CloseIdle takes the idle tunnels out of the pool, then closes them.
ReaperTick ==
    /\ "reaper" \in loops /\ Free("reaper")
    /\ idle # {}
    /\ RemoveTunnels(idle)
    /\ CloseLater("reaper", idle)
    /\ UNCHANGED <<hs, closed, shut, told, closing, gateway, link, msgs>>

ReaperEnds ==
    /\ "reaper" \in loops /\ Free("reaper") /\ gctxDone
    /\ loops' = loops \ {"reaper"}
    /\ UNCHANGED <<gphase, gctxDone, listening, link, tunnels, closers, msgs>>
-----------------------------------------------------------------------------
(* Platform messages: the receive loop runs one handler at a time *)

NextMessage == up /\ gphase = "running" /\ Free("recv") /\ msgs < MaxMsgs /\ msgs' = msgs + 1

\* HandleTunnelData: pool.Get, then the closed test and lastActivity under
\* t.mu.  The write that follows changes no state of ours, also when the
\* connection was closed meanwhile.
TunnelData(c) ==
    /\ NextMessage
    /\ idle' = IF c \notin closed THEN idle \ {c} ELSE idle
    /\ UNCHANGED <<hs, pool, closed, shut, told, closers, gateway, link>>

\* HandleTunnelClose: the tunnel leaves the pool, then Close.
TunnelClose(c) ==
    /\ NextMessage
    /\ RemoveTunnels({c})
    /\ CloseLater("recv", pool \cap {c})
    /\ UNCHANGED <<hs, closed, shut, told, closing, gateway, link>>

-----------------------------------------------------------------------------
(* Stop *)

\* running is cleared, the context cancelled, the listener closed.
StopBegins ==
    /\ gphase = "running" /\ final
    /\ gphase' = "stopping"
    /\ gctxDone' = TRUE /\ listening' = FALSE
    /\ UNCHANGED <<loops, link, tunnels, closers, msgs>>

\* pool.CloseAll: the pool is emptied, its tunnels closed one by one.
StopCloses ==
    /\ gphase = "stopping"
    /\ gphase' = "closing"
    /\ RemoveTunnels(pool)
    /\ CloseLater("stop", pool)
    /\ UNCHANGED <<hs, closed, shut, told, closing, gctxDone, listening, loops, link, msgs>>

Running(c) == hs[c] \in {"auth"} \cup Serving

\* Variant: wg.Wait without a deadline.
StopReturnsLate ==
    /\ gphase = "closing" /\ Free("stop")
    /\ loops = {} /\ \A c \in Conn : ~Running(c)
    /\ gphase' = "stopped"
    /\ UNCHANGED <<gctxDone, listening, loops, link, tunnels, closers, msgs>>

\* wg.Wait against the five-second stop context.
StopReturns ==
    /\ gphase = "closing" /\ Free("stop")
    /\ \/ loops = {} /\ (\A c \in Conn : ~Running(c)) /\ gphase' = "stopped"
       \/ gphase' = "timeout"
    /\ UNCHANGED <<gctxDone, listening, loops, link, tunnels, closers, msgs>>

\* The process has been asked to stop and nothing is left to do.
Finished ==
    /\ gphase \in {"failed", "stopped", "timeout"}
    /\ UNCHANGED tunnelVars

Handler(c) ==
    OpenTunnel(c) \/ RelayHead(c) \/ RelayRead(c) \/ RelaySend(c) \/ Leave(c)

TunnelNext ==
    \/ StartGateway \/ StartRegisters \/ RunCancelled \/ ClientStops
    \/ \E a \in Actor : Close(a)
    \/ \E c \in Conn :
          \/ Accept(c) \/ AuthFails(c) \/ AddTunnel(c) \/ Handler(c) \/ TunnelTimeouts(c)
          \/ TunnelData(c) \/ TunnelClose(c)
    \/ AcceptFails \/ ReaperTick \/ ReaperEnds
    \/ StopBegins \/ StopCloses \/ StopReturns \/ Finished

\* Goroutines that can run do run; Accept, authentication and the stream are
\* the environment's.
TunnelFairness ==
    /\ \A c \in Conn : WF_tunnelVars(Handler(c))
    /\ \A a \in Actor : WF_tunnelVars(Close(a))
    /\ WF_tunnelVars(AcceptFails) /\ WF_tunnelVars(ReaperTick)
    /\ WF_tunnelVars(StartRegisters)
    /\ WF_tunnelVars(StopCloses) /\ WF_tunnelVars(StopReturns)

TunnelSpec == TunnelInit /\ [][TunnelNext]_tunnelVars /\ TunnelFairness
-----------------------------------------------------------------------------
(* Properties *)

\* Every variable has its type; the pool never holds more than cfg.MaxTunnels.
TunnelTypeOK ==
    /\ gphase \in {"new", "starting", "running", "stopping", "closing", "stopped", "timeout", "failed"}
    /\ gctxDone \in BOOLEAN /\ listening \in BOOLEAN /\ up \in BOOLEAN /\ final \in BOOLEAN
    /\ loops \subseteq {"accept", "reaper"}
    /\ hs \in [Conn -> {"none", "auth", "done"} \cup Serving]
    /\ pool \subseteq Conn /\ Cardinality(pool) <= MaxTunnels
    /\ closed \subseteq Conn /\ shut \subseteq Conn /\ idle \subseteq pool
    /\ told \in [Conn -> Seq({"open", "close"})]
    /\ todo \in [Actor -> SUBSET Conn]
    /\ closing \in [Actor -> {Nothing} \cup [op : {"closing"}, c : Conn]]
    /\ msgs \in 0 .. MaxMsgs

\* Somebody has c on the list of tunnels to close.
BeingClosed(c) == c \in closed \/ \E a \in Actor : c \in todo[a]

\* A relay that CloseIdle, CloseAll or HandleTunnelClose took out of the pool
\* is never forgotten: its tunnel is closed, or is on the list of the actor
\* that removed it.  Conversely the pool only holds tunnels of handlers that
\* will still remove them, so a slot is never lost.
PoolAndRelaysAgree ==
    \A c \in Conn :
        /\ c \in pool => hs[c] \in Serving
        /\ hs[c] \in Relaying \cup {"open"} /\ c \notin pool => BeingClosed(c)

\* However many of the handler, the reaper, Stop and the platform close a
\* tunnel, Close tells the platform at most once, and only tunnels whose close
\* has passed that point have their connection shut under a running relay.
ClosedOnce ==
    \A c \in Conn :
        /\ \A i, j \in DOMAIN told[c] : told[c][i] = "close" /\ told[c][j] = "close" => i = j
        /\ c \in shut /\ hs[c] \in Serving => c \in closed

\* When Stop returns without an error (rather than on its deadline) the
\* listener, the accept loop, the reaper and every handler are gone, no tunnel
\* is left in the pool and every accepted connection is closed.
StopIsClean ==
    gphase = "stopped" =>
        /\ ~listening /\ loops = {} /\ pool = {}
        /\ \A c \in Conn : hs[c] = "none" \/ (hs[c] = "done" /\ c \in shut)

\* Once a tunnel has left the pool its handler ends: the relay notices the
\* closed tunnel, its closed connection or the cancelled context.
RelayEnds == \A c \in Conn : (hs[c] \in Serving /\ c \notin pool) ~> hs[c] = "done"

\* After Stop has begun it returns, and every handler that is past
\* authentication ends, also when Stop gave up waiting for it.
StopDrains ==
    gphase = "stopping" ~> /\ gphase \in {"stopped", "timeout"}
                          /\ \A c \in Conn : hs[c] \notin Serving
=============================================================================
