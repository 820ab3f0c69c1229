---------------------------- MODULE SyslogInput ----------------------------
(***************************************************************************)
(* The "syslog" input (internal/collector/inputs/syslog) in the goroutine  *)
(* runInput gives it.  Unlike the other inputs its Gather does not return: *)
(* it listens until the context is cancelled and then returns the          *)
(* context's error, on which gatherOnce drops the accumulator.  While it   *)
(* listens the ticker has long fired again, so the select that follows     *)
(* finds both of its cases ready.                                          *)
(*                                                                         *)
(* A message is what Parse tells apart: the priority, the format, how many *)
(* separators there are, and for RFC 3164 the length against the 15 bytes  *)
(* of a timestamp.  A panic in any goroutine ends the process.             *)
(***************************************************************************)
EXTENDS Integers, FiniteSets

CONSTANTS
    Peer,               \* the TCP peers that may connect
    MaxConnections,     \* max_connections
    SlAccSize           \* capacity of the accumulator

ASSUME SyslogAssumption ==
    /\ IsFiniteSet(Peer)
    /\ MaxConnections \in Nat \ {0} /\ SlAccSize \in Nat \ {0}

VARIABLES
    protocol,   \* "tcp" or "udp"
    slDone,     \* the context is cancelled
    slTick,     \* a tick waits in the ticker's channel
    slPc,       \* the goroutine of the input
    slOpen,     \* the listener is open
    slReady,    \* s.ready is closed
    slConn,     \* the connection of every peer
    slHeld,     \* messages in the accumulator
    slErrors,   \* parseErrors is not zero
    slPanic     \* what the process panicked on, "" while it lives

syslogVars == <<protocol, slDone, slTick, slPc, slOpen, slReady, slConn,
                slHeld, slErrors, slPanic>>

(***************************************************************************)
(* Parse.                                                                  *)
(***************************************************************************)
Message ==
    [pri : {"none", "open", "nan", "ok"},
     body : {"empty", "5424", "3164"},
     spaces : 0 .. 7,               \* separators after the priority
     len : {14, 15, 16},            \* 3164: bytes, 16 standing for more
     ts : {"two", "one", "bad"}]    \* 3164: how the day is written

parseRFC5424(m) == IF m.spaces < 6 THEN "error" ELSE "ok"

\* A two-column day: the 15 bytes of the timestamp and one more are skipped,
\* whether or not there is one more.
parseRFC3164(m) ==
    CASE m.len < 15 \/ m.ts = "bad" -> "error"
      [] m.len = 15 /\ m.ts = "two" -> "slice"
      [] m.len = 15 /\ m.ts = "one" -> "error"     \* nothing is left
      [] m.len > 15 /\ m.ts # "bad" -> IF m.spaces = 0 THEN "error" ELSE "ok"

Parse(m) ==
    CASE m.pri # "ok" \/ m.body = "empty" -> "error"
      [] m.body = "5424" -> parseRFC5424(m)
      [] OTHER -> parseRFC3164(m)

Outcomes == {Parse(m) : m \in Message}

(***************************************************************************)
(* The goroutine of the input.                                             *)
(***************************************************************************)
Alive == slPanic = ""

Cancel ==
    /\ Alive /\ ~slDone
    /\ slDone' = TRUE
    /\ UNCHANGED <<protocol, slTick, slPc, slOpen, slReady, slConn, slHeld, slErrors, slPanic>>

Tick ==
    /\ Alive /\ ~slTick /\ slPc # "over"
    /\ slTick' = TRUE
    /\ UNCHANGED <<protocol, slDone, slPc, slOpen, slReady, slConn, slHeld, slErrors, slPanic>>

\* runInput's select: either case when both are ready.
SelectDone ==
    /\ Alive /\ slPc = "select" /\ slDone
    /\ slPc' = "over"
    /\ UNCHANGED <<protocol, slDone, slTick, slOpen, slReady, slConn, slHeld, slErrors, slPanic>>

SelectTick ==
    /\ Alive /\ slPc = "select" /\ slTick
    /\ slTick' = FALSE
    /\ slPc' = "listen"
    /\ UNCHANGED <<protocol, slDone, slOpen, slReady, slConn, slHeld, slErrors, slPanic>>

\* net.Listen: the address may be taken.
ListenFails ==
    /\ Alive /\ slPc = "listen"
    /\ slPc' = "select"
    /\ UNCHANGED <<protocol, slDone, slTick, slOpen, slReady, slConn, slHeld, slErrors, slPanic>>

\* The listener is up and s.ready is closed, which Init made and nothing
\* makes again.
Listen ==
    /\ Alive /\ slPc = "listen"
    /\ IF slReady
       THEN slPanic' = "ready" /\ UNCHANGED <<slPc, slOpen, slReady>>
       ELSE /\ slReady' = TRUE
            /\ slOpen' = TRUE
            /\ slPc' = "serve"
            /\ UNCHANGED slPanic
    /\ UNCHANGED <<protocol, slDone, slTick, slConn, slHeld, slErrors>>

\* The goroutine that closes the listener with the context.
CloseListener ==
    /\ Alive /\ slOpen /\ slDone
    /\ slOpen' = FALSE
    /\ UNCHANGED <<protocol, slDone, slTick, slPc, slReady, slConn, slHeld, slErrors, slPanic>>

\* A connection gets its goroutine at once, and its turn when there is room.
AcceptConn(c) ==
    /\ Alive /\ slPc = "serve" /\ slOpen /\ protocol = "tcp" /\ slConn[c] = "none"
    /\ slConn' = [slConn EXCEPT ![c] = "queued"]
    /\ UNCHANGED <<protocol, slDone, slTick, slPc, slOpen, slReady, slHeld, slErrors, slPanic>>

Handled == {c \in Peer : slConn[c] = "handled"}

Acquire(c) ==
    /\ Alive /\ slConn[c] = "queued" /\ Cardinality(Handled) < MaxConnections
    /\ slConn' = [slConn EXCEPT ![c] = "handled"]
    /\ UNCHANGED <<protocol, slDone, slTick, slPc, slOpen, slReady, slHeld, slErrors, slPanic>>

processMessage(o) ==
    /\ slPanic' = IF o = "slice" THEN "slice" ELSE ""
    /\ slErrors' = (slErrors \/ o = "error")
    /\ slHeld' = IF o = "ok" /\ slHeld < SlAccSize THEN slHeld + 1 ELSE slHeld
    /\ UNCHANGED <<protocol, slDone, slTick, slPc, slOpen, slReady, slConn>>

MessageArrives ==
    /\ Alive
    /\ Handled # {} \/ (protocol = "udp" /\ slPc = "serve" /\ slOpen)
    /\ \E o \in Outcomes : processMessage(o)

\* The peer closes its end, or a line is too long for the scanner.
ConnEnds(c) ==
    /\ Alive /\ slConn[c] = "handled"
    /\ slConn' = [slConn EXCEPT ![c] = "none"]
    /\ UNCHANGED <<protocol, slDone, slTick, slPc, slOpen, slReady, slHeld, slErrors, slPanic>>

\* Variant: Gather goes on accepting when the listener is closed.
GatherNeverReturns ==
    /\ Alive /\ slPc = "serve" /\ ~slOpen
    /\ UNCHANGED syslogVars

\* Accept or ReadFromUDP fails on the closed listener; TCP waits for every
\* connection.  The context's error makes gatherOnce drop the accumulator.
GatherReturns ==
    /\ Alive /\ slPc = "serve" /\ ~slOpen
    /\ \A c \in Peer : slConn[c] = "none"
    /\ slPc' = "select"
    /\ slHeld' = 0
    /\ UNCHANGED <<protocol, slDone, slTick, slOpen, slReady, slConn, slErrors, slPanic>>

SyslogInit ==
    /\ protocol \in {"tcp", "udp"}
    /\ slDone = FALSE /\ slTick = FALSE /\ slPc = "select" /\ slOpen = FALSE
    /\ slReady = FALSE /\ slConn = [c \in Peer |-> "none"]
    /\ slHeld = 0 /\ slErrors = FALSE /\ slPanic = ""

SyslogNext ==
    \/ Cancel \/ Tick \/ SelectDone \/ SelectTick \/ ListenFails \/ Listen
    \/ CloseListener \/ MessageArrives \/ GatherReturns
    \/ \E c \in Peer : AcceptConn(c) \/ Acquire(c) \/ ConnEnds(c)

\* The goroutines run; a ready select chooses each of its cases sooner or
\* later.  Peers need not close their connections.
SyslogFairness ==
    /\ WF_syslogVars(SelectTick \/ Listen)
    /\ SF_syslogVars(SelectDone)
    /\ WF_syslogVars(CloseListener)
    /\ WF_syslogVars(GatherReturns)
    /\ \A c \in Peer : WF_syslogVars(Acquire(c))

SyslogSpec == SyslogInit /\ [][SyslogNext]_syslogVars /\ SyslogFairness

(***************************************************************************)
(* Properties.                                                             *)
(***************************************************************************)

\* After the context is cancelled the input's goroutine ends, unless a peer
\* keeps its connection open or the process has panicked.
SyslogEnds ==
    slDone ~> (slPc = "over" \/ ~Alive \/ \E c \in Peer : slConn[c] # "none")
============================================================================
