------------------------------ MODULE SshProxy ------------------------------
(***************************************************************************)
(* Proxy commands: the platform asks the agent to run a command on an      *)
(* internal host over SSH (Gateway.HandleProxyCommand, executeProxyCommand *)
(* and internal/gateway/proxy/ssh.go).  The handler runs on the receive    *)
(* loop of the gRPC client, one command at a time.                         *)
(*                                                                         *)
(* The deadline of a command covers the dial and the run.  Nothing bounds  *)
(* the handshake between them: a host that accepts the connection and says *)
(* nothing keeps the handler there until it closes it.                     *)
(***************************************************************************)
EXTENDS Integers

CONSTANTS
    Host,           \* hosts the platform can name
    configuredHost, \* those the configuration lists
    Auth,           \* what of password and key file is configured: "none", "bad_key", "ok"
    MaxCommands     \* bound: commands

ASSUME ProxyAssumption ==
    configuredHost \subseteq Host /\ Auth \subseteq {"none", "bad_key", "ok"} /\ MaxCommands \in Nat

VARIABLES
    auth,       \* authentication configured for the hosts
    spc,        \* where the handler is
    deadline,   \* the command's context is done
    sshConn,    \* the TCP connection is open
    session,    \* a session is open on it
    remote,     \* the command at the host: "none", "running" or its exit status
    cmds,       \* commands received
    answer,     \* the last answer given to SendProxyResponse
    witness     \* what the host had reported when it was given

proxyVars == <<auth, spc, deadline, sshConn, session, remote, cmds, answer, witness>>

NoAnswer == [code |-> 0, timedOut |-> FALSE, given |-> FALSE]
Answered(c, t) == [code |-> c, timedOut |-> t, given |-> TRUE]

\* An unknown host is refused without an answer to the platform.
HandleProxyCommand(h) ==
    /\ spc = "idle" /\ cmds < MaxCommands
    /\ cmds' = cmds + 1
    /\ IF h \in configuredHost
       THEN spc' = "connect" /\ answer' = NoAnswer /\ remote' = "none" /\ deadline' = FALSE
       ELSE UNCHANGED <<spc, answer, remote, deadline>>
    /\ UNCHANGED <<auth, sshConn, session, witness>>

\* timeoutSec, or 30 seconds when it is not positive.
DeadlinePasses ==
    /\ spc # "idle" /\ ~deadline
    /\ deadline' = TRUE
    /\ UNCHANGED <<auth, spc, sshConn, session, remote, cmds, answer, witness>>

Give(a) == answer' = a /\ witness' = remote /\ spc' = "answer"

\* buildAuth, buildHostKeyCallback and the dial: an error is the answer.
Connect ==
    /\ spc = "connect"
    /\ \/ Give(Answered(-1, FALSE)) /\ UNCHANGED sshConn
       \/ /\ auth = "ok" /\ ~deadline
          /\ sshConn' = TRUE /\ spc' = "handshake"
          /\ UNCHANGED <<answer, witness>>
    /\ UNCHANGED <<auth, deadline, session, remote, cmds>>

\* Variant: the connection of a failed handshake is left alone.
HandshakeLeaks ==
    /\ spc = "handshake"
    /\ \/ spc' = "session" /\ UNCHANGED <<sshConn, answer, witness>>
       \/ Give(Answered(-1, FALSE)) /\ UNCHANGED sshConn
    /\ UNCHANGED <<auth, deadline, session, remote, cmds>>

Handshake ==
    /\ spc = "handshake"
    /\ \/ spc' = "session" /\ UNCHANGED <<sshConn, answer, witness>>
       \/ Give(Answered(-1, FALSE)) /\ sshConn' = FALSE
    /\ UNCHANGED <<auth, deadline, session, remote, cmds>>

NewSession ==
    /\ spc = "session"
    /\ \/ session' = TRUE /\ spc' = "run" /\ remote' = "running" /\ UNCHANGED <<sshConn, answer, witness>>
       \/ Give(Answered(-1, FALSE)) /\ sshConn' = FALSE /\ UNCHANGED <<session, remote>>
    /\ UNCHANGED <<auth, deadline, cmds>>

\* The command ends at the host.
RemoteExits ==
    /\ remote = "running"
    /\ remote' \in {"0", "1"}
    /\ UNCHANGED <<auth, spc, deadline, sshConn, session, cmds, answer, witness>>

\* The select of Execute: the deadline, the exit status, or an error of the
\* session that is not an exit.  On the way out session and connection are
\* closed.
Execute ==
    /\ spc = "run"
    /\ \/ deadline /\ Give(Answered(-1, TRUE))
       \/ remote = "0" /\ Give(Answered(0, FALSE))
       \/ remote = "1" /\ Give(Answered(1, FALSE))
       \/ Give(Answered(-1, FALSE))
    /\ session' = FALSE /\ sshConn' = FALSE
    /\ UNCHANGED <<auth, deadline, remote, cmds>>

\* SendProxyResponse, whether or not it gets through.
SendProxyResponse ==
    /\ spc = "answer"
    /\ spc' = "idle"
    /\ UNCHANGED <<auth, deadline, sshConn, session, remote, cmds, answer, witness>>

ProxyInit ==
    /\ auth \in Auth
    /\ spc = "idle" /\ deadline = FALSE /\ sshConn = FALSE /\ session = FALSE
    /\ remote = "none" /\ cmds = 0 /\ answer = NoAnswer /\ witness = "none"

ProxyNext ==
    \/ \E h \in Host : HandleProxyCommand(h)
    \/ DeadlinePasses \/ Connect \/ Handshake \/ NewSession \/ RemoteExits \/ Execute
    \/ SendProxyResponse

ProxySpec == ProxyInit /\ [][ProxyNext]_proxyVars

(***************************************************************************)
(* Properties.                                                             *)
(***************************************************************************)

\* Nothing of a command stays open once it has its answer: neither the session
\* nor the connection, whichever step failed.
ProxyLeavesNothingOpen == spc \in {"idle", "answer"} => ~sshConn /\ ~session

\* The platform is told an exit status only when the host reported it, and a
\* timeout only after the deadline.
ProxyAnswerHonest ==
    answer.given =>
        /\ answer.code = 0 => witness = "0"
        /\ answer.code = 1 => witness = "1"
        /\ answer.timedOut => answer.code = -1 /\ (spc = "answer" => deadline)

\* However a proxied command ends, its answer is true and it leaves nothing open.
ProxyEndsWell == ProxyLeavesNothingOpen /\ ProxyAnswerHonest
============================================================================
