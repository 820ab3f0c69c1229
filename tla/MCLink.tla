------------------------------- MODULE MCLink -------------------------------
(***************************************************************************)
(* Two parts of the link between agent and platform: the ring buffer that  *)
(* keeps metrics while the stream is down, with three slots and three      *)
(* distinguishable metrics, and the tunnel gateway, with two connections   *)
(* for one tunnel.  A behaviour is one of one of them, named by focus; the *)
(* other stays in an initial state.                                        *)
(***************************************************************************)
EXTENDS MetricCache, TunnelGateway

VARIABLE focus

MCInit ==
    /\ focus \in {"cache", "tunnel"}
    /\ NewMetricCache
    /\ TunnelInit /\ (focus = "tunnel" \/ up)

MCNext ==
    \/ focus = "cache" /\ Next /\ UNCHANGED <<tunnelVars, focus>>
    \/ focus = "tunnel" /\ TunnelNext /\ UNCHANGED <<vars, focus>>

\* The fairness of the gateway, asked for when it is looked at.
MCFairness ==
    /\ \A c \in Conn : WF_tunnelVars(focus = "tunnel" /\ Handler(c))
    /\ \A a \in Actor : WF_tunnelVars(focus = "tunnel" /\ Close(a))
    /\ WF_tunnelVars(focus = "tunnel" /\ AcceptFails)
    /\ WF_tunnelVars(focus = "tunnel" /\ ReaperTick)
    /\ WF_tunnelVars(focus = "tunnel" /\ StartRegisters)
    /\ WF_tunnelVars(focus = "tunnel" /\ StopCloses)
    /\ WF_tunnelVars(focus = "tunnel" /\ StopReturns)

mcVars == <<vars, tunnelVars, focus>>

MCSpec == MCInit /\ [][MCNext]_mcVars /\ MCFairness
=============================================================================
