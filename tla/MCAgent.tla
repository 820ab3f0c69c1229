------------------------------- MODULE MCAgent -------------------------------
(***************************************************************************)
(* The agent's two handlers of platform messages with state of their own:  *)
(* the tasks, with two requests, two ids and one sandbox slot, and the     *)
(* reload of the configuration.  A behaviour is one of one of them, named  *)
(* by focus; the other stays in an initial state.                          *)
(***************************************************************************)
EXTENDS AgentTasks, ConfigReload

VARIABLE focus

MCInit ==
    /\ focus \in {"tasks", "reload"}
    /\ Init /\ ReloadInit
    /\ id[CHOOSE r \in Request : TRUE] = CHOOSE i \in TaskId : TRUE  \* ids can be renamed
    /\ focus = "tasks" \/ (~sandboxed /\ \A r \in Request : kind[r] = "exec" /\ id[r] = CHOOSE i \in TaskId : TRUE)
    /\ focus = "reload" \/ file["auth"] = "zero"

MCNext ==
    \/ focus = "tasks" /\ Next /\ UNCHANGED <<reloadVars, focus>>
    \/ focus = "reload" /\ ReloadNext /\ UNCHANGED <<vars, focus>>

\* The fairness of the tasks, asked for when they are looked at.
MCFairness ==
    /\ WF_vars(focus = "tasks" /\ Receive) /\ WF_vars(focus = "tasks" /\ Shutdown)
    /\ WF_vars(focus = "tasks" /\ Expire) /\ WF_vars(focus = "tasks" /\ WaitExpired)

mcVars == <<vars, reloadVars, focus>>

MCSpec == MCInit /\ [][MCNext]_mcVars /\ MCFairness
=============================================================================
