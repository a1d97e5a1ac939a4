---------------------------- MODULE MCSupervision ----------------------------
(***************************************************************************)
(* The two loops that keep something alive, PanelHealth and AcpAgent: the  *)
(* initial state chooses the one that runs.  (No symmetry: liveness is     *)
(* checked.)                                                               *)
(***************************************************************************)
EXTENDS PanelHealth, AcpAgent

VARIABLE focus  \* the loop that runs

MCInit == focus \in {"health", "agent"} /\ Init /\ AgentInit

MCNext ==
    \/ focus = "health" /\ Next /\ UNCHANGED <<focus, agentVars>>
    \/ focus = "agent" /\ AgentNext /\ UNCHANGED <<focus, vars>>

MCSpec ==
    /\ MCInit
    /\ [][MCNext]_<<focus, vars, agentVars>>
    /\ focus = "health" => Fairness
    /\ focus = "agent" => AgentFairness

=============================================================================
