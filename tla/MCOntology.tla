----------------------------- MODULE MCOntology -----------------------------
\* One database provisioned twice at once, one service over two containers, one
\* surface and a cluster of two hosts.  In a behaviour either the dashboard
\* host or the rest of the agent host works beside the deployments, which keeps
\* the product of the two small: they meet in services.json only.
EXTENDS Ontology

VARIABLE part

MCInit == Init /\ part \in {"dashboard host", "agent host"}

MCNext ==
    /\ UNCHANGED part
    /\ \/ Deployment
       \/ hostOp = None /\ RefreshStep
       \/ part = "agent host" /\ (AgentHost \/ Environment)
       \/ part = "dashboard host" /\ DashboardHost

MCSpec ==
    /\ MCInit /\ [][MCNext]_<<vars, part>>
    /\ WF_<<vars, part>>(part = "dashboard host" /\ Dashboard /\ UNCHANGED part)
=============================================================================
