--------------------------- MODULE MCAgentService ---------------------------
(* AgentService on small sets. *)
EXTENDS AgentService, TLC

MCProcs == Workers \cup Clients

MCArtifactID == [a \in Artifacts |-> a]

MCSymmetry == Permutations(Clients) \cup Permutations(Workers)

=============================================================================
