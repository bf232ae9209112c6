---------------------------- MODULE MCStreaming ----------------------------
(* Streaming on small sets. *)
EXTENDS Streaming, TLC

MCArtifactID == [a \in Artifacts |-> a]

MCEvents ==
  [kind : {"task", "message"}, val : Messages]
    \cup [kind : {"status"}, val : {"working", "input-required", "completed"}]

=============================================================================
