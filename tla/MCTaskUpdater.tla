--------------------------- MODULE MCTaskUpdater ---------------------------
(* TaskUpdater on small sets. *)
EXTENDS TaskUpdater, TLC

\* Two artifact values under one ID: the second upsert replaces the first.
MCArtifactID == [a \in Artifacts |-> "id"]

MCSymmetry == Permutations(Procs)

=============================================================================
