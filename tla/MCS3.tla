-------------------------------- MODULE MCS3 --------------------------------
(* The task updater of several processes on S3, on small sets. *)
EXTENDS S3Storage, TLC

MCArtifactID == [a \in Artifacts |-> "id"]

MCS3Symmetry == Permutations(Procs)

=============================================================================
