---------------------------- MODULE MCLifecycle ----------------------------
(* Lifecycle on small sets: the configurations give every constant. *)
EXTENDS Lifecycle

=============================================================================
