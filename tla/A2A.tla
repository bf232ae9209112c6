-------------------------------- MODULE A2A --------------------------------
(***************************************************************************)
(* The task states of the A2A protocol and the predicates the service      *)
(* branches on (a2a/a2a.go).                                               *)
(***************************************************************************)

TaskStates == {"submitted", "working", "input-required", "completed",
               "canceled", "failed", "rejected", "auth-required", "unknown"}

IsTerminal(s) == s \in {"completed", "failed", "canceled", "rejected"}

IsInterrupted(s) == s \in {"input-required", "auth-required"}

CanCancel(s) == ~IsTerminal(s)

=============================================================================
