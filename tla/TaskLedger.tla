----------------------------- MODULE TaskLedger -----------------------------
(***************************************************************************)
(* What event sourcing promises of the tasks of a store, without           *)
(* snapshots, versions or interleaved updates: every task has one history  *)
(* that starts with its creation and only grows, one event at a time, and  *)
(* a canceled task takes no further status.  The history of a task may be  *)
(* lost as a whole; then nothing is recorded for the task any more.        *)
(***************************************************************************)
EXTENDS Naturals, Sequences

CONSTANTS Tasks, Messages, Artifacts, States

VARIABLES ledger,  \* ledger[t]: the events of task t, oldest first
          lost     \* tasks whose history was lost

CanceledEvent == [kind |-> "status", val |-> "canceled"]

IsCanceled(h) == \E i \in 1 .. Len(h) : h[i] = CanceledEvent

Init ==
  /\ ledger = [t \in Tasks |-> <<>>]
  /\ lost = {}

Create(t, m) ==
  /\ t \notin lost
  /\ ledger[t] = <<>>
  /\ ledger' = [ledger EXCEPT ![t] = <<[kind |-> "task", val |-> m]>>]
  /\ UNCHANGED lost

Record(t, e) ==
  /\ t \notin lost
  /\ ledger[t] # <<>>
  /\ e.kind = "status" => ~IsCanceled(ledger[t])
  /\ ledger' = [ledger EXCEPT ![t] = Append(@, e)]
  /\ UNCHANGED lost

Lose(t) ==
  /\ ledger' = [ledger EXCEPT ![t] = <<>>]
  /\ lost' = lost \cup {t}

Updates ==
  [kind : {"message"}, val : Messages]
    \cup [kind : {"status"}, val : States]
    \cup [kind : {"artifact"}, val : Artifacts]

Next ==
  \E t \in Tasks : \/ \E m \in Messages : Create(t, m)
                   \/ \E e \in Updates : Record(t, e)
                   \/ Lose(t)

Spec == Init /\ [][Next]_<<ledger, lost>>

=============================================================================
