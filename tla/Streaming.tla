----------------------------- MODULE Streaming -----------------------------
(***************************************************************************)
(* The two pollers of atlasic.go over the event stream of one task:        *)
(* streamTaskEvents, which sends the events through a buffered channel to  *)
(* the SSE writer (transport/handler.go), and waitForTaskCompletion.  The  *)
(* events are written by TaskUpdater meanwhile; here its Append is the     *)
(* action Record.  An event is delivered by its position in the stream.    *)
(***************************************************************************)
EXTENDS TaskStorage

CONSTANTS Subs,         \* goroutines that poll the stream
          Task,         \* the task they follow
          StreamEvents, \* events that may be recorded after the creation
          Limit,        \* events one poll loads (100 in the code)
          ChanCap,      \* buffer of the stream channel (10 in the code)
          MaxEvents     \* bound: length of the stream

ASSUME StreamingAssumption ==
  /\ Task \in Tasks
  /\ StreamEvents \subseteq Event
  /\ Limit \in Nat \ {0}
  /\ ChanCap \in Nat \ {0}
  /\ MaxEvents \in Nat \ {0}

VARIABLE sub  \* sub[s]: the state of poller s

streamVars == <<storageVars, sub>>

events == streams[Task].events

Final(e) == e.kind = "status" /\ IsTerminal(e.val)

HasFinal == \E i \in DOMAIN events : Final(events[i])

(***************************************************************************)
(* last is lastVersion; batch, next and final hold what the current poll   *)
(* loaded: the positions still to be sent, nextVersion, and whether the    *)
(* last event of the batch is final.  chan is the channel, got what the    *)
(* client has received; gone says that its context was canceled.           *)
(***************************************************************************)
NotSubscribed ==
  [pc |-> "idle", last |-> 0, batch |-> <<>>, next |-> 0, final |-> FALSE,
   chan |-> <<>>, got |-> <<>>, gone |-> FALSE]

SubPCs == {"idle", "poll", "send", "closed", "wait", "returned"}

-----------------------------------------------------------------------------
\* An update of the task appends its event.
Record(e) ==
  /\ Len(events) < MaxEvents
  /\ (events = <<>>) <=> (e.kind = "task")
  /\ streams' = Appended(Task, <<e>>)
  /\ UNCHANGED <<tasks, pushConfigs, sub>>

\* SendStreamingMessage or TaskResubscription; the task exists.
Subscribe(s) ==
  /\ sub[s].pc = "idle"
  /\ events # <<>>
  /\ sub' = [sub EXCEPT ![s].pc = "poll"]
  /\ UNCHANGED storageVars

\* A blocking SendMessage starts to wait.
StartWait(s) ==
  /\ sub[s].pc = "idle"
  /\ events # <<>>
  /\ sub' = [sub EXCEPT ![s].pc = "wait"]
  /\ UNCHANGED storageVars

\* The positions of the events a Load from version `from' returned.
Positions(from, loaded) == [i \in 1 .. Len(loaded) |-> from + i]

AdvanceTooFar(last, loaded) == loaded.next + 1

\* if nextVersion > lastVersion { lastVersion = nextVersion }
Advance(last, loaded) == IF loaded.next > last THEN loaded.next ELSE last

NeverEnds(es) == FALSE

\* Check the last event to see if task is terminal.
EndsFinal(es) == es # <<>> /\ Final(es[Len(es)])

\* streamTaskEvents: one tick.
Poll(s) ==
  LET u == sub[s]
      loaded == Load(Task, u.last, Limit) IN
  /\ u.pc = "poll"
  /\ LoadSucceeds(Task)
  /\ IF loaded.events = <<>>
     THEN sub' = [sub EXCEPT ![s].last = Advance(u.last, loaded)]
     ELSE sub' = [sub EXCEPT ![s].pc = "send",
                             ![s].batch = Positions(u.last, loaded.events),
                             ![s].next = Advance(u.last, loaded),
                             ![s].final = EndsFinal(loaded.events)]
  /\ UNCHANGED storageVars

\* streamChan <- event; after the last one lastVersion moves on or the channel is closed.
Send(s) ==
  LET u == sub[s]
      sent == [u EXCEPT !.chan = Append(@, Head(u.batch)), !.batch = Tail(u.batch)] IN
  /\ u.pc = "send"
  /\ Len(u.chan) < ChanCap
  /\ sub' = [sub EXCEPT ![s] =
       IF Len(u.batch) > 1 THEN sent
       ELSE [sent EXCEPT !.last = u.next, !.next = 0, !.final = FALSE,
                         !.pc = IF u.final THEN "closed" ELSE "poll"]]
  /\ UNCHANGED storageVars

\* writeSSEStream takes the next event from the channel.
Receive(s) ==
  LET u == sub[s] IN
  /\ u.chan # <<>>
  /\ sub' = [sub EXCEPT ![s].chan = Tail(u.chan), ![s].got = Append(@, Head(u.chan))]
  /\ UNCHANGED storageVars

\* The context of the request is done: the client went away.
Disconnect(s) ==
  /\ sub[s].pc \in {"poll", "send", "wait"}
  /\ sub' = [sub EXCEPT ![s].pc = IF @ = "wait" THEN "returned" ELSE "closed",
                        ![s].gone = TRUE, ![s].batch = <<>>]
  /\ UNCHANGED storageVars

\* waitForTaskCompletion: one tick; any final status among the loaded events ends it.
WaitPoll(s) ==
  LET u == sub[s]
      loaded == Load(Task, u.last, Limit) IN
  /\ u.pc = "wait"
  /\ LoadSucceeds(Task)
  /\ sub' = [sub EXCEPT ![s] =
       IF \E i \in DOMAIN loaded.events : Final(loaded.events[i])
       THEN [u EXCEPT !.pc = "returned"]
       ELSE [u EXCEPT !.last = Advance(u.last, loaded)]]
  /\ UNCHANGED storageVars

-----------------------------------------------------------------------------
Init ==
  /\ StorageInit
  /\ sub = [s \in Subs |-> NotSubscribed]

Poller(s) == Poll(s) \/ Send(s) \/ WaitPoll(s)

Next ==
  \/ \E e \in StreamEvents : Record(e)
  \/ \E s \in Subs : Subscribe(s) \/ StartWait(s) \/ Poller(s) \/ Receive(s) \/ Disconnect(s)

Spec == Init /\ [][Next]_streamVars

(***************************************************************************)
(* Fairness: the ticker of a poller fires again and again, and a connected *)
(* client reads.  No event has to be recorded and nobody has to leave.     *)
(***************************************************************************)
FairSpec ==
  Spec /\ \A s \in Subs : WF_streamVars(Poller(s)) /\ WF_streamVars(Receive(s))

-----------------------------------------------------------------------------
(* Properties. *)

\* The variables keep their types.
TypeOK ==
  /\ StorageTypeOK
  /\ sub \in [Subs -> [pc : SubPCs, last : Nat, batch : Seq(Nat), next : Nat,
                       final : BOOLEAN, chan : Seq(Nat), got : Seq(Nat), gone : BOOLEAN]]

\* Everything a poller has taken from the stream, oldest first.
Taken(s) == sub[s].got \o sub[s].chan \o sub[s].batch

(***************************************************************************)
(* A client misses no event, sees none twice and no two in the wrong       *)
(* order, however its polls interleave with new events and a full channel: *)
(* what was taken from the stream is the beginning of it.                  *)
(***************************************************************************)
NoEventSkipped ==
  \A s \in Subs : \A i \in DOMAIN Taken(s) : Taken(s)[i] = i

\* Every event up to the first final status reaches every client that stays connected.
EventsDelivered ==
  \A s \in Subs, n \in 1 .. MaxEvents :
    (/\ sub[s].pc \in {"poll", "send"}
     /\ Len(events) >= n
     /\ \A i \in 1 .. n - 1 : ~Final(events[i]))
      ~> (sub[s].gone \/ \E i \in DOMAIN sub[s].got : sub[s].got[i] = n)

(***************************************************************************)
(* A stream ends when its task has ended, provided a final status stays    *)
(* the last event of the task: the poller looks at the last event only.    *)
(***************************************************************************)
StreamCloses ==
  <>[](events # <<>> /\ Final(events[Len(events)])) =>
    \A s \in Subs : sub[s].pc \in {"poll", "send"} ~> sub[s].pc = "closed"

\* A blocking request returns when its task has ended, whatever else was recorded.
WaitReturns ==
  \A s \in Subs : sub[s].pc = "wait" /\ HasFinal ~> sub[s].pc = "returned"

=============================================================================
