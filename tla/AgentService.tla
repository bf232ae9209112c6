---------------------------- MODULE AgentService ----------------------------
(***************************************************************************)
(* AgentService (atlasic.go) on top of TaskUpdater: clients that call      *)
(* SendMessage and CancelTask, the job queue between them and the workers, *)
(* and ProcessJob with its monitor goroutine.  The agent is external: it   *)
(* may update its task, ignore or obey its context and return what it      *)
(* likes, but an agent that has ended its task does not reopen it.         *)
(*                                                                         *)
(* Durable = FALSE is InMemoryJobQueue: a dequeued job is gone and its     *)
(* Complete, Fail and ExtendTimeout functions do nothing.  Durable = TRUE  *)
(* is SQSJobQueue: a received message is hidden until it is deleted, its   *)
(* visibility is set to zero, or its visibility timeout expires.           *)
(***************************************************************************)
EXTENDS TaskUpdater, FiniteSets

CONSTANTS Workers,          \* concurrent ProcessJob calls
          Clients,          \* concurrent requests
          NoProc,           \* nobody holds the lock
          Durable,          \* the job queue redelivers
          UseLocker,        \* a TaskLocker is configured
          ClientOps,        \* what clients do: "create", "message", "cancel"
          AgentStates,      \* states the agent sets through its TaskHandle
          StatusErrors,     \* states a TaskStatusError of the agent carries
          QueueSize,        \* capacity of the in-memory queue
          CanClose,         \* the service may be shut down
          MaxAgentUpdates,  \* bound: updates of one agent execution
          MaxOps            \* bound: requests of one client

ASSUME ServiceAssumption ==
  /\ Procs = Workers \cup Clients
  /\ Workers \cap Clients = {}
  /\ IsFiniteSet(Workers)
  /\ NoProc \notin Procs
  /\ ClientOps \subseteq {"create", "message", "cancel"}
  /\ AgentStates \cup StatusErrors \cup {"working", "completed", "failed", "canceled"}
       \subseteq UpdateStates
  /\ Durable \in BOOLEAN /\ UseLocker \in BOOLEAN /\ CanClose \in BOOLEAN
  /\ QueueSize \in Nat /\ MaxAgentUpdates \in Nat /\ MaxOps \in Nat

VARIABLES queue,      \* jobs a worker can take
          abandoned,  \* abandoned[t]: hidden messages no worker owns any more
          lock,       \* lock[t]: the worker that holds the task lock
          wk,         \* wk[w]: the job worker w is processing
          cl,         \* cl[c]: the request client c is executing
          closing     \* the workers' context is canceled

serviceVars == <<queue, abandoned, lock, wk, cl, closing>>

allVars == <<vars, serviceVars>>

(***************************************************************************)
(* last is the statusTracker's last update, canceled the agent's context,  *)
(* outcome the status ProcessJob is about to set, success whether the      *)
(* agent returned no error, stale whether the message was redelivered.     *)
(***************************************************************************)
NoJob ==
  [pc |-> "idle", task |-> NoTask, last |-> "none", canceled |-> FALSE,
   outcome |-> "none", success |-> FALSE, stale |-> FALSE, updates |-> 0]

NoRequest == [pc |-> "idle", task |-> NoTask, seen |-> "none", ops |-> 0]

WorkerPCs == {"idle", "lock", "check", "start", "starting", "running", "updating",
              "aborted", "settle", "settling", "stopped"}

ClientPCs == {"idle", "creating", "add", "adding", "enqueue", "wait", "cancel", "canceling"}

Status(s) == [kind |-> "status", val |-> s]

StateOf(t) == tasks[t].task.state

-----------------------------------------------------------------------------
(* The job queue. *)

Without(q, i) == SubSeq(q, 1, i - 1) \o SubSeq(q, i + 1, Len(q))

\* A job is over: the lock is released (defer unlock()) and the worker loop goes on.
Release(w) ==
  /\ lock' = IF UseLocker /\ lock[wk[w].task] = w
             THEN [lock EXCEPT ![wk[w].task] = NoProc] ELSE lock
  /\ wk' = [wk EXCEPT ![w] = IF closing THEN [NoJob EXCEPT !.pc = "stopped"] ELSE NoJob]
  /\ UNCHANGED <<cl, closing>>

HoldsMessage(w) == Durable /\ ~wk[w].stale

\* ProcessJob returns and calls neither function: the message stays hidden until its timeout.
LeaveJob(w) ==
  /\ Release(w)
  /\ abandoned' = IF HoldsMessage(w) THEN [abandoned EXCEPT ![wk[w].task] = @ + 1]
                  ELSE abandoned
  /\ UNCHANGED queue

\* The call to the queue fails: logged, and the message stays as it is.
QueueCallFails(w) == "queue" \in FaultKinds /\ HoldsMessage(w) /\ LeaveJob(w)

\* CompleteFunc: the message is deleted; a receipt that has expired deletes nothing.
CompleteJob(w) ==
  \/ Release(w) /\ UNCHANGED <<queue, abandoned>>
  \/ QueueCallFails(w)

FailJobDropped(w) == Release(w) /\ UNCHANGED <<queue, abandoned>>

\* FailFunc: visible again at once; a no-op for the in-memory queue.
FailJob(w) ==
  \/ /\ Release(w)
     /\ queue' = IF HoldsMessage(w) THEN Append(queue, wk[w].task) ELSE queue
     /\ UNCHANGED abandoned
  \/ QueueCallFails(w)

\* The visibility timeout of a message nobody works on.
Reappear(t) ==
  /\ abandoned[t] > 0
  /\ abandoned' = [abandoned EXCEPT ![t] = @ - 1]
  /\ queue' = Append(queue, t)
  /\ UNCHANGED <<vars, lock, wk, cl, closing>>

\* The visibility timeout of a message a worker still works on.
Redeliver(w) ==
  /\ Fault("visibility")
  /\ wk[w].pc \notin {"idle", "stopped"}
  /\ HoldsMessage(w)
  /\ queue' = Append(queue, wk[w].task)
  /\ wk' = [wk EXCEPT ![w].stale = TRUE]
  /\ UNCHANGED <<storageVars, issued, upd, pushes, abandoned, lock, cl, closing>>

-----------------------------------------------------------------------------
(* ProcessJob. *)

\* Dequeue takes the oldest job of the channel, any visible message of SQS.
Dequeue(w) ==
  /\ wk[w].pc = "idle"
  /\ \E i \in DOMAIN queue :
       /\ Durable \/ i = 1
       /\ queue' = Without(queue, i)
       /\ wk' = [wk EXCEPT ![w] = [NoJob EXCEPT !.pc = IF UseLocker THEN "lock" ELSE "check",
                                                !.task = queue[i]]]
  /\ UNCHANGED <<vars, abandoned, lock, cl, closing>>

LockTaken(w) == TRUE

LockFree(w) == lock[wk[w].task] = NoProc

\* acquireTaskLockWithRetry: tried again until the lock is free.
AcquireLock(w) ==
  /\ wk[w].pc = "lock"
  /\ LockFree(w)
  /\ ~closing
  /\ lock' = [lock EXCEPT ![wk[w].task] = w]
  /\ wk' = [wk EXCEPT ![w].pc = "check"]
  /\ UNCHANGED <<vars, queue, abandoned, cl, closing>>

\* ... or until the context of the worker ends.
GiveUpLock(w) ==
  /\ wk[w].pc = "lock"
  /\ closing
  /\ FailJob(w)
  /\ UNCHANGED vars

\* Task is already in terminal state, skipping processing.
SkipsTask(t) == IsTerminal(StateOf(t))

\* GetTask: an error fails the job, a terminal task is skipped.
CheckTask(w) ==
  LET t == wk[w].task IN
  /\ wk[w].pc = "check"
  /\ \/ ~GetTaskSucceeds(t) /\ FailJob(w)
     \/ GetTaskSucceeds(t) /\ SkipsTask(t) /\ LeaveJob(w)
     \/ /\ GetTaskSucceeds(t) /\ ~SkipsTask(t)
        /\ wk' = [wk EXCEPT ![w].pc = "start"]
        /\ UNCHANGED <<queue, abandoned, lock, cl, closing>>
  /\ UNCHANGED vars

\* GetTask fails for another reason: the job fails.
CheckFails(w) ==
  /\ Fault("storage")
  /\ wk[w].pc = "check"
  /\ FailJob(w)
  /\ UNCHANGED <<storageVars, issued, upd, pushes>>

\* updateStatus(working), which reads the task again.
StartWorking(w) ==
  /\ wk[w].pc = "start"
  /\ BeginUpdate(w, wk[w].task, Status("working"))
  /\ wk' = [wk EXCEPT ![w].pc = "starting"]
  /\ UNCHANGED <<queue, abandoned, lock, cl, closing>>

Started(w) ==
  /\ wk[w].pc = "starting"
  /\ Finish(w)
  /\ IF upd[w].ok
     THEN /\ wk' = [wk EXCEPT ![w].pc = "running"]
          /\ UNCHANGED <<queue, abandoned, lock, cl, closing>>
     ELSE FailJob(w)

AgentEvents == {e \in Updates : e.kind = "status" => e.val \in AgentStates}

\* What is assumed of the agent: once it has set a terminal state it sets no other kind.
KeepsEnd(w, s) == IsTerminal(wk[w].last) => IsTerminal(s)

\* A call of the agent on its TaskHandle.
AgentUpdate(w, e) ==
  /\ wk[w].pc = "running"
  /\ wk[w].updates < MaxAgentUpdates
  /\ e.kind = "status" => KeepsEnd(w, e.val)
  /\ BeginUpdate(w, wk[w].task, e)
  /\ wk' = [wk EXCEPT ![w].pc = "updating", ![w].updates = @ + 1]
  /\ UNCHANGED <<queue, abandoned, lock, cl, closing>>

\* statusTracker: the last status the agent stored.
Tracked(last, u) == IF u.ok /\ u.event.kind = "status" THEN u.event.val ELSE last

AgentUpdated(w) ==
  /\ wk[w].pc = "updating"
  /\ Finish(w)
  /\ wk' = [wk EXCEPT ![w].pc = "running", ![w].last = Tracked(@, upd[w])]
  /\ UNCHANGED <<queue, abandoned, lock, cl, closing>>

CancelSeenAlways(t) == GetTaskSucceeds(t)

CancelNeverSeen(t) == FALSE

\* checkAndHandleTaskCancellation: any terminal state stops the agent.
CancelSeen(t) == GetTaskSucceeds(t) /\ IsTerminal(StateOf(t))

MonitorCancels(w) ==
  /\ wk[w].pc \in {"running", "updating"}
  /\ ~wk[w].canceled
  /\ CancelSeen(wk[w].task)
  /\ wk' = [wk EXCEPT ![w].canceled = TRUE]
  /\ UNCHANGED <<vars, queue, abandoned, lock, cl, closing>>

\* ExtendTimeoutFunc fails: the message is no longer this worker's, or the call fails.
HeartbeatFails(w) ==
  /\ wk[w].pc \in {"running", "updating"}
  /\ ~wk[w].canceled
  /\ Durable
  /\ wk[w].stale \/ "queue" \in FaultKinds
  /\ wk' = [wk EXCEPT ![w].canceled = TRUE]
  /\ UNCHANGED <<vars, queue, abandoned, lock, cl, closing>>

\* The agent returns an error that wraps context.Canceled.  ProcessJob does not ask whether
\* the context it gave the agent was canceled.
AgentReturnsCanceled(w) ==
  /\ wk[w].pc = "running"
  /\ wk' = [wk EXCEPT ![w].pc = "aborted"]
  /\ UNCHANGED <<vars, queue, abandoned, lock, cl, closing>>

\* "Don't update task status - it's already CANCELED", and no Complete, no Fail.
Abort(w) ==
  /\ wk[w].pc = "aborted"
  /\ LeaveJob(w)
  /\ UNCHANGED vars

\* The last status of the agent is terminal: ProcessJob adds no implicit one.
TrackerTerminal(w) == IsTerminal(wk[w].last)

\* ProcessJob is about to set the status s for an agent that has returned.
Settle(w, s, success) ==
  /\ wk' = [wk EXCEPT ![w].pc = "settle", ![w].outcome = s, ![w].success = success]
  /\ UNCHANGED <<queue, abandoned, lock, cl, closing>>

\* The agent returns no error: an implicit Completed unless its last status is terminal.
AgentSucceeds(w) ==
  /\ wk[w].pc = "running"
  /\ IF TrackerTerminal(w) THEN CompleteJob(w) ELSE Settle(w, "completed", TRUE)
  /\ UNCHANGED vars

\* The agent returns a plain error: an implicit Failed unless its last status is terminal.
AgentFails(w) ==
  /\ wk[w].pc = "running"
  /\ IF TrackerTerminal(w) THEN FailJob(w) ELSE Settle(w, "failed", FALSE)
  /\ UNCHANGED vars

\* The agent returns a TaskStatusError: its state is set whatever the tracker says.
AgentReturnsStatusError(w, s) ==
  /\ wk[w].pc = "running"
  /\ KeepsEnd(w, s)
  /\ Settle(w, s, FALSE)
  /\ UNCHANGED vars

SetOutcome(w) ==
  /\ wk[w].pc = "settle"
  /\ BeginUpdate(w, wk[w].task, Status(wk[w].outcome))
  /\ wk' = [wk EXCEPT ![w].pc = "settling"]
  /\ UNCHANGED <<queue, abandoned, lock, cl, closing>>

\* Complete after an implicit Completed that was stored; Fail in every other case.
Settled(w) ==
  /\ wk[w].pc = "settling"
  /\ Finish(w)
  /\ IF wk[w].success /\ upd[w].ok THEN CompleteJob(w) ELSE FailJob(w)

\* The worker loop sees the end of its context.
WorkerStops(w) ==
  /\ wk[w].pc = "idle"
  /\ closing
  /\ wk' = [wk EXCEPT ![w].pc = "stopped"]
  /\ UNCHANGED <<vars, queue, abandoned, lock, cl, closing>>

-----------------------------------------------------------------------------
(* Requests. *)

Begin(c, op) ==
  /\ op \in ClientOps
  /\ cl[c].pc = "idle"
  /\ cl[c].ops < MaxOps

Respond(c) == cl' = [cl EXCEPT ![c] = [NoRequest EXCEPT !.ops = @ + cl[c].ops]]

\* processMessage without a task ID: a new task.
SendNewMessage(c, t, m) ==
  /\ Begin(c, "create")
  /\ BeginCreate(c, t, m)
  /\ cl' = [cl EXCEPT ![c] = [pc |-> "creating", task |-> t, seen |-> "submitted", ops |-> @.ops + 1]]
  /\ UNCHANGED <<queue, abandoned, lock, wk, closing>>

Created(c) ==
  /\ cl[c].pc = "creating"
  /\ Finish(c)
  /\ IF upd[c].ok THEN cl' = [cl EXCEPT ![c].pc = "enqueue"] ELSE Respond(c)
  /\ UNCHANGED <<queue, abandoned, lock, wk, closing>>

\* processExistingTask: a missing or terminal task is refused.
SendFollowUp(c, t) ==
  /\ Begin(c, "message")
  /\ GetTaskSucceeds(t)
  /\ ~IsTerminal(StateOf(t))
  /\ cl' = [cl EXCEPT ![c] = [pc |-> "add", task |-> t, seen |-> StateOf(t), ops |-> @.ops + 1]]
  /\ UNCHANGED <<vars, queue, abandoned, lock, wk, closing>>

AddMessage(c, m) ==
  /\ cl[c].pc = "add"
  /\ BeginUpdate(c, cl[c].task, [kind |-> "message", val |-> m])
  /\ cl' = [cl EXCEPT ![c].pc = "adding"]
  /\ UNCHANGED <<queue, abandoned, lock, wk, closing>>

\* The agent is run again only if the task was interrupted when it was first read.
Added(c) ==
  /\ cl[c].pc = "adding"
  /\ Finish(c)
  /\ IF upd[c].ok /\ IsInterrupted(cl[c].seen)
     THEN cl' = [cl EXCEPT ![c].pc = "enqueue"] ELSE Respond(c)
  /\ UNCHANGED <<queue, abandoned, lock, wk, closing>>

\* Enqueue, then wait (blocking) or answer; a full channel makes it wait.
Enqueue(c) ==
  /\ cl[c].pc = "enqueue"
  /\ Durable \/ Len(queue) < QueueSize
  /\ queue' = Append(queue, cl[c].task)
  /\ cl' = [cl EXCEPT ![c].pc = "wait"] \/ Respond(c)
  /\ UNCHANGED <<vars, abandoned, lock, wk, closing>>

\* Enqueue fails: SendMessage answers with the error, a stream is opened all the same.
EnqueueFails(c) ==
  /\ Fault("queue")
  /\ Durable
  /\ cl[c].pc = "enqueue"
  /\ cl' = [cl EXCEPT ![c].pc = "wait"] \/ Respond(c)
  /\ UNCHANGED <<storageVars, issued, upd, pushes, queue, abandoned, lock, wk, closing>>

HasFinal(t) == \E i \in DOMAIN streams[t].events : IsFinal(streams[t].events[i])

\* waitForTaskCompletion finds a final status in the stream.
WaitReturns(c) ==
  /\ cl[c].pc = "wait"
  /\ LoadSucceeds(cl[c].task)
  /\ HasFinal(cl[c].task)
  /\ Respond(c)
  /\ UNCHANGED <<vars, queue, abandoned, lock, wk, closing>>

\* CancelTask: refused for a missing task and for one that cannot be canceled.
CancelTask(c, t) ==
  /\ Begin(c, "cancel")
  /\ GetTaskSucceeds(t)
  /\ CanCancel(StateOf(t))
  /\ cl' = [cl EXCEPT ![c] = [pc |-> "cancel", task |-> t, seen |-> StateOf(t), ops |-> @.ops + 1]]
  /\ UNCHANGED <<vars, queue, abandoned, lock, wk, closing>>

SetCanceled(c) ==
  /\ cl[c].pc = "cancel"
  /\ BeginUpdate(c, cl[c].task, Status("canceled"))
  /\ cl' = [cl EXCEPT ![c].pc = "canceling"]
  /\ UNCHANGED <<queue, abandoned, lock, wk, closing>>

CancelReturns(c) ==
  /\ cl[c].pc = "canceling"
  /\ Finish(c)
  /\ Respond(c)
  /\ UNCHANGED <<queue, abandoned, lock, wk, closing>>

-----------------------------------------------------------------------------
\* Close cancels the context of the workers.
BeginClose ==
  /\ CanClose
  /\ ~closing
  /\ closing' = TRUE
  /\ UNCHANGED <<vars, queue, abandoned, lock, wk, cl>>

InFlight(t) == {w \in Workers : wk[w].task = t /\ HoldsMessage(w)}

\* The process dies and is started again: everything in memory is lost.
Restart ==
  /\ Crash
  /\ queue' = IF Durable THEN queue ELSE <<>>
  /\ abandoned' = [t \in Tasks |-> abandoned[t] + Cardinality(InFlight(t))]
  /\ lock' = [t \in Tasks |-> NoProc]
  /\ wk' = [w \in Workers |-> NoJob]
  /\ cl' = [c \in Clients |-> [NoRequest EXCEPT !.ops = cl[c].ops]]
  /\ closing' = FALSE

-----------------------------------------------------------------------------
SvcInit ==
  /\ Init
  /\ queue = <<>>
  /\ abandoned = [t \in Tasks |-> 0]
  /\ lock = [t \in Tasks |-> NoProc]
  /\ wk = [w \in Workers |-> NoJob]
  /\ cl = [c \in Clients |-> NoRequest]
  /\ closing = FALSE

\* The agent's choices.
AgentStep(w) ==
  \/ \E e \in AgentEvents : AgentUpdate(w, e)
  \/ AgentReturnsCanceled(w)
  \/ AgentSucceeds(w)
  \/ AgentFails(w)
  \/ \E s \in StatusErrors : AgentReturnsStatusError(w, s)

\* The code around the agent.
JobStep(w) ==
  \/ Dequeue(w)
  \/ AcquireLock(w)
  \/ GiveUpLock(w)
  \/ CheckTask(w)
  \/ CheckFails(w)
  \/ StartWorking(w)
  \/ Started(w)
  \/ AgentUpdated(w)
  \/ Abort(w)
  \/ SetOutcome(w)
  \/ Settled(w)
  \/ WorkerStops(w)

Monitor(w) == MonitorCancels(w) \/ HeartbeatFails(w)

\* A client decides to send a request.
Request(c) ==
  \E t \in Tasks :
    \/ \E m \in Messages : SendNewMessage(c, t, m)
    \/ SendFollowUp(c, t)
    \/ CancelTask(c, t)

\* The handler of the request goes on.
RequestStep(c) ==
  \/ Created(c)
  \/ \E m \in Messages : AddMessage(c, m)
  \/ Added(c)
  \/ Enqueue(c)
  \/ EnqueueFails(c)
  \/ WaitReturns(c)
  \/ SetCanceled(c)
  \/ CancelReturns(c)

UpdateStep(p) == (Progress(p) \/ Failure(p)) /\ UNCHANGED serviceVars

SvcNext ==
  \/ \E w \in Workers : AgentStep(w) \/ JobStep(w) \/ Monitor(w) \/ Redeliver(w)
  \/ \E c \in Clients : Request(c) \/ RequestStep(c)
  \/ \E p \in Procs : UpdateStep(p)
  \/ \E t \in Tasks : Reappear(t)
  \/ BeginClose
  \/ Restart

SvcSpec == SvcInit /\ [][SvcNext]_allVars

(***************************************************************************)
(* Fairness: goroutines run, the monitor's ticker fires and a hidden       *)
(* message becomes visible again.  Nothing makes a client send a request,  *)
(* and nothing makes the agent return.                                     *)
(***************************************************************************)
CodeFairness ==
  /\ \A p \in Procs : WF_allVars(Progress(p) /\ UNCHANGED serviceVars)
  /\ \A w \in Workers : WF_allVars(JobStep(w)) /\ WF_allVars(Monitor(w))
  /\ \A c \in Clients : WF_allVars(RequestStep(c))
  /\ \A t \in Tasks : WF_allVars(Reappear(t))

FairSvcSpec == SvcSpec /\ CodeFairness

\* Every execution of the agent comes to an end; nothing in the code makes it.
AgentsReturn == \A w \in Workers : []<>(wk[w].pc # "running")

AgentCanceled(w) == wk[w].canceled \/ closing

\* No agent returns context.Canceled of its own accord: one whose own timeout or client was
\* canceled leaves a live task, and ProcessJob calls neither Complete nor Fail.
AgentsAbortWhenCanceled ==
  [](\A w \in Workers : wk[w].pc = "aborted" => AgentCanceled(w))

-----------------------------------------------------------------------------
(* Properties. *)

\* The variables of the service keep their types.
SvcTypeOK ==
  /\ TypeOK
  /\ queue \in Seq(Tasks)
  /\ abandoned \in [Tasks -> Nat]
  /\ lock \in [Tasks -> Workers \cup {NoProc}]
  /\ wk \in [Workers -> [pc : WorkerPCs, task : Tasks \cup {NoTask},
                         last : TaskStates \cup {"none"}, canceled : BOOLEAN,
                         outcome : TaskStates \cup {"none"}, success : BOOLEAN,
                         stale : BOOLEAN, updates : 0 .. MaxAgentUpdates]]
  /\ cl \in [Clients -> [pc : ClientPCs, task : Tasks \cup {NoTask},
                         seen : TaskStates \cup {"none"}, ops : 0 .. MaxOps]]
  /\ closing \in BOOLEAN

(***************************************************************************)
(* A task that has ended is not started again: whatever jobs, redelivered  *)
(* messages, follow-ups and cancellations exist for it, its state stays    *)
(* terminal.  ProcessJob checks this before its first update only, so it   *)
(* rests on the TaskLocker when the queue redelivers.                      *)
(***************************************************************************)
TerminalNotRestarted ==
  [][\A t \in Tasks :
       tasks[t].file = "intact" /\ IsTerminal(StateOf(t)) =>
         tasks'[t].file = "torn" \/ IsTerminal(tasks'[t].task.state)]_allVars

\* A terminal state is the last state of its task.
TerminalIsFinal ==
  [][\A t \in Tasks :
       tasks[t].file = "intact" /\ IsTerminal(StateOf(t)) =>
         tasks'[t].file = "torn" \/ tasks'[t].task.state = StateOf(t)]_allVars

\* A message was recorded after the last time the task was interrupted.
InputArrived(t) ==
  LET es == streams[t].events IN
  \E i \in DOMAIN es :
    /\ es[i].kind = "message"
    /\ \A j \in DOMAIN es : es[j].kind = "status" /\ IsInterrupted(es[j].val) => j < i

Live(t) ==
  tasks[t].file = "intact" /\ ~HasFinal(t) /\ ~IsInterrupted(StateOf(t))

HasJob(t) ==
  \/ \E i \in DOMAIN queue : queue[i] = t
  \/ abandoned[t] > 0
  \/ \E w \in Workers : wk[w].task = t
  \/ \E c \in Clients : cl[c].task = t /\ cl[c].pc \in {"creating", "enqueue"}

(***************************************************************************)
(* The input a task waited for is taken up: when a message has arrived for *)
(* an interrupted task, a job for it exists or the request that recorded   *)
(* the message is still going on (processExistingTask decides with the     *)
(* state it read before it added the message).                             *)
(***************************************************************************)
InputIsTakenUp ==
  \A t \in Tasks :
    tasks[t].file = "intact" /\ IsInterrupted(StateOf(t)) /\ InputArrived(t) =>
      \/ HasJob(t)
      \/ \E c \in Clients : cl[c].task = t /\ cl[c].pc = "adding"

(***************************************************************************)
(* No task is forgotten: while a task is not waiting for input and no      *)
(* final status was recorded for it, a job for it is queued, hidden, being *)
(* processed or about to be queued.                                        *)
(***************************************************************************)
LiveTaskHasJob == \A t \in Tasks : Live(t) => HasJob(t)

(***************************************************************************)
(* A task that was started is not forgotten either way: crashes, failed    *)
(* calls to queue and store, redeliveries, shutdowns and cancellations     *)
(* leave it ended, waiting for input or with a job.                        *)
(***************************************************************************)
StartedTaskHasJob == \A t \in Tasks : Live(t) /\ StateOf(t) = "working" => HasJob(t)

(***************************************************************************)
(* A blocking SendMessage returns if the agent always does, unless the     *)
(* task was left waiting for input.  The agent must not return             *)
(* context.Canceled while its context goes on: ProcessJob takes it for the *)
(* end of a canceled task (atlasic.go:342) and records nothing.            *)
(***************************************************************************)
BlockingSendReturns ==
  AgentsReturn /\ AgentsAbortWhenCanceled =>
    \A c \in Clients :
      cl[c].pc = "wait" ~> (cl[c].pc # "wait" \/ IsInterrupted(StateOf(cl[c].task)))

(***************************************************************************)
(* The cancellation of a task reaches the agent that works on it, even one *)
(* that would never return by itself: its context is canceled.             *)
(***************************************************************************)
CancellationReachesAgent ==
  \A w \in Workers :
    wk[w].pc \in {"running", "updating"} /\ StateOf(wk[w].task) = "canceled"
      ~> (wk[w].pc \notin {"running", "updating"} \/ wk[w].canceled)

=============================================================================
