------------------------ MODULE AgentServiceProofs ------------------------
(***************************************************************************)
(* Proofs about AgentService, for any number of tasks, workers, clients    *)
(* and requests and any agent that keeps to KeepsEnd: the service updates  *)
(* tasks by the protocol of TaskUpdater only; with a TaskLocker a task     *)
(* that has ended is not started again; and with a queue that redelivers   *)
(* no task loses its job.                                                  *)
(***************************************************************************)
EXTENDS AgentService, TaskUpdaterProofs, FiniteSetTheorems, SequenceTheorems

-----------------------------------------------------------------------------
(* The inductive invariants, layer by layer. *)

\* A worker has a task exactly while it processes a job; what it is about to store is a state.
WorkerShape(w) ==
  /\ wk[w].pc \in {"idle", "stopped"} <=> wk[w].task = NoTask
  /\ wk[w].pc \in {"settle", "settling"} => wk[w].outcome \in UpdateStates

\* A client has a task exactly while its request goes on.
ClientShape(c) == cl[c].pc = "idle" <=> cl[c].task = NoTask

Shape ==
  /\ \A w \in Workers : WorkerShape(w)
  /\ \A c \in Clients : ClientShape(c)

BaseInv == SvcTypeOK /\ UpdateInv /\ Shape

\* A worker past acquireTaskLockWithRetry.
Holding == {"check", "start", "starting", "running", "updating", "aborted", "settle", "settling"}

\* The lock of a task belongs to the worker that processes it.
LockInv == \A w \in Workers : wk[w].pc \in Holding => lock[wk[w].task] = w

\* A worker updates a task only inside the three calls of ProcessJob and the agent that do so.
WorkerUpdates(w) ==
  upd[w].phase # "idle" =>
    /\ wk[w].pc \in {"starting", "updating", "settling"}
    /\ upd[w].task = wk[w].task
    /\ wk[w].pc = "starting" => upd[w].event = Status("working")
    /\ wk[w].pc = "updating" /\ upd[w].event.kind = "status" => KeepsEnd(w, upd[w].event.val)
    /\ wk[w].pc = "settling" => upd[w].event = Status(wk[w].outcome)

\* What the statusTracker has seen, and what it makes ProcessJob store.
TrackerInv(w) ==
  /\ wk[w].pc \in {"lock", "check", "start", "starting"} => wk[w].last = "none"
  /\ wk[w].pc \in {"settle", "settling"} => KeepsEnd(w, wk[w].outcome)
  /\ wk[w].pc \in {"settle", "settling"} /\ wk[w].success => wk[w].outcome = "completed"

\* A request updates its task with the event that belongs to it.
ClientUpdates(c) ==
  upd[c].phase # "idle" =>
    /\ upd[c].task = cl[c].task
    /\ \/ cl[c].pc = "creating" /\ upd[c].event.kind = "task"
       \/ cl[c].pc = "adding" /\ upd[c].event.kind = "message"
       \/ cl[c].pc = "canceling" /\ upd[c].event = Status("canceled")

OwnInv ==
  /\ \A w \in Workers : WorkerUpdates(w) /\ TrackerInv(w)
  /\ \A c \in Clients : ClientUpdates(c)

\* The running update of p has saved its snapshot.
Stored(p) ==
  \/ upd[p].phase \in {"list", "notify"}
  \/ upd[p].phase = "done" /\ upd[p].ok

\* The agent of w, or ProcessJob for it, has ended the task.
EndedBy(w) == IsTerminal(wk[w].last) \/ (Stored(w) /\ IsFinal(upd[w].event))

\* A task that is terminal while its worker is past the check was canceled or ended by the worker.
TermInv(w) ==
  LET t == wk[w].task IN
  /\ wk[w].pc \in Holding \ {"check"}
  /\ tasks[t].file = "intact"
  /\ IsTerminal(StateOf(t))
  => StateOf(t) = "canceled" \/ EndedBy(w)

\* The snapshot can not become anything but terminal or unreadable any more.
Over(t) ==
  \/ tasks[t].file = "torn"
  \/ tasks[t].file = "intact" /\ IsTerminal(StateOf(t))

\* What a worker has ended is over.
OverInv(w) == wk[w].pc \in Holding /\ EndedBy(w) => Over(wk[w].task)

\* The message of a job: visible, hidden without an owner, or with a worker that still owns it.
Token(t) ==
  \/ \E i \in DOMAIN queue : queue[i] = t
  \/ abandoned[t] > 0
  \/ \E w \in Workers : wk[w].task = t /\ ~wk[w].stale

\* A worker works on t, or left it in the state working.
Claimed(t) ==
  \/ \E w \in Workers : wk[w].task = t
  \/ tasks[t].file = "intact" /\ StateOf(t) = "working"

\* A task that was taken up has a message or is over.
TokenInv == \A t \in Tasks : Claimed(t) => Token(t) \/ Over(t)

\* The request that will enqueue t.
Requested(t) == \E c \in Clients : cl[c].task = t /\ cl[c].pc \in {"creating", "enqueue"}

\* A worker works on t, or t exists and does not wait for input.
Pending(t) ==
  \/ \E w \in Workers : wk[w].task = t
  \/ tasks[t].file = "intact" /\ ~IsInterrupted(StateOf(t))

RequestInv == \A t \in Tasks : Pending(t) => Token(t) \/ Requested(t) \/ Over(t)

\* The final status of an ended task is in its stream.
FinalInv ==
  \A t \in Tasks : tasks[t].file = "intact" /\ IsTerminal(StateOf(t)) => HasFinal(t)

\* Nothing but a failure makes the creation of a task fail.
CreateInv ==
  \A c \in Clients : cl[c].pc = "creating" => upd[c].phase # "idle" /\ (upd[c].phase = "done" => upd[c].ok)

-----------------------------------------------------------------------------
(* The service updates tasks by the update protocol only. *)

\* A failure of the queue, or of a read that is no part of an update.
FaultOnly == faults' \in 0 .. MaxFaults /\ UNCHANGED <<storageVars, issued, upd, pushes>>

\* A step of the service is a step of TaskUpdater, or a failure outside of it.
LEMMA UpdaterSteps ==
  ASSUME SvcTypeOK, Shape, [SvcNext]_allVars
  PROVE  [Next]_vars \/ FaultOnly
<1>1. ASSUME NEW kind, Fault(kind), UNCHANGED <<storageVars, issued, upd, pushes>>
      PROVE  FaultOnly
  BY <1>1, UpdaterAssumption DEF Fault, FaultOnly, SvcTypeOK, TypeOK
<1>2. ASSUME NEW p \in Procs, Finish(p) \/ Progress(p) \/ Failure(p)
      PROVE  Next
  BY <1>2 DEF Next
<1>3. ASSUME NEW p \in Procs, NEW t \in Tasks, NEW e \in Updates, BeginUpdate(p, t, e)
      PROVE  Next
  BY <1>3 DEF Next
<1>4. Workers \subseteq Procs /\ Clients \subseteq Procs
  BY ServiceAssumption
<1>5. ASSUME NEW w \in Workers, wk[w].pc \notin {"idle", "stopped"}
      PROVE  wk[w].task \in Tasks
  BY <1>5 DEF SvcTypeOK, Shape, WorkerShape
<1>6. ASSUME NEW c \in Clients, cl[c].pc # "idle"
      PROVE  cl[c].task \in Tasks
  BY <1>6 DEF SvcTypeOK, Shape, ClientShape
<1>7. ASSUME NEW s \in UpdateStates
      PROVE  Status(s) \in Updates
  BY DEF Status, Updates
<1>8. ASSUME NEW w \in Workers, AgentStep(w)
      PROVE  [Next]_vars
  <2>1. ASSUME NEW e \in AgentEvents, AgentUpdate(w, e)
        PROVE  Next
    <3>1. wk[w].task \in Tasks
      BY <1>5, <2>1 DEF AgentUpdate
    <3>2. e \in Updates
      BY DEF AgentEvents
    <3>3. QED
      BY <1>3, <1>4, <2>1, <3>1, <3>2 DEF AgentUpdate
  <2>2. CASE \/ AgentReturnsCanceled(w) \/ AgentSucceeds(w) \/ AgentFails(w)
             \/ \E s \in StatusErrors : AgentReturnsStatusError(w, s)
    BY <2>2 DEF AgentReturnsCanceled, AgentSucceeds, AgentFails, AgentReturnsStatusError
  <2>3. QED
    BY <1>8, <2>1, <2>2 DEF AgentStep
<1>9. ASSUME NEW w \in Workers, JobStep(w)
      PROVE  [Next]_vars \/ FaultOnly
  <2>1. CASE \/ Dequeue(w) \/ AcquireLock(w) \/ GiveUpLock(w) \/ CheckTask(w) \/ Abort(w)
             \/ WorkerStops(w)
    BY <2>1 DEF Dequeue, AcquireLock, GiveUpLock, CheckTask, Abort, WorkerStops
  <2>2. CASE CheckFails(w)
    BY <1>1, <2>2 DEF CheckFails
  <2>3. CASE StartWorking(w)
    <3>1. wk[w].task \in Tasks /\ Status("working") \in Updates
      BY <1>5, <1>7, <2>3, ServiceAssumption DEF StartWorking
    <3>2. QED
      BY <1>3, <1>4, <2>3, <3>1 DEF StartWorking
  <2>4. CASE Started(w) \/ AgentUpdated(w) \/ Settled(w)
    BY <1>2, <1>4, <2>4 DEF Started, AgentUpdated, Settled
  <2>5. CASE SetOutcome(w)
    <3>1. wk[w].task \in Tasks /\ Status(wk[w].outcome) \in Updates
      BY <1>5, <1>7, <2>5 DEF SetOutcome, Shape, WorkerShape
    <3>2. QED
      BY <1>3, <1>4, <2>5, <3>1 DEF SetOutcome
  <2>6. QED
    BY <1>9, <2>1, <2>2, <2>3, <2>4, <2>5 DEF JobStep
<1>10. ASSUME NEW w \in Workers, Monitor(w) \/ Redeliver(w)
       PROVE  [Next]_vars \/ FaultOnly
  BY <1>1, <1>10 DEF Monitor, MonitorCancels, HeartbeatFails, Redeliver
<1>11. ASSUME NEW c \in Clients, Request(c)
       PROVE  [Next]_vars
  BY <1>4, <1>11 DEF Request, SendNewMessage, SendFollowUp, CancelTask, Next
<1>12. ASSUME NEW c \in Clients, RequestStep(c)
       PROVE  [Next]_vars \/ FaultOnly
  <2>1. CASE Created(c) \/ Added(c) \/ CancelReturns(c)
    BY <1>2, <1>4, <2>1 DEF Created, Added, CancelReturns
  <2>2. ASSUME NEW m \in Messages, AddMessage(c, m)
        PROVE  Next
    <3>1. cl[c].task \in Tasks /\ [kind |-> "message", val |-> m] \in Updates
      BY <1>6, <2>2 DEF AddMessage, Updates
    <3>2. QED
      BY <1>3, <1>4, <2>2, <3>1 DEF AddMessage
  <2>3. CASE SetCanceled(c)
    <3>1. cl[c].task \in Tasks /\ Status("canceled") \in Updates
      BY <1>6, <1>7, <2>3, ServiceAssumption DEF SetCanceled
    <3>2. QED
      BY <1>3, <1>4, <2>3, <3>1 DEF SetCanceled
  <2>4. CASE EnqueueFails(c)
    BY <1>1, <2>4 DEF EnqueueFails
  <2>5. CASE Enqueue(c) \/ WaitReturns(c)
    BY <2>5 DEF Enqueue, WaitReturns
  <2>6. QED
    BY <1>12, <2>1, <2>2, <2>3, <2>4, <2>5 DEF RequestStep
<1>13. ASSUME NEW p \in Procs, UpdateStep(p)
       PROVE  Next
  BY <1>2, <1>13 DEF UpdateStep
<1>14. CASE (\E t \in Tasks : Reappear(t)) \/ BeginClose
  BY <1>14 DEF Reappear, BeginClose
<1>15. CASE Restart
  BY <1>15 DEF Restart, Next
<1>16. CASE UNCHANGED allVars
  BY <1>16 DEF allVars
<1>17. QED
  BY <1>8, <1>9, <1>10, <1>11, <1>12, <1>13, <1>14, <1>15, <1>16 DEF SvcNext

\* So it keeps the types and the invariant of TaskUpdater.
LEMMA UpdaterKept ==
  ASSUME SvcTypeOK, UpdateInv, Shape, [SvcNext]_allVars
  PROVE  TypeOK' /\ UpdateInv'
<1>1. TypeOK
  BY DEF SvcTypeOK
<1>2. CASE [Next]_vars
  BY <1>1, <1>2, TypeStep, InvStep
<1>3. CASE FaultOnly
  <2>1. TypeOK'
    BY <1>1, <1>3 DEF FaultOnly, TypeOK, StorageTypeOK, storageVars
  <2>2. PushedIsSaved'
    BY <1>3 DEF FaultOnly, storageVars, UpdateInv, PushedIsSaved
  <2>3. QED
    BY <1>1, <1>3, <2>1, <2>2, QuietStep DEF FaultOnly, storageVars
<1>4. QED
  BY <1>2, <1>3, UpdaterSteps

-----------------------------------------------------------------------------
(* Types and shape of the service. *)

WkRec == [pc : WorkerPCs, task : Tasks \cup {NoTask},
          last : TaskStates \cup {"none"}, canceled : BOOLEAN,
          outcome : TaskStates \cup {"none"}, success : BOOLEAN,
          stale : BOOLEAN, updates : 0 .. MaxAgentUpdates]

ClRec == [pc : ClientPCs, task : Tasks \cup {NoTask},
          seen : TaskStates \cup {"none"}, ops : 0 .. MaxOps]

\* The types of the service's own variables.
ServiceTypes ==
  /\ queue \in Seq(Tasks)
  /\ abandoned \in [Tasks -> Nat]
  /\ lock \in [Tasks -> Workers \cup {NoProc}]
  /\ wk \in [Workers -> WkRec]
  /\ cl \in [Clients -> ClRec]
  /\ closing \in BOOLEAN

\* The type invariant, by owner of the variables.
LEMMA ServiceTypesEq == SvcTypeOK <=> TypeOK /\ ServiceTypes
BY DEF SvcTypeOK, ServiceTypes, WkRec, ClRec

\* The values a worker and a client start from have their types.
LEMMA NoJobType ==
  /\ NoJob \in WkRec
  /\ [NoJob EXCEPT !.pc = "stopped"] \in WkRec
  /\ \A t \in Tasks : [NoJob EXCEPT !.pc = "lock", !.task = t] \in WkRec
  /\ \A t \in Tasks : [NoJob EXCEPT !.pc = "check", !.task = t] \in WkRec
  /\ NoRequest \in ClRec
<1>1. 0 \in 0 .. MaxAgentUpdates /\ 0 \in 0 .. MaxOps
  BY ServiceAssumption
<1>2. NoJob \in WkRec
  BY <1>1 DEF NoJob, WkRec, WorkerPCs
<1>3. [NoJob EXCEPT !.pc = "stopped"] \in WkRec
  BY <1>2 DEF WkRec, WorkerPCs
<1>4. ASSUME NEW t \in Tasks
      PROVE  /\ [NoJob EXCEPT !.pc = "lock", !.task = t] \in WkRec
             /\ [NoJob EXCEPT !.pc = "check", !.task = t] \in WkRec
  <2>1. [NoJob EXCEPT !.task = t] \in WkRec
    BY <1>2 DEF WkRec
  <2>2. /\ [NoJob EXCEPT !.pc = "lock", !.task = t] \in WkRec
        /\ [NoJob EXCEPT !.pc = "check", !.task = t] \in WkRec
    BY <1>2, <2>1 DEF WkRec, WorkerPCs
  <2>3. QED
    BY <2>2
<1>5. NoRequest \in ClRec
  BY <1>1 DEF NoRequest, ClRec, ClientPCs
<1>6. QED
  BY <1>2, <1>3, <1>4, <1>5

\* A worker that processes a job has a task.
LEMMA BusyTask ==
  ASSUME ServiceTypes, Shape, NEW w \in Workers, wk[w].pc \notin {"idle", "stopped"}
  PROVE  wk[w].task \in Tasks
BY DEF ServiceTypes, WkRec, Shape, WorkerShape

\* A request that goes on has a task.
LEMMA RequestTask ==
  ASSUME ServiceTypes, Shape, NEW c \in Clients, cl[c].pc # "idle"
  PROVE  cl[c].task \in Tasks
BY DEF ServiceTypes, ClRec, Shape, ClientShape

\* The three ways ProcessJob returns.
JobEnds(w) == LeaveJob(w) \/ CompleteJob(w) \/ FailJob(w)

\* What the end of a job does to the service.
LEMMA JobEndsEffect ==
  ASSUME ServiceTypes, NEW w \in Workers, wk[w].task \in Tasks, JobEnds(w)
  PROVE  /\ Release(w)
         /\ queue' = queue \/ (queue' = Append(queue, wk[w].task) /\ abandoned' = abandoned)
         /\ \/ abandoned' = abandoned
            \/ abandoned' = [abandoned EXCEPT ![wk[w].task] = @ + 1] /\ queue' = queue
         /\ queue' \in Seq(Tasks)
         /\ abandoned' \in [Tasks -> Nat]
         /\ lock' \in [Tasks -> Workers \cup {NoProc}]
         /\ wk' \in [Workers -> WkRec]
         /\ cl' = cl /\ closing' = closing
         /\ wk'[w].task = NoTask /\ wk'[w].pc \in {"idle", "stopped"}
         /\ \A x \in Workers : x # w => wk'[x] = wk[x]
<1>1. Release(w)
  BY DEF JobEnds, LeaveJob, CompleteJob, FailJob, QueueCallFails
<1>2. /\ queue' = queue \/ (queue' = Append(queue, wk[w].task) /\ abandoned' = abandoned)
      /\ \/ abandoned' = abandoned
         \/ abandoned' = [abandoned EXCEPT ![wk[w].task] = @ + 1] /\ queue' = queue
  BY DEF JobEnds, LeaveJob, CompleteJob, FailJob, QueueCallFails
<1>3. Append(queue, wk[w].task) \in Seq(Tasks)
  BY DEF ServiceTypes
<1>4. [abandoned EXCEPT ![wk[w].task] = @ + 1] \in [Tasks -> Nat]
  BY DEF ServiceTypes
<1>5. lock' \in [Tasks -> Workers \cup {NoProc}]
  BY <1>1 DEF Release, ServiceTypes
<1>6. wk' \in [Workers -> WkRec]
  BY <1>1, NoJobType DEF Release, ServiceTypes
<1>7. wk'[w].task = NoTask /\ wk'[w].pc \in {"idle", "stopped"}
  BY <1>1 DEF Release, ServiceTypes, NoJob
<1>8. cl' = cl /\ closing' = closing /\ \A x \in Workers : x # w => wk'[x] = wk[x]
  BY <1>1 DEF Release, ServiceTypes
<1>9. QED
  BY <1>1, <1>2, <1>3, <1>4, <1>5, <1>6, <1>7, <1>8 DEF ServiceTypes

\* A worker goes on with its job, which it keeps as it is.
Goes(w) ==
  /\ wk'[w] \in WkRec
  /\ wk' = [wk EXCEPT ![w] = wk'[w]]
  /\ wk'[w].task = wk[w].task /\ wk'[w].stale = wk[w].stale
  /\ wk[w].pc \notin {"idle", "stopped"} /\ wk'[w].pc \notin {"idle", "stopped"}
  /\ UNCHANGED <<queue, abandoned, cl, closing>>

\* The service keeps its types and shape when a worker goes on.
LEMMA GoesKeeps ==
  ASSUME ServiceTypes, Shape, NEW w \in Workers, Goes(w),
         lock' \in [Tasks -> Workers \cup {NoProc}],
         wk'[w].pc \in {"settle", "settling"} => wk'[w].outcome \in UpdateStates
  PROVE  ServiceTypes' /\ Shape'
<1>1. ServiceTypes'
  BY DEF ServiceTypes, Goes
<1>2. \A x \in Workers : x # w => wk'[x] = wk[x]
  BY DEF ServiceTypes, Goes
<1>3. WorkerShape(w)'
  BY DEF Shape, WorkerShape, Goes
<1>4. \A x \in Workers : WorkerShape(x)'
  BY <1>2, <1>3 DEF Shape, WorkerShape
<1>5. \A c \in Clients : ClientShape(c)'
  BY DEF Shape, ClientShape, Goes
<1>6. QED
  BY <1>1, <1>4, <1>5 DEF Shape

\* Every step of a worker takes a job, goes on with it, ends it or stops the worker.
LEMMA WorkerForms ==
  ASSUME TypeOK, ServiceTypes, Shape, NEW w \in Workers,
         AgentStep(w) \/ JobStep(w) \/ Monitor(w)
  PROVE  \/ Dequeue(w)
         \/ JobEnds(w) /\ wk[w].pc \notin {"idle", "stopped"}
         \/ Goes(w) /\ ((lock' = lock /\ wk[w].pc # "lock") \/ AcquireLock(w))
                    /\ (wk'[w].pc \in {"settle", "settling"} => wk'[w].outcome \in UpdateStates)
         \/ WorkerStops(w)
<1>1. wk \in [Workers -> WkRec] /\ wk[w] \in WkRec
  BY DEF ServiceTypes
<1>2. ASSUME NEW e \in AgentEvents, AgentUpdate(w, e)
      PROVE  Goes(w) /\ lock' = lock /\ wk[w].pc = "running" /\ wk'[w].pc = "updating"
  BY <1>1, <1>2, ServiceAssumption DEF AgentUpdate, Goes, WkRec, WorkerPCs
<1>3. CASE AgentReturnsCanceled(w)
  BY <1>1, <1>3 DEF AgentReturnsCanceled, Goes, WkRec, WorkerPCs
<1>4. ASSUME NEW o \in UpdateStates, NEW b \in BOOLEAN, wk[w].pc = "running", Settle(w, o, b)
      PROVE  Goes(w) /\ lock' = lock /\ wk'[w].outcome \in UpdateStates
  BY <1>1, <1>4, UpdaterAssumption DEF Settle, Goes, WkRec, WorkerPCs
<1>5. CASE AgentSucceeds(w) \/ AgentFails(w) \/ \E o \in StatusErrors : AgentReturnsStatusError(w, o)
  BY <1>4, <1>5, ServiceAssumption
     DEF AgentSucceeds, AgentFails, AgentReturnsStatusError, JobEnds
<1>6. CASE GiveUpLock(w) \/ CheckFails(w) \/ Abort(w) \/ Settled(w)
  BY <1>6 DEF GiveUpLock, CheckFails, Abort, Settled, JobEnds
<1>7. CASE AcquireLock(w)
  BY <1>1, <1>7 DEF AcquireLock, Goes, WkRec, WorkerPCs
<1>8. CASE CheckTask(w)
  <2>1. CASE FailJob(w) \/ LeaveJob(w)
    BY <1>8, <2>1 DEF CheckTask, JobEnds
  <2>2. CASE /\ wk' = [wk EXCEPT ![w].pc = "start"]
             /\ UNCHANGED <<queue, abandoned, lock, cl, closing>>
    BY <1>1, <1>8, <2>2 DEF CheckTask, Goes, WkRec, WorkerPCs
  <2>3. QED
    BY <1>8, <2>1, <2>2 DEF CheckTask
<1>9. CASE StartWorking(w)
  BY <1>1, <1>9 DEF StartWorking, Goes, WkRec, WorkerPCs
<1>10. CASE Started(w)
  <2>1. CASE upd[w].ok
    BY <1>1, <1>10, <2>1 DEF Started, Goes, WkRec, WorkerPCs
  <2>2. CASE ~upd[w].ok
    BY <1>10, <2>2 DEF Started, JobEnds
  <2>3. QED
    BY <2>1, <2>2
<1>11. CASE AgentUpdated(w)
  <2>1. upd[w] \in Update
    BY ServiceAssumption DEF TypeOK
  <2>2. upd[w].event.kind = "status" => upd[w].event.val \in TaskStates
    BY <2>1 DEF Update, Event, NoEvent
  <2>3. Tracked(wk[w].last, upd[w]) \in TaskStates \cup {"none"}
    BY <1>1, <2>2 DEF Tracked, WkRec
  <2>4. QED
    BY <1>1, <1>11, <2>3 DEF AgentUpdated, Goes, WkRec, WorkerPCs
<1>12. CASE SetOutcome(w)
  BY <1>1, <1>12 DEF SetOutcome, Goes, WkRec, WorkerPCs, Shape, WorkerShape
<1>13. CASE Monitor(w)
  <2>1. /\ wk[w].pc \in {"running", "updating"}
        /\ wk' = [wk EXCEPT ![w].canceled = TRUE]
        /\ UNCHANGED <<queue, abandoned, lock, cl, closing>>
    BY <1>13 DEF Monitor, MonitorCancels, HeartbeatFails
  <2>2. [wk[w] EXCEPT !.canceled = TRUE] \in WkRec
    BY <1>1 DEF WkRec
  <2>3. wk'[w] = [wk[w] EXCEPT !.canceled = TRUE]
    BY <1>1, <2>1
  <2>4. wk'[w].pc = wk[w].pc /\ wk'[w].task = wk[w].task /\ wk'[w].stale = wk[w].stale
    BY <1>1, <2>3 DEF WkRec
  <2>5. QED
    BY <1>1, <2>1, <2>2, <2>3, <2>4 DEF Goes
<1>14. QED
  BY <1>2, <1>3, <1>5, <1>6, <1>7, <1>8, <1>9, <1>10, <1>11, <1>12, <1>13 DEF AgentStep, JobStep

\* A client begins its request, goes on with it or answers it, and may enqueue its task.
Asks(c) ==
  /\ cl'[c] \in ClRec
  /\ cl' = [cl EXCEPT ![c] = cl'[c]]
  /\ ClientShape(c)'
  /\ \/ queue' = queue
     \/ queue' = Append(queue, cl[c].task) /\ cl[c].pc = "enqueue"
  /\ UNCHANGED <<abandoned, lock, wk, closing>>

\* Every step of a client is one of these.
LEMMA ClientForms ==
  ASSUME TypeOK, ServiceTypes, Shape, NEW c \in Clients, Request(c) \/ RequestStep(c)
  PROVE  Asks(c)
<1>1. cl \in [Clients -> ClRec] /\ cl[c] \in ClRec
  BY DEF ServiceTypes
<1>2. ASSUME Respond(c)
      PROVE  cl'[c] \in ClRec /\ cl' = [cl EXCEPT ![c] = cl'[c]] /\ ClientShape(c)'
  <2>1. PICK n \in 0 .. MaxOps : n = cl[c].ops
    BY <1>1 DEF ClRec
  <2>2. 0 + n = n
    BY <2>1
  <2>3. cl' = [cl EXCEPT ![c] = [NoRequest EXCEPT !.ops = n]]
    BY <1>2, <2>1, <2>2 DEF Respond, NoRequest
  <2>4. [NoRequest EXCEPT !.ops = n] \in ClRec
    BY <2>1, NoJobType DEF ClRec
  <2>5. cl'[c].pc = "idle" /\ cl'[c].task = NoTask
    BY <1>1, <2>3 DEF NoRequest
  <2>6. QED
    BY <1>1, <2>3, <2>4, <2>5 DEF ClientShape
<1>3. ASSUME NEW pc \in ClientPCs \ {"idle"}, cl[c].pc # "idle", cl' = [cl EXCEPT ![c].pc = pc]
      PROVE  cl'[c] \in ClRec /\ cl' = [cl EXCEPT ![c] = cl'[c]] /\ ClientShape(c)'
  <2>1. cl[c].task # NoTask
    BY <1>3 DEF Shape, ClientShape
  <2>2. cl'[c] = [cl[c] EXCEPT !.pc = pc]
    BY <1>1, <1>3
  <2>3. [cl[c] EXCEPT !.pc = pc] \in ClRec
    BY <1>1, <1>3 DEF ClRec
  <2>4. cl'[c].pc # "idle" /\ cl'[c].task # NoTask
    BY <1>1, <1>3, <2>1, <2>2 DEF ClRec
  <2>5. QED
    BY <1>1, <1>3, <2>2, <2>3, <2>4 DEF ClientShape
<1>4. ASSUME NEW op, Begin(c, op), NEW pc \in ClientPCs \ {"idle"}, NEW t \in Tasks, NEW s \in TaskStates,
             cl' = [cl EXCEPT ![c] = [pc |-> pc, task |-> t, seen |-> s, ops |-> cl[c].ops + 1]]
      PROVE  cl'[c] \in ClRec /\ cl' = [cl EXCEPT ![c] = cl'[c]] /\ ClientShape(c)'
  <2>1. cl[c].ops \in 0 .. MaxOps
    BY <1>1 DEF ClRec
  <2>2. cl[c].ops + 1 \in 0 .. MaxOps
    BY <1>4, <2>1, ServiceAssumption DEF Begin
  <2>3. cl'[c] = [pc |-> pc, task |-> t, seen |-> s, ops |-> cl[c].ops + 1]
    BY <1>1, <1>4
  <2>4. cl'[c] \in ClRec
    BY <1>4, <2>2, <2>3 DEF ClRec
  <2>5. QED
    BY <1>1, <1>4, <2>3, <2>4, UpdaterAssumption DEF ClientShape
<1>5. ASSUME NEW t \in Tasks
      PROVE  StateOf(t) \in TaskStates
  BY DEF TypeOK, StorageTypeOK, StateOf, SnapshotFile, TaskValue
<1>6. CASE Request(c)
  <2>1. ASSUME NEW t \in Tasks, NEW m \in Messages, SendNewMessage(c, t, m)
        PROVE  Asks(c)
    BY <1>4, <2>1 DEF SendNewMessage, Asks, ClientPCs, TaskStates
  <2>2. ASSUME NEW t \in Tasks, SendFollowUp(c, t)
        PROVE  Asks(c)
    BY <1>4, <1>5, <2>2 DEF SendFollowUp, Asks, ClientPCs
  <2>3. ASSUME NEW t \in Tasks, CancelTask(c, t)
        PROVE  Asks(c)
    BY <1>4, <1>5, <2>3 DEF CancelTask, Asks, ClientPCs
  <2>4. QED
    BY <1>6, <2>1, <2>2, <2>3 DEF Request
<1>7. CASE RequestStep(c)
  <2>1. CASE Created(c) \/ Added(c) \/ EnqueueFails(c) \/ Enqueue(c)
    BY <1>2, <1>3, <2>1 DEF Created, Added, EnqueueFails, Enqueue, Asks, ClientPCs
  <2>2. CASE WaitReturns(c) \/ CancelReturns(c)
    BY <1>2, <2>2 DEF WaitReturns, CancelReturns, Asks
  <2>3. CASE SetCanceled(c) \/ \E m \in Messages : AddMessage(c, m)
    BY <1>3, <2>3 DEF SetCanceled, AddMessage, Asks, ClientPCs
  <2>4. QED
    BY <1>7, <2>1, <2>2, <2>3 DEF RequestStep
<1>8. QED
  BY <1>6, <1>7

\* A job that is taken out of the queue is a task, and the others stay.
LEMMA WithoutType ==
  ASSUME NEW q \in Seq(Tasks), NEW i \in DOMAIN q
  PROVE  q[i] \in Tasks /\ Without(q, i) \in Seq(Tasks)
<1>1. q[i] \in Tasks /\ i \in 1 .. Len(q) /\ Len(q) \in Nat
  OBVIOUS
<1>2. SubSeq(q, 1, i - 1) \in Seq(Tasks)
  BY <1>1
<1>3. SubSeq(q, i + 1, Len(q)) \in Seq(Tasks)
  BY <1>1
<1>4. QED
  BY <1>1, <1>2, <1>3 DEF Without

\* The jobs of a crashed process are counted.
LEMMA InFlightCount ==
  ASSUME NEW t
  PROVE  Cardinality(InFlight(t)) \in Nat /\ (InFlight(t) # {} => Cardinality(InFlight(t)) > 0)
<1>1. InFlight(t) \subseteq Workers
  BY DEF InFlight
<1>2. IsFiniteSet(InFlight(t))
  BY <1>1, ServiceAssumption, FS_Subset
<1>3. QED
  BY <1>2, FS_CardinalityType, FS_EmptySet

\* A worker that takes a job.
LEMMA DequeueForm ==
  ASSUME ServiceTypes, NEW w \in Workers, Dequeue(w)
  PROVE  \E i \in DOMAIN queue :
           /\ queue[i] \in Tasks
           /\ queue' = Without(queue, i) /\ queue' \in Seq(Tasks)
           /\ wk' \in [Workers -> WkRec]
           /\ \A x \in Workers : x # w => wk'[x] = wk[x]
           /\ wk'[w] = [NoJob EXCEPT !.pc = IF UseLocker THEN "lock" ELSE "check", !.task = queue[i]]
           /\ wk'[w].task = queue[i] /\ wk'[w].last = "none" /\ ~wk'[w].stale
           /\ wk'[w].pc = IF UseLocker THEN "lock" ELSE "check"
<1>1. PICK i \in DOMAIN queue :
        /\ queue' = Without(queue, i)
        /\ wk' = [wk EXCEPT ![w] = [NoJob EXCEPT !.pc = IF UseLocker THEN "lock" ELSE "check",
                                                 !.task = queue[i]]]
  BY DEF Dequeue
<1>2. queue[i] \in Tasks /\ queue' \in Seq(Tasks)
  BY <1>1, WithoutType DEF ServiceTypes
<1> DEFINE job == [NoJob EXCEPT !.pc = IF UseLocker THEN "lock" ELSE "check", !.task = queue[i]]
<1>3. job \in WkRec
  BY <1>2, NoJobType
<1>4. /\ job.task = queue[i] /\ job.last = "none" /\ ~job.stale
      /\ job.pc = IF UseLocker THEN "lock" ELSE "check"
  BY DEF NoJob
<1>5. wk' = [wk EXCEPT ![w] = job]
  BY <1>1
<1> HIDE DEF job
<1>6. wk' \in [Workers -> WkRec] /\ wk'[w] = job /\ \A x \in Workers : x # w => wk'[x] = wk[x]
  BY <1>3, <1>5 DEF ServiceTypes
<1>7. QED
  BY <1>1, <1>2, <1>4, <1>6 DEF job

\* The service's own types and its shape are kept by every step.
LEMMA ShapeStep ==
  ASSUME TypeOK, ServiceTypes, Shape, [SvcNext]_allVars
  PROVE  ServiceTypes' /\ Shape'
<1>1. ASSUME NEW w \in Workers, Dequeue(w)
      PROVE  ServiceTypes' /\ Shape'
  <2>1. PICK i \in DOMAIN queue :
           /\ queue[i] \in Tasks
           /\ queue' \in Seq(Tasks)
           /\ wk' \in [Workers -> WkRec]
           /\ \A x \in Workers : x # w => wk'[x] = wk[x]
           /\ wk'[w].task = queue[i]
           /\ wk'[w].pc = IF UseLocker THEN "lock" ELSE "check"
    BY <1>1, DequeueForm
  <2>2. UNCHANGED <<abandoned, lock, cl, closing>>
    BY <1>1 DEF Dequeue
  <2>3. WorkerShape(w)'
    BY <2>1, UpdaterAssumption DEF WorkerShape
  <2>4. QED
    BY <2>1, <2>2, <2>3 DEF ServiceTypes, Shape, WorkerShape, ClientShape
<1>2. ASSUME NEW w \in Workers, JobEnds(w), wk[w].pc \notin {"idle", "stopped"}
      PROVE  ServiceTypes' /\ Shape'
  <2>1. wk[w].task \in Tasks
    BY <1>2, BusyTask
  <2>2. /\ queue' \in Seq(Tasks)
        /\ abandoned' \in [Tasks -> Nat]
        /\ lock' \in [Tasks -> Workers \cup {NoProc}]
        /\ wk' \in [Workers -> WkRec]
        /\ cl' = cl /\ closing' = closing
        /\ wk'[w].task = NoTask /\ wk'[w].pc \in {"idle", "stopped"}
        /\ \A x \in Workers : x # w => wk'[x] = wk[x]
    BY <1>2, <2>1, JobEndsEffect
  <2>3. WorkerShape(w)'
    BY <2>2 DEF WorkerShape
  <2>4. QED
    BY <2>2, <2>3 DEF ServiceTypes, Shape, WorkerShape, ClientShape
<1>3. ASSUME NEW w \in Workers, Goes(w), lock' = lock \/ AcquireLock(w),
             wk'[w].pc \in {"settle", "settling"} => wk'[w].outcome \in UpdateStates
      PROVE  ServiceTypes' /\ Shape'
  <2>1. wk[w].task \in Tasks
    BY <1>3, BusyTask DEF Goes
  <2>2. lock' \in [Tasks -> Workers \cup {NoProc}]
    BY <1>3, <2>1 DEF AcquireLock, ServiceTypes
  <2>3. QED
    BY <1>3, <2>2, GoesKeeps
<1>4. ASSUME NEW w \in Workers, WorkerStops(w)
      PROVE  ServiceTypes' /\ Shape'
  <2>1. /\ wk' = [wk EXCEPT ![w].pc = "stopped"] /\ wk[w].pc = "idle"
        /\ UNCHANGED <<queue, abandoned, lock, cl, closing>>
    BY <1>4 DEF WorkerStops
  <2>2. [wk[w] EXCEPT !.pc = "stopped"] \in WkRec
    BY DEF ServiceTypes, WkRec, WorkerPCs
  <2>3. wk'[w] = [wk[w] EXCEPT !.pc = "stopped"]
    BY <2>1 DEF ServiceTypes
  <2>4. wk'[w].pc = "stopped" /\ wk'[w].task = NoTask
    BY <2>1, <2>3 DEF ServiceTypes, WkRec, Shape, WorkerShape
  <2>5. wk' \in [Workers -> WkRec] /\ \A x \in Workers : x # w => wk'[x] = wk[x]
    BY <2>1, <2>2, <2>3 DEF ServiceTypes
  <2>6. QED
    BY <2>1, <2>4, <2>5 DEF ServiceTypes, Shape, WorkerShape, ClientShape
<1>5. ASSUME NEW w \in Workers, Redeliver(w)
      PROVE  ServiceTypes' /\ Shape'
  <2>1. /\ wk' = [wk EXCEPT ![w].stale = TRUE] /\ wk[w].pc \notin {"idle", "stopped"}
        /\ queue' = Append(queue, wk[w].task)
        /\ UNCHANGED <<abandoned, lock, cl, closing>>
    BY <1>5 DEF Redeliver
  <2>2. [wk[w] EXCEPT !.stale = TRUE] \in WkRec
    BY DEF ServiceTypes, WkRec
  <2>3. wk'[w] = [wk[w] EXCEPT !.stale = TRUE]
    BY <2>1 DEF ServiceTypes
  <2>4. wk'[w].pc = wk[w].pc /\ wk'[w].task = wk[w].task /\ wk'[w].outcome = wk[w].outcome
    BY <2>3 DEF ServiceTypes, WkRec
  <2>5. wk' \in [Workers -> WkRec] /\ \A x \in Workers : x # w => wk'[x] = wk[x]
    BY <2>1, <2>2, <2>3 DEF ServiceTypes
  <2>6. wk[w].task \in Tasks
    BY <2>1, BusyTask
  <2>7. Append(queue, wk[w].task) \in Seq(Tasks)
    BY <2>6 DEF ServiceTypes
  <2>8. QED
    BY <2>1, <2>4, <2>5, <2>7 DEF ServiceTypes, Shape, WorkerShape, ClientShape
<1>6. ASSUME NEW c \in Clients, Asks(c)
      PROVE  ServiceTypes' /\ Shape'
  <2>1. queue' \in Seq(Tasks)
    <3>1. CASE queue' = queue
      BY <3>1 DEF ServiceTypes
    <3>2. CASE queue' = Append(queue, cl[c].task) /\ cl[c].pc = "enqueue"
      <4>1. cl[c].task \in Tasks
        BY <3>2, RequestTask
      <4>2. QED
        BY <3>2, <4>1 DEF ServiceTypes
    <3>3. QED
      BY <1>6, <3>1, <3>2 DEF Asks
  <2>2. cl' \in [Clients -> ClRec] /\ \A x \in Clients : x # c => cl'[x] = cl[x]
    BY <1>6 DEF Asks, ServiceTypes
  <2>3. QED
    BY <1>6, <2>1, <2>2 DEF Asks, ServiceTypes, Shape, WorkerShape, ClientShape
<1>7. ASSUME NEW t \in Tasks, Reappear(t)
      PROVE  ServiceTypes' /\ Shape'
  <2>1. abandoned' \in [Tasks -> Nat] /\ queue' \in Seq(Tasks)
    BY <1>7 DEF Reappear, ServiceTypes
  <2>2. QED
    BY <1>7, <2>1 DEF Reappear, ServiceTypes, Shape, WorkerShape, ClientShape
<1>8. CASE BeginClose
  BY <1>8 DEF BeginClose, ServiceTypes, Shape, WorkerShape, ClientShape
<1>9. CASE Restart
  <2>1. queue' \in Seq(Tasks)
    <3>1. <<>> \in Seq(Tasks)
      OBVIOUS
    <3>2. QED
      BY <1>9, <3>1 DEF Restart, ServiceTypes
  <2>2. abandoned' \in [Tasks -> Nat]
    <3>1. \A t \in Tasks : abandoned[t] + Cardinality(InFlight(t)) \in Nat
      BY InFlightCount DEF ServiceTypes
    <3>2. QED
      BY <1>9, <3>1 DEF Restart
  <2>3. wk' \in [Workers -> WkRec] /\ \A w \in Workers : wk'[w].pc = "idle" /\ wk'[w].task = NoTask
    <3>1. NoJob \in WkRec /\ NoJob.pc = "idle" /\ NoJob.task = NoTask
      BY NoJobType DEF NoJob
    <3>2. wk' = [w \in Workers |-> NoJob]
      BY <1>9 DEF Restart
    <3>3. QED
      BY <3>1, <3>2
  <2>4. cl' \in [Clients -> ClRec] /\ \A c \in Clients : cl'[c].pc = "idle" /\ cl'[c].task = NoTask
    <3>1. ASSUME NEW c \in Clients
          PROVE  /\ [NoRequest EXCEPT !.ops = cl[c].ops] \in ClRec
                 /\ [NoRequest EXCEPT !.ops = cl[c].ops].pc = "idle"
                 /\ [NoRequest EXCEPT !.ops = cl[c].ops].task = NoTask
      <4>1. cl[c].ops \in 0 .. MaxOps
        BY DEF ServiceTypes, ClRec
      <4>2. [NoRequest EXCEPT !.ops = cl[c].ops] \in ClRec
        BY <4>1, NoJobType DEF ClRec
      <4>3. QED
        BY <4>2 DEF NoRequest
    <3>2. cl' = [c \in Clients |-> [NoRequest EXCEPT !.ops = cl[c].ops]]
      BY <1>9 DEF Restart
    <3>3. QED
      BY <3>1, <3>2
  <2>5. QED
    BY <1>9, <2>1, <2>2, <2>3, <2>4 DEF Restart, ServiceTypes, Shape, WorkerShape, ClientShape
<1>10. CASE UNCHANGED serviceVars
  BY <1>10 DEF serviceVars, ServiceTypes, Shape, WorkerShape, ClientShape
<1>11. ASSUME NEW w \in Workers, AgentStep(w) \/ JobStep(w) \/ Monitor(w)
       PROVE  ServiceTypes' /\ Shape'
  BY <1>1, <1>2, <1>3, <1>4, <1>11, WorkerForms
<1>12. ASSUME NEW c \in Clients, Request(c) \/ RequestStep(c)
       PROVE  ServiceTypes' /\ Shape'
  BY <1>6, <1>12, ClientForms
<1>13. QED
  BY <1>5, <1>7, <1>8, <1>9, <1>10, <1>11, <1>12 DEF SvcNext, UpdateStep, allVars

\* The first layer of the invariant is inductive.
LEMMA BaseStep ==
  ASSUME BaseInv, [SvcNext]_allVars
  PROVE  BaseInv'
<1>1. TypeOK' /\ UpdateInv'
  BY UpdaterKept DEF BaseInv
<1>2. ServiceTypes' /\ Shape'
  BY ServiceTypesEq, ShapeStep DEF BaseInv
<1>3. SvcTypeOK' <=> TypeOK' /\ ServiceTypes'
  BY DEF SvcTypeOK, ServiceTypes, WkRec, ClRec
<1>4. QED
  BY <1>1, <1>2, <1>3 DEF BaseInv

\* The service starts in the first layer of the invariant.
LEMMA BaseInit ==
  ASSUME SvcInit
  PROVE  BaseInv
<1>1. TypeOK /\ UpdateInv
  BY InitInv DEF SvcInit
<1>2. ServiceTypes
  <2>1. <<>> \in Seq(Tasks)
    OBVIOUS
  <2>2. QED
    BY <2>1, NoJobType DEF SvcInit, ServiceTypes
<1>3. Shape
  BY DEF SvcInit, Shape, WorkerShape, ClientShape, NoJob, NoRequest
<1>4. QED
  BY <1>1, <1>2, <1>3, ServiceTypesEq DEF BaseInv

(***************************************************************************)
(* The service, its workers and its clients keep the types of all          *)
(* variables and the invariant of the update protocol.                     *)
(***************************************************************************)
THEOREM ServiceInvariant == SvcSpec => []BaseInv
<1>1. SvcInit => BaseInv
  BY BaseInit
<1>2. BaseInv /\ [SvcNext]_allVars => BaseInv'
  BY BaseStep
<1>3. QED
  BY <1>1, <1>2, PTL DEF SvcSpec

\* Every variable of the service keeps its type, for any number of tasks, workers and clients.
THEOREM ServiceTypeCorrect == SvcSpec => []SvcTypeOK
<1>1. BaseInv => SvcTypeOK
  BY DEF BaseInv
<1>2. QED
  BY <1>1, ServiceInvariant, PTL

(***************************************************************************)
(* Whatever workers, agents, clients and crashes do, the version check of  *)
(* SaveTask never fires in the service, snapshots stay in step with their  *)
(* streams and no endpoint is told of an event that was not saved.         *)
(***************************************************************************)
THEOREM ServiceUpdatesSafe == SvcSpec => [](SaveNeverConflicts /\ SnapshotInStep /\ PushedIsSaved)
<1>1. BaseInv => SaveNeverConflicts /\ SnapshotInStep /\ PushedIsSaved
  <2>1. BaseInv => TypeOK /\ UpdateInv
    BY DEF BaseInv, SvcTypeOK
  <2>2. UpdateInv => PushedIsSaved
    BY DEF UpdateInv
  <2>3. QED
    BY <2>1, <2>2, SavesSafely, KeepsInStep
<1>2. QED
  BY <1>1, ServiceInvariant, PTL

\* The service never takes a cancellation back and never writes a task that is out of step.
THEOREM ServiceStepsSafe == SvcSpec => CanceledIsFinal /\ WedgedForever
<1>1. ASSUME BaseInv, [SvcNext]_allVars, NEW t \in Tasks
      PROVE  /\ tasks[t].file = "intact" /\ tasks[t].task.state = "canceled" =>
                  tasks'[t].file = "torn" \/ tasks'[t].task.state = "canceled"
             /\ Wedged(t) => tasks'[t] = tasks[t] /\ streams'[t] = streams[t]
  <2>1. TypeOK /\ UpdateInv
    BY <1>1 DEF BaseInv, SvcTypeOK
  <2>2. CASE [Next]_vars
    BY <2>1, <2>2, CanceledKept, WedgedKept
  <2>3. CASE FaultOnly
    BY <2>3 DEF FaultOnly, storageVars
  <2>4. QED
    BY <1>1, <2>2, <2>3, UpdaterSteps DEF BaseInv
<1>2. BaseInv /\ [SvcNext]_allVars =>
        /\ [\A t \in Tasks :
              tasks[t].file = "intact" /\ tasks[t].task.state = "canceled" =>
                tasks'[t].file = "torn" \/ tasks'[t].task.state = "canceled"]_vars
        /\ [\A t \in Tasks : Wedged(t) => tasks'[t] = tasks[t] /\ streams'[t] = streams[t]]_vars
  BY <1>1
<1>3. QED
  BY <1>2, ServiceInvariant, PTL DEF SvcSpec, CanceledIsFinal, WedgedForever

(***************************************************************************)
(* The whole service implements the ledger: its event streams grow by one  *)
(* event at a time, are lost only as a whole and take no status after a    *)
(* cancellation.                                                           *)
(***************************************************************************)
THEOREM ServiceLedger == SvcSpec => ImplementsLedger
<1>1. SvcInit => Ledger!Init
  BY DEF SvcInit, Init, StorageInit, NoStream, Ledger!Init
<1>2. BaseInv /\ [SvcNext]_allVars =>
        [Ledger!Next]_<<[t \in Tasks |-> streams[t].events], {t \in Tasks : streams[t].file = "torn"}>>
  <2> SUFFICES ASSUME BaseInv, [SvcNext]_allVars
               PROVE  \/ Ledger!Next
                      \/ UNCHANGED <<[t \in Tasks |-> streams[t].events],
                                     {t \in Tasks : streams[t].file = "torn"}>>
    OBVIOUS
  <2>1. TypeOK /\ UpdateInv
    BY DEF BaseInv, SvcTypeOK
  <2>2. CASE [Next]_vars
    BY <2>1, <2>2, LedgerStep
  <2>3. CASE FaultOnly
    BY <2>3 DEF FaultOnly, storageVars
  <2>4. QED
    BY <2>2, <2>3, UpdaterSteps DEF BaseInv
<1>3. QED
  BY <1>1, <1>2, ServiceInvariant, PTL DEF SvcSpec, ImplementsLedger, Ledger!Spec

(***************************************************************************)
(* Event sourcing in the whole service: however requests, jobs, retries    *)
(* and restarts interleave, a readable snapshot is the replay of its       *)
(* stream up to its version.                                               *)
(***************************************************************************)
THEOREM ServiceReplays == SvcSpec => []SnapshotReplays
<1>1. SvcInit => BaseInv /\ ReplayInv
  BY BaseInit, ReplayInit DEF SvcInit
<1>2. BaseInv /\ ReplayInv /\ [SvcNext]_allVars => BaseInv' /\ ReplayInv'
  <2> SUFFICES ASSUME BaseInv, ReplayInv, [SvcNext]_allVars
               PROVE  ReplayInv'
    BY BaseStep
  <2>1. TypeOK /\ UpdateInv
    BY DEF BaseInv, SvcTypeOK
  <2>2. CASE [Next]_vars
    BY <2>1, <2>2, ReplayStep
  <2>3. CASE FaultOnly
    BY <2>3 DEF FaultOnly, storageVars, ReplayInv, SnapshotReplays
  <2>4. QED
    BY <2>2, <2>3, UpdaterSteps DEF BaseInv
<1>3. ReplayInv => SnapshotReplays
  BY DEF ReplayInv
<1>4. QED
  BY <1>1, <1>2, <1>3, PTL DEF SvcSpec

-----------------------------------------------------------------------------
(* Who updates what. *)

\* How an update begins.
LEMMA BeginForm ==
  ASSUME TypeOK, NEW p \in Procs, NEW t \in Tasks, NEW e \in Updates, BeginUpdate(p, t, e)
  PROVE  /\ upd[p].phase = "idle"
         /\ upd'[p].task = t /\ upd'[p].event = e
         /\ upd'[p].phase \in {"append", "done"} /\ ~Stored(p)'
         /\ \A q \in Procs : q # p => upd'[q] = upd[q]
         /\ UNCHANGED <<tasks, streams>>
<1>1. upd \in [Procs -> Update]
  BY DEF TypeOK
<1>2. /\ upd[p].phase = "idle" /\ UNCHANGED <<tasks, streams>>
      /\ \/ upd' = [upd EXCEPT ![p] = [IdleUpdate EXCEPT !.phase = "append", !.task = t, !.event = e,
                                        !.base = tasks[t].task, !.version = tasks[t].version]]
         \/ upd' = [upd EXCEPT ![p] = [IdleUpdate EXCEPT !.phase = "done", !.task = t, !.event = e]]
  BY DEF BeginUpdate, ReadTask, ReadFails, storageVars
<1>3. \A q \in Procs : q # p => upd'[q] = upd[q]
  BY <1>1, <1>2
<1>4. CASE upd' = [upd EXCEPT ![p] = [IdleUpdate EXCEPT !.phase = "append", !.task = t, !.event = e,
                                        !.base = tasks[t].task, !.version = tasks[t].version]]
  BY <1>1, <1>2, <1>3, <1>4 DEF IdleUpdate, Stored
<1>5. CASE upd' = [upd EXCEPT ![p] = [IdleUpdate EXCEPT !.phase = "done", !.task = t, !.event = e]]
  BY <1>1, <1>2, <1>3, <1>5 DEF IdleUpdate, Stored
<1>6. QED
  BY <1>2, <1>4, <1>5

\* How the creation of a task begins.
LEMMA CreateForm ==
  ASSUME TypeOK, NEW p \in Procs, NEW t \in Tasks, NEW m \in Messages, BeginCreate(p, t, m)
  PROVE  /\ upd[p].phase = "idle"
         /\ upd'[p].task = t /\ upd'[p].event.kind = "task" /\ upd'[p].phase = "append"
         /\ \A q \in Procs : q # p => upd'[q] = upd[q]
         /\ UNCHANGED <<tasks, streams>>
BY DEF BeginCreate, IdleUpdate, storageVars, TypeOK

\* How an update ends.
LEMMA FinishForm ==
  ASSUME TypeOK, NEW p \in Procs, Finish(p)
  PROVE  /\ upd[p].phase = "done" /\ upd'[p].phase = "idle"
         /\ \A q \in Procs : q # p => upd'[q] = upd[q]
         /\ UNCHANGED <<tasks, streams>>
BY DEF Finish, IdleUpdate, storageVars, TypeOK

\* A running update stays the update of its task with its event; once stored it stays stored.
LEMMA AdvanceForm ==
  ASSUME TypeOK, UpdateInv, NEW p \in Procs, Progress(p) \/ Failure(p)
  PROVE  /\ upd[p].phase \in {"append", "save", "list", "notify"}
         /\ upd'[p].phase # "idle"
         /\ upd'[p].task = upd[p].task /\ upd'[p].event = upd[p].event
         /\ \A q \in Procs : q # p => upd'[q] = upd[q]
         /\ Stored(p) => Stored(p)'
         /\ UNCHANGED tasks /\ Stored(p)' => Stored(p)
         /\ \/ UNCHANGED tasks
            \/ TearsTask(p) /\ ~Stored(p)'
            \/ Saves(p) /\ Stored(p)'
<1>1. upd \in [Procs -> Update] /\ upd[p] \in Update
  BY DEF TypeOK
<1>2. CASE AppendEvents(p) \/ AppendFails(p)
  <2>1. /\ upd[p].phase = "append" /\ UNCHANGED tasks
        /\ \/ upd' = [upd EXCEPT ![p].phase = "save"]
           \/ upd' = [upd EXCEPT ![p].phase = "done", ![p].ok = FALSE]
    BY <1>2 DEF AppendEvents, AppendFails, Return
  <2>2. QED
    BY <1>1, <2>1 DEF Update, Stored
<1>3. CASE SaveFails(p)
  <2>1. /\ upd[p].phase = "save" /\ (UNCHANGED tasks \/ TearsTask(p))
        /\ upd' = [upd EXCEPT ![p].phase = "done", ![p].ok = FALSE]
    BY <1>3 DEF SaveFails, TasksAfterFailedSave, TearsTask, Return
  <2>2. QED
    BY <1>1, <2>1 DEF Update, Stored
<1>4. CASE SaveSnapshot(p)
  <2>1. /\ upd[p].phase = "save"
        /\ SaveAccepts(upd[p].task, upd[p].version)
    BY <1>4 DEF SaveSnapshot, UpdateInv, SaveReady, Creating, SaveAccepts
  <2>2. Saves(p) /\ upd' = [upd EXCEPT ![p] = AfterSave(upd[p])]
    BY <1>4, <2>1 DEF SaveSnapshot, Saves
  <2>3. /\ AfterSave(upd[p]).phase \in {"list", "done"}
        /\ AfterSave(upd[p]).phase = "done" => AfterSave(upd[p]).ok
        /\ AfterSave(upd[p]).task = upd[p].task /\ AfterSave(upd[p]).event = upd[p].event
    BY <1>1, UpdaterAssumption DEF AfterSave, Update
  <2>4. upd'[p] = AfterSave(upd[p]) /\ \A q \in Procs : q # p => upd'[q] = upd[q]
    BY <1>1, <2>2
  <2>5. ~UNCHANGED tasks
    <3>1. PICK t \in Tasks : t = upd[p].task
      BY <2>1, ActiveEvent
    <3>2. tasks'[t].file = "intact" /\ tasks'[t].version = upd[p].version + 1
      BY <2>2, <3>1 DEF Saves, SavedTask, SavedVersion, TypeOK, StorageTypeOK
    <3>3. upd[p].version \in Nat
      BY <1>1 DEF Update
    <3>4. tasks[t].file = "absent" \/ tasks[t].version = upd[p].version
      BY <2>1, <3>1 DEF SaveAccepts
    <3>5. QED
      BY <3>2, <3>3, <3>4
  <2>6. Stored(p)'
    BY <2>3, <2>4 DEF Stored
  <2>7. QED
    BY <2>1, <2>2, <2>3, <2>4, <2>5, <2>6
<1>5. CASE ListConfigs(p)
  <2>1. /\ upd[p].phase = "list" /\ UNCHANGED tasks
        /\ \/ upd' = [upd EXCEPT ![p] = [upd[p] EXCEPT !.phase = "done", !.ok = TRUE]]
           \/ \E todo : upd' = [upd EXCEPT ![p] = [upd[p] EXCEPT !.phase = "notify", !.todo = todo]]
    BY <1>5 DEF ListConfigs, storageVars
  <2>2. CASE upd' = [upd EXCEPT ![p] = [upd[p] EXCEPT !.phase = "done", !.ok = TRUE]]
    BY <1>1, <2>1, <2>2 DEF Update, Stored
  <2>3. ASSUME NEW todo, upd' = [upd EXCEPT ![p] = [upd[p] EXCEPT !.phase = "notify", !.todo = todo]]
        PROVE  /\ upd'[p].phase = "notify"
               /\ upd'[p].task = upd[p].task /\ upd'[p].event = upd[p].event
               /\ \A q \in Procs : q # p => upd'[q] = upd[q]
    BY <1>1, <2>3 DEF Update
  <2>4. QED
    BY <2>1, <2>2, <2>3 DEF Stored
<1>6. CASE ListFails(p)
  <2>1. /\ upd[p].phase = "list" /\ UNCHANGED tasks
        /\ upd' = [upd EXCEPT ![p].phase = "done", ![p].ok = TRUE]
    BY <1>6 DEF ListFails, storageVars, Return
  <2>2. QED
    BY <1>1, <2>1 DEF Update, Stored
<1>7. ASSUME NEW c \in Configs, Notify(p, c) \/ NotifyFails(p, c)
      PROVE  /\ upd[p].phase = "notify" /\ UNCHANGED tasks
             /\ upd'[p].phase # "idle" /\ Stored(p) /\ Stored(p)'
             /\ upd'[p].task = upd[p].task /\ upd'[p].event = upd[p].event
             /\ \A q \in Procs : q # p => upd'[q] = upd[q]
  <2>1. /\ upd[p].phase = "notify" /\ UNCHANGED tasks
        /\ \/ upd' = [upd EXCEPT ![p] = [upd[p] EXCEPT !.phase = "done", !.ok = TRUE, !.todo = {}]]
           \/ \E todo : upd' = [upd EXCEPT ![p] = [upd[p] EXCEPT !.todo = todo]]
    BY <1>7 DEF Notify, NotifyFails, NextEndpoint, storageVars
  <2>2. CASE upd' = [upd EXCEPT ![p] = [upd[p] EXCEPT !.phase = "done", !.ok = TRUE, !.todo = {}]]
    BY <1>1, <2>1, <2>2 DEF Update, Stored
  <2>3. ASSUME NEW todo, upd' = [upd EXCEPT ![p] = [upd[p] EXCEPT !.todo = todo]]
        PROVE  /\ upd'[p].phase = "notify"
               /\ upd'[p].task = upd[p].task /\ upd'[p].event = upd[p].event
               /\ \A q \in Procs : q # p => upd'[q] = upd[q]
    BY <1>1, <2>1, <2>3 DEF Update
  <2>4. QED
    BY <2>1, <2>2, <2>3 DEF Stored
<1>8. QED
  BY <1>2, <1>3, <1>4, <1>5, <1>6, <1>7 DEF Progress, Failure

-----------------------------------------------------------------------------
(* The steps of a worker, by what they do to its job and to its update. *)

WorkerStep(w) == AgentStep(w) \/ JobStep(w) \/ Monitor(w) \/ Redeliver(w)

Moves(w, from, to) == wk[w].pc = from /\ wk'[w].pc = to

\* The worker takes a job, or stops because there will be none.
Takes(w) ==
  /\ wk[w].pc = "idle" /\ wk'[w].pc \in {"lock", "check", "stopped"}
  /\ wk'[w].pc # "stopped" => wk'[w].last = "none"
  /\ upd'[w] = upd[w]

\* ProcessJob returns.
Ends(w) ==
  /\ JobEnds(w)
  /\ wk[w].pc \notin {"idle", "stopped"} /\ wk'[w].pc \in {"idle", "stopped"}
  /\ \/ wk[w].pc \in {"starting", "settling"} /\ upd'[w].phase = "idle"
     \/ wk[w].pc \in {"lock", "check", "running", "aborted"} /\ upd'[w] = upd[w]

\* ProcessJob or the agent goes on without touching the task.
Walks(w) ==
  /\ wk'[w].task = wk[w].task /\ wk'[w].last = wk[w].last /\ upd'[w] = upd[w]
  /\ \/ Moves(w, "lock", "check")
     \/ Moves(w, "check", "start") /\ ~IsTerminal(StateOf(wk[w].task))
     \/ Moves(w, "running", "aborted")
     \/ /\ Moves(w, "running", "settle")
        /\ KeepsEnd(w, wk'[w].outcome)
        /\ wk'[w].success => wk'[w].outcome = "completed"
     \/ /\ wk'[w].pc = wk[w].pc /\ wk[w].pc \notin {"idle", "stopped"}
        /\ wk'[w].outcome = wk[w].outcome /\ wk'[w].success = wk[w].success

\* An update begins.
StartsUpdate(w) ==
  /\ wk'[w].task = wk[w].task /\ wk'[w].last = wk[w].last
  /\ wk'[w].outcome = wk[w].outcome /\ wk'[w].success = wk[w].success
  /\ upd[w].phase = "idle" /\ upd'[w].phase # "idle" /\ ~Stored(w)' /\ upd'[w].task = wk[w].task
  /\ \/ Moves(w, "start", "starting") /\ upd'[w].event = Status("working")
     \/ /\ Moves(w, "running", "updating")
        /\ upd'[w].event.kind = "status" => KeepsEnd(w, upd'[w].event.val)
     \/ Moves(w, "settle", "settling") /\ upd'[w].event = Status(wk[w].outcome)

\* An update is over and the agent runs.
Resumes(w) ==
  /\ wk'[w].task = wk[w].task
  /\ upd[w].phase = "done" /\ upd'[w].phase = "idle"
  /\ \/ Moves(w, "starting", "running") /\ wk'[w].last = wk[w].last
     \/ Moves(w, "updating", "running") /\ wk'[w].last = Tracked(wk[w].last, upd[w])

\* Every step of a worker is one of these and leaves the files and everybody else alone.
LEMMA WorkerMoves ==
  ASSUME BaseInv, NEW w \in Workers, WorkerStep(w)
  PROVE  /\ UNCHANGED <<tasks, streams, cl>>
         /\ \A q \in Procs : q # w => upd'[q] = upd[q]
         /\ \A x \in Workers : x # w => wk'[x] = wk[x]
         /\ Takes(w) \/ Ends(w) \/ Walks(w) \/ StartsUpdate(w) \/ Resumes(w)
<1>1. /\ TypeOK /\ ServiceTypes /\ Shape /\ w \in Procs
      /\ wk \in [Workers -> WkRec] /\ wk[w] \in WkRec
  BY ServiceTypesEq, ServiceAssumption DEF BaseInv, ServiceTypes
<1> DEFINE Rest == /\ UNCHANGED <<tasks, streams, cl>>
                   /\ \A q \in Procs : q # w => upd'[q] = upd[q]
                   /\ \A x \in Workers : x # w => wk'[x] = wk[x]
           Goal == Rest /\ (Takes(w) \/ Ends(w) \/ Walks(w) \/ StartsUpdate(w) \/ Resumes(w))
<1>2. ASSUME UNCHANGED vars
      PROVE  UNCHANGED <<tasks, streams, upd>>
  BY <1>2 DEF vars, storageVars, updaterVars
<1>3. ASSUME NEW v, wk' = [wk EXCEPT ![w] = v]
      PROVE  wk'[w] = v /\ \A x \in Workers : x # w => wk'[x] = wk[x]
  BY <1>1, <1>3
<1>4. ASSUME wk[w].pc \notin {"idle", "stopped"}, JobEnds(w)
      PROVE  /\ cl' = cl /\ wk'[w].pc \in {"idle", "stopped"}
             /\ \A x \in Workers : x # w => wk'[x] = wk[x]
  <2>1. wk[w].task \in Tasks
    BY <1>1, <1>4, BusyTask
  <2>2. QED
    BY <1>1, <1>4, <2>1, JobEndsEffect
<1>5. ASSUME JobEnds(w), UNCHANGED <<tasks, streams, upd>>,
             wk[w].pc \in {"lock", "check", "running", "aborted"}
      PROVE  Goal
  BY <1>4, <1>5 DEF Ends
<1>6. ASSUME JobEnds(w), Finish(w), wk[w].pc \in {"starting", "settling"}
      PROVE  Goal
  <2>1. /\ upd'[w].phase = "idle" /\ UNCHANGED <<tasks, streams>>
        /\ \A q \in Procs : q # w => upd'[q] = upd[q]
    BY <1>1, <1>6, FinishForm
  <2>2. QED
    BY <1>4, <1>6, <2>1 DEF Ends
<1>7. ASSUME Dequeue(w)
      PROVE  Goal
  <2>1. /\ wk'[w].pc \in {"lock", "check"} /\ wk'[w].last = "none"
        /\ \A x \in Workers : x # w => wk'[x] = wk[x]
    BY <1>1, <1>7, DequeueForm
  <2>2. wk[w].pc = "idle" /\ cl' = cl /\ UNCHANGED <<tasks, streams, upd>>
    BY <1>2, <1>7 DEF Dequeue
  <2>3. QED
    BY <2>1, <2>2 DEF Takes
<1>8. ASSUME WorkerStops(w)
      PROVE  Goal
  <2>1. wk[w].pc = "idle" /\ cl' = cl /\ UNCHANGED <<tasks, streams, upd>>
    BY <1>2, <1>8 DEF WorkerStops
  <2>2. wk'[w].pc = "stopped" /\ \A x \in Workers : x # w => wk'[x] = wk[x]
    BY <1>1, <1>8 DEF WorkerStops, WkRec
  <2>3. QED
    BY <2>1, <2>2 DEF Takes
<1>9. ASSUME AcquireLock(w) \/ AgentReturnsCanceled(w) \/ Monitor(w) \/ Redeliver(w)
      PROVE  Goal
  <2>1. /\ cl' = cl
        /\ \/ wk[w].pc = "lock" /\ wk' = [wk EXCEPT ![w].pc = "check"]
           \/ wk[w].pc = "running" /\ wk' = [wk EXCEPT ![w].pc = "aborted"]
           \/ wk[w].pc \notin {"idle", "stopped"} /\ wk' = [wk EXCEPT ![w].canceled = TRUE]
           \/ wk[w].pc \notin {"idle", "stopped"} /\ wk' = [wk EXCEPT ![w].stale = TRUE]
    BY <1>9 DEF AcquireLock, AgentReturnsCanceled, Monitor, MonitorCancels, HeartbeatFails, Redeliver
  <2>2. UNCHANGED <<tasks, streams, upd>>
    BY <1>2, <1>9 DEF AcquireLock, AgentReturnsCanceled, Monitor, MonitorCancels, HeartbeatFails,
                      Redeliver, storageVars
  <2>3. /\ \A x \in Workers : x # w => wk'[x] = wk[x]
        /\ wk'[w].task = wk[w].task /\ wk'[w].last = wk[w].last
        /\ wk'[w].outcome = wk[w].outcome /\ wk'[w].success = wk[w].success
        /\ \/ Moves(w, "lock", "check") \/ Moves(w, "running", "aborted")
           \/ wk'[w].pc = wk[w].pc /\ wk[w].pc \notin {"idle", "stopped"}
    BY <1>1, <2>1 DEF WkRec, Moves
  <2>4. QED
    BY <2>1, <2>2, <2>3 DEF Walks
<1>10. ASSUME CheckTask(w)
       PROVE  Goal
  <2>1. wk[w].pc = "check" /\ UNCHANGED <<tasks, streams, upd>>
    BY <1>2, <1>10 DEF CheckTask
  <2>2. CASE JobEnds(w)
    BY <1>5, <2>1, <2>2
  <2>3. CASE ~JobEnds(w)
    <3>1. wk' = [wk EXCEPT ![w].pc = "start"] /\ cl' = cl /\ ~IsTerminal(StateOf(wk[w].task))
      BY <1>10, <2>3 DEF CheckTask, JobEnds, SkipsTask
    <3>2. /\ \A x \in Workers : x # w => wk'[x] = wk[x]
          /\ wk'[w].task = wk[w].task /\ wk'[w].last = wk[w].last /\ wk'[w].pc = "start"
      BY <1>1, <3>1 DEF WkRec
    <3>3. QED
      BY <2>1, <3>1, <3>2 DEF Walks, Moves
  <2>4. QED
    BY <2>2, <2>3
<1>11. ASSUME GiveUpLock(w) \/ CheckFails(w) \/ Abort(w)
       PROVE  Goal
  BY <1>2, <1>5, <1>11 DEF GiveUpLock, CheckFails, Abort, JobEnds, storageVars
<1>12. ASSUME NEW s, NEW b, wk[w].pc = "running", Settle(w, s, b), UNCHANGED vars,
              KeepsEnd(w, s), b => s = "completed"
       PROVE  Goal
  <2>1. /\ wk' = [wk EXCEPT ![w].pc = "settle", ![w].outcome = s, ![w].success = b]
        /\ cl' = cl /\ UNCHANGED <<tasks, streams, upd>>
    BY <1>2, <1>12 DEF Settle
  <2>2. /\ \A x \in Workers : x # w => wk'[x] = wk[x]
        /\ wk'[w].task = wk[w].task /\ wk'[w].last = wk[w].last /\ wk'[w].pc = "settle"
        /\ wk'[w].outcome = s /\ wk'[w].success = b
    BY <1>1, <2>1 DEF WkRec
  <2>3. QED
    BY <1>12, <2>1, <2>2 DEF Walks, Moves
<1>13. ASSUME \/ AgentSucceeds(w) \/ AgentFails(w)
              \/ \E s \in StatusErrors : AgentReturnsStatusError(w, s)
       PROVE  Goal
  <2>1. KeepsEnd(w, "completed") /\ KeepsEnd(w, "failed")
    BY DEF KeepsEnd, IsTerminal
  <2>2. CASE AgentSucceeds(w) \/ AgentFails(w)
    BY <1>2, <1>5, <1>12, <2>1, <2>2 DEF AgentSucceeds, AgentFails, JobEnds
  <2>3. ASSUME NEW s \in StatusErrors, AgentReturnsStatusError(w, s)
        PROVE  Goal
    BY <1>12, <2>3 DEF AgentReturnsStatusError
  <2>4. QED
    BY <1>13, <2>2, <2>3
<1>14. ASSUME NEW e \in Updates, BeginUpdate(w, wk[w].task, e), cl' = cl,
              NEW pc, NEW n, wk[w].pc \notin {"idle", "stopped"},
              \/ wk' = [wk EXCEPT ![w].pc = pc]
              \/ wk' = [wk EXCEPT ![w].pc = pc, ![w].updates = n],
              \/ wk[w].pc = "start" /\ pc = "starting" /\ e = Status("working")
              \/ /\ wk[w].pc = "running" /\ pc = "updating"
                 /\ e.kind = "status" => KeepsEnd(w, e.val)
              \/ wk[w].pc = "settle" /\ pc = "settling" /\ e = Status(wk[w].outcome)
       PROVE  Goal
  <2>1. wk[w].task \in Tasks
    BY <1>1, <1>14, BusyTask
  <2>2. /\ upd[w].phase = "idle" /\ upd'[w].task = wk[w].task /\ upd'[w].event = e
        /\ upd'[w].phase # "idle" /\ ~Stored(w)' /\ UNCHANGED <<tasks, streams>>
        /\ \A q \in Procs : q # w => upd'[q] = upd[q]
    BY <1>1, <1>14, <2>1, BeginForm
  <2>3. /\ \A x \in Workers : x # w => wk'[x] = wk[x]
        /\ wk'[w].task = wk[w].task /\ wk'[w].last = wk[w].last /\ wk'[w].pc = pc
        /\ wk'[w].outcome = wk[w].outcome /\ wk'[w].success = wk[w].success
    BY <1>1, <1>14 DEF WkRec
  <2>4. QED
    BY <1>14, <2>2, <2>3 DEF StartsUpdate, Moves
<1>15. ASSUME StartWorking(w)
       PROVE  Goal
  <2>1. Status("working") \in Updates
    BY ServiceAssumption DEF Status, Updates
  <2>2. QED
    BY <1>14, <1>15, <2>1 DEF StartWorking
<1>16. ASSUME NEW e \in AgentEvents, AgentUpdate(w, e)
       PROVE  Goal
  <2>1. e \in Updates
    BY DEF AgentEvents
  <2>2. QED
    BY <1>14, <1>16, <2>1 DEF AgentUpdate
<1>17. ASSUME SetOutcome(w)
       PROVE  Goal
  <2>1. Status(wk[w].outcome) \in Updates
    BY <1>1, <1>17 DEF SetOutcome, Shape, WorkerShape, Status, Updates
  <2>2. QED
    BY <1>14, <1>17, <2>1 DEF SetOutcome
<1>18. ASSUME Started(w)
       PROVE  Goal
  <2>1. wk[w].pc = "starting" /\ Finish(w)
    BY <1>18 DEF Started
  <2>2. CASE ~upd[w].ok
    BY <1>6, <1>18, <2>1, <2>2 DEF Started, JobEnds
  <2>3. CASE upd[w].ok
    <3>1. wk' = [wk EXCEPT ![w].pc = "running"] /\ cl' = cl
      BY <1>18, <2>3 DEF Started
    <3>2. /\ \A x \in Workers : x # w => wk'[x] = wk[x]
          /\ wk'[w].task = wk[w].task /\ wk'[w].last = wk[w].last /\ wk'[w].pc = "running"
      BY <1>1, <3>1 DEF WkRec
    <3>3. QED
      BY <1>1, <2>1, <3>1, <3>2, FinishForm DEF Resumes, Moves
  <2>4. QED
    BY <2>2, <2>3
<1>19. ASSUME AgentUpdated(w)
       PROVE  Goal
  <2>1. /\ wk[w].pc = "updating" /\ Finish(w) /\ cl' = cl
        /\ wk' = [wk EXCEPT ![w].pc = "running", ![w].last = Tracked(@, upd[w])]
    BY <1>19 DEF AgentUpdated
  <2>2. /\ \A x \in Workers : x # w => wk'[x] = wk[x]
        /\ wk'[w].task = wk[w].task /\ wk'[w].last = Tracked(wk[w].last, upd[w])
        /\ wk'[w].pc = "running"
    BY <1>1, <2>1 DEF WkRec
  <2>3. QED
    BY <1>1, <2>1, <2>2, FinishForm DEF Resumes, Moves
<1>20. ASSUME Settled(w)
       PROVE  Goal
  BY <1>6, <1>20 DEF Settled, JobEnds
<1>21. QED
  BY <1>7, <1>8, <1>9, <1>10, <1>11, <1>13, <1>15, <1>16, <1>17, <1>18, <1>19, <1>20
     DEF WorkerStep, AgentStep, JobStep

-----------------------------------------------------------------------------
(* The steps of a client, in the same way. *)

\* The request is admitted.
Opens(c) == cl[c].pc = "idle" /\ cl'[c].pc \in {"add", "cancel"} /\ upd'[c] = upd[c]

\* The request begins its update.
Calls(c) ==
  /\ upd[c].phase = "idle" /\ upd'[c].phase # "idle" /\ ~Stored(c)'
  /\ upd'[c].task = cl'[c].task
  /\ \/ /\ cl[c].pc = "idle" /\ cl'[c].pc = "creating"
        /\ upd'[c].event.kind = "task" /\ upd'[c].phase = "append"
     \/ cl[c].pc = "add" /\ cl'[c].pc = "adding" /\ upd'[c].event.kind = "message"
     \/ cl[c].pc = "cancel" /\ cl'[c].pc = "canceling" /\ upd'[c].event = Status("canceled")

\* The update of the request is over.
Returns(c) ==
  /\ upd[c].phase = "done" /\ upd'[c].phase = "idle"
  /\ cl[c].pc \in {"creating", "adding", "canceling"} /\ cl'[c].pc \in {"enqueue", "idle"}
  /\ cl[c].pc = "creating" /\ upd[c].ok => cl'[c].pc = "enqueue" /\ cl'[c].task = cl[c].task

\* The request hands its task to the queue, or stops waiting.
HandsOver(c) ==
  /\ upd'[c] = upd[c] /\ cl'[c].pc \in {"wait", "idle"}
  /\ \/ cl[c].pc = "enqueue" /\ (queue' = Append(queue, cl[c].task) \/ Fault("queue"))
     \/ cl[c].pc = "wait"

\* Every step of a client is one of these and leaves the files and everybody else alone.
LEMMA ClientMoves ==
  ASSUME BaseInv, NEW c \in Clients, Request(c) \/ RequestStep(c)
  PROVE  /\ UNCHANGED <<tasks, streams, wk, lock, abandoned>>
         /\ \A q \in Procs : q # c => upd'[q] = upd[q]
         /\ \A x \in Clients : x # c => cl'[x] = cl[x]
         /\ queue' = queue \/ (queue' = Append(queue, cl[c].task) /\ cl[c].pc = "enqueue")
         /\ Opens(c) \/ Calls(c) \/ Returns(c) \/ HandsOver(c)
<1>1. /\ TypeOK /\ ServiceTypes /\ Shape /\ c \in Procs
      /\ cl \in [Clients -> ClRec] /\ cl[c] \in ClRec
  BY ServiceTypesEq, ServiceAssumption DEF BaseInv, ServiceTypes
<1>2. /\ \A x \in Clients : x # c => cl'[x] = cl[x]
      /\ queue' = queue \/ (queue' = Append(queue, cl[c].task) /\ cl[c].pc = "enqueue")
      /\ UNCHANGED <<wk, lock, abandoned>>
  BY <1>1, ClientForms DEF Asks, ServiceTypes
<1> DEFINE Rest == /\ UNCHANGED <<tasks, streams>>
                   /\ \A q \in Procs : q # c => upd'[q] = upd[q]
           Goal == Rest /\ (Opens(c) \/ Calls(c) \/ Returns(c) \/ HandsOver(c))
<1>3. ASSUME UNCHANGED vars
      PROVE  UNCHANGED <<tasks, streams, upd>>
  BY <1>3 DEF vars, storageVars, updaterVars
<1>4. ASSUME NEW v, cl' = [cl EXCEPT ![c] = v]
      PROVE  cl'[c] = v
  BY <1>1, <1>4
<1>5. ASSUME NEW pc, cl' = [cl EXCEPT ![c].pc = pc]
      PROVE  cl'[c].pc = pc /\ cl'[c].task = cl[c].task
  BY <1>1, <1>5 DEF ClRec
<1>6. ASSUME Respond(c)
      PROVE  cl'[c].pc = "idle"
  BY <1>4, <1>6 DEF Respond, NoRequest
<1>7. ASSUME NEW t \in Tasks, NEW m \in Messages, SendNewMessage(c, t, m)
      PROVE  Goal
  <2>1. cl'[c].pc = "creating" /\ cl'[c].task = t /\ cl[c].pc = "idle" /\ BeginCreate(c, t, m)
    BY <1>1, <1>4, <1>7 DEF SendNewMessage, Begin
  <2>2. QED
    BY <1>1, <2>1, CreateForm DEF Calls, Stored
<1>8. ASSUME NEW t \in Tasks, SendFollowUp(c, t) \/ CancelTask(c, t)
      PROVE  Goal
  BY <1>3, <1>4, <1>8 DEF SendFollowUp, CancelTask, Begin, Opens
<1>9. ASSUME NEW m \in Messages, AddMessage(c, m)
      PROVE  Goal
  <2>1. /\ cl[c].pc = "add" /\ cl'[c].pc = "adding" /\ cl'[c].task = cl[c].task
        /\ BeginUpdate(c, cl[c].task, [kind |-> "message", val |-> m])
    BY <1>5, <1>9 DEF AddMessage
  <2>2. cl[c].task \in Tasks /\ [kind |-> "message", val |-> m] \in Updates
    BY <1>1, <2>1, RequestTask DEF Updates
  <2>3. QED
    BY <1>1, <2>1, <2>2, BeginForm DEF Calls
<1>10. ASSUME SetCanceled(c)
       PROVE  Goal
  <2>1. /\ cl[c].pc = "cancel" /\ cl'[c].pc = "canceling" /\ cl'[c].task = cl[c].task
        /\ BeginUpdate(c, cl[c].task, Status("canceled"))
    BY <1>5, <1>10 DEF SetCanceled
  <2>2. cl[c].task \in Tasks /\ Status("canceled") \in Updates
    BY <1>1, <2>1, RequestTask, ServiceAssumption DEF Status, Updates
  <2>3. QED
    BY <1>1, <2>1, <2>2, BeginForm DEF Calls
<1>11. ASSUME Created(c) \/ Added(c) \/ CancelReturns(c)
       PROVE  Goal
  <2>1. Finish(c) /\ cl[c].pc \in {"creating", "adding", "canceling"}
    BY <1>11 DEF Created, Added, CancelReturns
  <2>2. /\ cl'[c].pc \in {"enqueue", "idle"}
        /\ cl[c].pc = "creating" /\ upd[c].ok => cl'[c].pc = "enqueue" /\ cl'[c].task = cl[c].task
    BY <1>5, <1>6, <1>11 DEF Created, Added, CancelReturns
  <2>3. QED
    BY <1>1, <2>1, <2>2, FinishForm DEF Returns
<1>12. ASSUME Enqueue(c)
       PROVE  Goal
  BY <1>3, <1>5, <1>6, <1>12 DEF Enqueue, HandsOver
<1>13. ASSUME EnqueueFails(c)
       PROVE  Goal
  BY <1>5, <1>6, <1>13 DEF EnqueueFails, HandsOver, storageVars
<1>14. ASSUME WaitReturns(c)
       PROVE  Goal
  BY <1>3, <1>6, <1>14 DEF WaitReturns, HandsOver
<1>15. Goal
  BY <1>7, <1>8, <1>9, <1>10, <1>11, <1>12, <1>13, <1>14 DEF Request, RequestStep
<1>16. QED
  BY <1>2, <1>15

\* A step that is taken outside of workers, clients and updates.
OtherStep == (\E t \in Tasks : Reappear(t)) \/ BeginClose \/ UNCHANGED allVars

\* Such a step touches neither files nor updates, jobs and requests.
LEMMA OtherMoves ==
  ASSUME OtherStep
  PROVE  UNCHANGED <<tasks, streams, upd, wk, cl, lock>>
BY DEF OtherStep, Reappear, BeginClose, allVars, serviceVars, vars, storageVars, updaterVars

\* The steps of the service, by who takes them.
LEMMA ServiceSteps ==
  ASSUME [SvcNext]_allVars
  PROVE  \/ \E w \in Workers : WorkerStep(w)
         \/ \E c \in Clients : Request(c) \/ RequestStep(c)
         \/ \E p \in Procs : UpdateStep(p)
         \/ OtherStep
         \/ Restart
BY DEF SvcNext, WorkerStep, OtherStep

\* After a crash nobody works.
LEMMA RestartMoves ==
  ASSUME Restart
  PROVE  /\ \A p \in Procs : upd'[p] = IdleUpdate /\ upd'[p].phase = "idle"
         /\ \A w \in Workers : wk'[w] = NoJob /\ wk'[w].pc = "idle" /\ wk'[w].task = NoTask
         /\ \A c \in Clients : cl'[c].pc = "idle" /\ cl'[c].task = NoTask
<1>1. /\ upd' = [p \in Procs |-> IdleUpdate]
      /\ wk' = [w \in Workers |-> NoJob]
      /\ cl' = [c \in Clients |-> [NoRequest EXCEPT !.ops = cl[c].ops]]
  BY DEF Restart, Crash
<1>2. QED
  BY <1>1 DEF IdleUpdate, NoJob, NoRequest

-----------------------------------------------------------------------------
(* The second layer: the lock, and who updates which task. *)

\* A worker owns its updates after each of its steps.
LEMMA OwnWorker ==
  ASSUME BaseInv, OwnInv, NEW w \in Workers, WorkerStep(w)
  PROVE  WorkerUpdates(w)' /\ TrackerInv(w)'
<1>1. Takes(w) \/ Ends(w) \/ Walks(w) \/ StartsUpdate(w) \/ Resumes(w)
  BY WorkerMoves
<1>2. WorkerUpdates(w) /\ TrackerInv(w)
  BY DEF OwnInv
<1>3. CASE Takes(w)
  BY <1>2, <1>3 DEF Takes, WorkerUpdates, TrackerInv
<1>4. CASE Ends(w)
  BY <1>2, <1>4 DEF Ends, WorkerUpdates, TrackerInv
<1>5. CASE Walks(w)
  BY <1>2, <1>5 DEF Walks, Moves, WorkerUpdates, TrackerInv, KeepsEnd
<1>6. CASE StartsUpdate(w)
  BY <1>2, <1>6 DEF StartsUpdate, Moves, WorkerUpdates, TrackerInv, KeepsEnd
<1>7. CASE Resumes(w)
  BY <1>2, <1>7 DEF Resumes, Moves, WorkerUpdates, TrackerInv
<1>8. QED
  BY <1>1, <1>3, <1>4, <1>5, <1>6, <1>7

\* Every step keeps the owners of the updates.
LEMMA OwnStep ==
  ASSUME BaseInv, OwnInv, [SvcNext]_allVars
  PROVE  OwnInv'
<1>1. /\ TypeOK /\ UpdateInv /\ \A c \in Clients : c \in Procs /\ c \notin Workers
      /\ \A w \in Workers : w \in Procs /\ w \notin Clients
  BY ServiceAssumption DEF BaseInv, SvcTypeOK
<1>2. ASSUME NEW w \in Workers, WorkerStep(w)
      PROVE  OwnInv'
  <2>1. /\ cl' = cl
        /\ \A q \in Procs : q # w => upd'[q] = upd[q]
        /\ \A x \in Workers : x # w => wk'[x] = wk[x]
    BY <1>2, WorkerMoves
  <2>2. ASSUME NEW x \in Workers
        PROVE  WorkerUpdates(x)' /\ TrackerInv(x)'
    <3>1. CASE x = w
      BY <1>2, <3>1, OwnWorker
    <3>2. CASE x # w
      BY <1>1, <2>1, <3>2 DEF OwnInv, WorkerUpdates, TrackerInv, KeepsEnd
    <3>3. QED
      BY <3>1, <3>2
  <2>3. \A c \in Clients : ClientUpdates(c)'
    BY <1>1, <2>1 DEF OwnInv, ClientUpdates
  <2>4. QED
    BY <2>2, <2>3 DEF OwnInv
<1>3. ASSUME NEW c \in Clients, Request(c) \/ RequestStep(c)
      PROVE  OwnInv'
  <2>1. /\ wk' = wk
        /\ \A q \in Procs : q # c => upd'[q] = upd[q]
        /\ \A x \in Clients : x # c => cl'[x] = cl[x]
        /\ Opens(c) \/ Calls(c) \/ Returns(c) \/ HandsOver(c)
    BY <1>3, ClientMoves
  <2>2. \A w \in Workers : WorkerUpdates(w)' /\ TrackerInv(w)'
    BY <1>1, <2>1 DEF OwnInv, WorkerUpdates, TrackerInv, KeepsEnd
  <2>3. ClientUpdates(c)'
    BY <2>1 DEF OwnInv, ClientUpdates, Opens, Calls, Returns, HandsOver
  <2>4. \A x \in Clients : ClientUpdates(x)'
    BY <1>1, <2>1, <2>3 DEF OwnInv, ClientUpdates
  <2>5. QED
    BY <2>2, <2>4 DEF OwnInv
<1>4. ASSUME NEW p \in Procs, UpdateStep(p)
      PROVE  OwnInv'
  <2>1. /\ upd[p].phase # "idle"
        /\ upd'[p].task = upd[p].task /\ upd'[p].event = upd[p].event
        /\ \A q \in Procs : q # p => upd'[q] = upd[q]
    BY <1>1, <1>4, AdvanceForm DEF UpdateStep
  <2>2. wk' = wk /\ cl' = cl
    BY <1>4 DEF UpdateStep, serviceVars
  <2>3. \A q \in Procs : /\ upd'[q].phase # "idle" => upd[q].phase # "idle"
                         /\ upd'[q].task = upd[q].task /\ upd'[q].event = upd[q].event
    BY <2>1
  <2>4. \A w \in Workers : WorkerUpdates(w)' /\ TrackerInv(w)'
    BY <1>1, <2>2, <2>3 DEF OwnInv, WorkerUpdates, TrackerInv, KeepsEnd
  <2>5. \A c \in Clients : ClientUpdates(c)'
    BY <1>1, <2>2, <2>3 DEF OwnInv, ClientUpdates
  <2>6. QED
    BY <2>4, <2>5 DEF OwnInv
<1>5. CASE OtherStep
  BY <1>5, OtherMoves DEF OwnInv, WorkerUpdates, TrackerInv, ClientUpdates, KeepsEnd
<1>6. CASE Restart
  BY <1>1, <1>6, RestartMoves DEF OwnInv, WorkerUpdates, TrackerInv, ClientUpdates
<1>7. QED
  BY <1>2, <1>3, <1>4, <1>5, <1>6, ServiceSteps

\* With a TaskLocker every step keeps the owners of the locks.
LEMMA LockStep ==
  ASSUME UseLocker, BaseInv, LockInv, [SvcNext]_allVars
  PROVE  LockInv'
<1>1. /\ TypeOK /\ ServiceTypes /\ Shape /\ \A w \in Workers : w # NoProc
      /\ wk \in [Workers -> WkRec] /\ lock \in [Tasks -> Workers \cup {NoProc}]
  BY ServiceTypesEq, ServiceAssumption DEF BaseInv, ServiceTypes
<1>2. \A w \in Workers : wk[w].pc \in Holding => wk[w].task \in Tasks
  BY <1>1, BusyTask DEF Holding
<1>3. ASSUME NEW w \in Workers, Dequeue(w) \/ WorkerStops(w)
      PROVE  LockInv'
  <2>1. wk'[w].pc \in {"lock", "stopped"} /\ \A x \in Workers : x # w => wk'[x] = wk[x]
    <3>1. CASE Dequeue(w)
      BY <1>1, <3>1, DequeueForm
    <3>2. CASE WorkerStops(w)
      BY <1>1, <3>2 DEF WorkerStops, WkRec
    <3>3. QED
      BY <1>3, <3>1, <3>2
  <2>2. lock' = lock
    BY <1>3 DEF Dequeue, WorkerStops
  <2>3. QED
    BY <2>1, <2>2 DEF LockInv, Holding
<1>4. ASSUME NEW w \in Workers, JobEnds(w), wk[w].pc \notin {"idle", "stopped"}
      PROVE  LockInv'
  <2>1. wk[w].task \in Tasks
    BY <1>1, <1>4, BusyTask
  <2>2. /\ Release(w) /\ wk'[w].pc \in {"idle", "stopped"}
        /\ \A x \in Workers : x # w => wk'[x] = wk[x]
    BY <1>1, <1>4, <2>1, JobEndsEffect
  <2>3. \A t \in Tasks : lock[t] # w => lock'[t] = lock[t]
    BY <1>1, <2>1, <2>2 DEF Release
  <2>4. QED
    BY <1>2, <2>2, <2>3 DEF LockInv, Holding
<1>5. ASSUME NEW w \in Workers, AcquireLock(w)
      PROVE  LockInv'
  <2>1. wk[w].pc = "lock" /\ lock[wk[w].task] = NoProc
    BY <1>5 DEF AcquireLock, LockFree
  <2>2. wk[w].task \in Tasks
    BY <1>1, <2>1, BusyTask
  <2>3. lock' = [lock EXCEPT ![wk[w].task] = w] /\ wk' = [wk EXCEPT ![w].pc = "check"]
    BY <1>5 DEF AcquireLock
  <2>4. wk'[w].task = wk[w].task /\ \A x \in Workers : x # w => wk'[x] = wk[x]
    BY <1>1, <2>3 DEF WkRec
  <2>5. lock'[wk[w].task] = w /\ \A t \in Tasks : t # wk[w].task => lock'[t] = lock[t]
    BY <1>1, <2>2, <2>3
  <2>6. ASSUME NEW x \in Workers, x # w, wk[x].pc \in Holding
        PROVE  lock'[wk[x].task] = x
    BY <1>1, <1>2, <2>1, <2>5, <2>6 DEF LockInv
  <2>7. QED
    BY <2>4, <2>5, <2>6 DEF LockInv
<1>6. ASSUME NEW w \in Workers, Goes(w), lock' = lock, wk[w].pc # "lock"
      PROVE  LockInv'
  <2>1. wk[w].pc \in Holding
    BY <1>1, <1>6 DEF Goes, WkRec, WorkerPCs, Holding
  <2>2. wk'[w].task = wk[w].task /\ \A x \in Workers : x # w => wk'[x] = wk[x]
    BY <1>1, <1>6 DEF Goes
  <2>3. QED
    BY <1>6, <2>1, <2>2 DEF LockInv
<1>7. ASSUME NEW w \in Workers, Redeliver(w)
      PROVE  LockInv'
  <2>1. wk' = [wk EXCEPT ![w].stale = TRUE] /\ lock' = lock
    BY <1>7 DEF Redeliver
  <2>2. \A x \in Workers : wk'[x].pc = wk[x].pc /\ wk'[x].task = wk[x].task
    BY <1>1, <2>1 DEF WkRec
  <2>3. QED
    BY <2>1, <2>2 DEF LockInv
<1>8. ASSUME NEW w \in Workers, WorkerStep(w)
      PROVE  LockInv'
  BY <1>1, <1>3, <1>4, <1>5, <1>6, <1>7, <1>8, WorkerForms DEF WorkerStep
<1>9. ASSUME NEW c \in Clients, Request(c) \/ RequestStep(c)
      PROVE  LockInv'
  BY <1>9, ClientMoves DEF LockInv
<1>10. ASSUME NEW p \in Procs, UpdateStep(p)
       PROVE  LockInv'
  BY <1>10 DEF UpdateStep, serviceVars, LockInv
<1>11. CASE OtherStep
  BY <1>11, OtherMoves DEF LockInv
<1>12. CASE Restart
  BY <1>12, RestartMoves DEF LockInv, Holding
<1>13. QED
  BY <1>8, <1>9, <1>10, <1>11, <1>12, ServiceSteps

\* Two workers never process the same task beyond the lock.
LEMMA LockExcludes ==
  ASSUME LockInv, NEW v \in Workers, NEW w \in Workers,
         wk[v].pc \in Holding, wk[w].pc \in Holding, wk[v].task = wk[w].task
  PROVE  v = w
BY DEF LockInv

-----------------------------------------------------------------------------
(* The third layer: what ends a task, and that it stays ended. *)

\* What a save does to the state of its task.
LEMMA SavedState ==
  ASSUME BaseInv, OwnInv, NEW p \in Procs, Saves(p)
  PROVE  /\ upd[p].task \in Tasks /\ ~Stored(p)
         /\ tasks'[upd[p].task].file = "intact"
         /\ \A t \in Tasks : t # upd[p].task => tasks'[t] = tasks[t]
         /\ \/ /\ upd[p].event.kind = "task"
               /\ tasks[upd[p].task].file = "absent"
               /\ tasks'[upd[p].task].task.state = "submitted"
            \/ /\ upd[p].event.kind # "task"
               /\ tasks[upd[p].task].file = "intact"
               /\ ~Refused(tasks[upd[p].task].task, upd[p].event)
               /\ tasks'[upd[p].task].task.state =
                    IF upd[p].event.kind = "status" THEN upd[p].event.val ELSE StateOf(upd[p].task)
<1>1. TypeOK /\ UpdateInv /\ upd[p] \in Update /\ upd[p].phase = "save"
  BY DEF BaseInv, SvcTypeOK, TypeOK, Saves
<1>2. PICK t \in Tasks : t = upd[p].task
  BY <1>1, ActiveEvent
<1>3. tasks' = [tasks EXCEPT ![t] = [file |-> "intact", task |-> ApplyEvent(upd[p].base, upd[p].event),
                                     version |-> SavedVersion(upd[p])]]
  BY <1>2 DEF Saves, SavedTask
<1>4. /\ tasks'[t].file = "intact"
      /\ tasks'[t].task = ApplyEvent(upd[p].base, upd[p].event)
      /\ \A s \in Tasks : s # t => tasks'[s] = tasks[s]
  BY <1>1, <1>3 DEF TypeOK, StorageTypeOK
<1>5. ~Stored(p)
  BY <1>1 DEF Stored
<1>6. Creating(p, t) \/ (Updating(p, t) /\ tasks[t].file = "intact" /\ tasks[t].version = upd[p].version)
  BY <1>1, <1>2 DEF UpdateInv, SaveReady
<1>7. CASE Creating(p, t)
  <2>1. upd[p].event.kind = "task" /\ tasks[t].file = "absent"
    BY <1>7 DEF Creating
  <2>2. ApplyEvent(upd[p].base, upd[p].event).state = "submitted"
    BY <2>1 DEF ApplyEvent, CreatedTask
  <2>3. QED
    BY <1>2, <1>4, <1>5, <2>1, <2>2
<1>8. CASE Updating(p, t) /\ tasks[t].file = "intact" /\ tasks[t].version = upd[p].version
  <2>1. /\ upd[p].event \in Updates /\ ~Refused(upd[p].base, upd[p].event)
        /\ upd[p].base = tasks[t].task /\ upd[p].base \in TaskValue
    BY <1>1, <1>8 DEF Updating, Update
  <2>2. upd[p].event.kind # "task"
    BY <2>1 DEF Updates
  <2>3. ApplyEvent(upd[p].base, upd[p].event).state =
          IF upd[p].event.kind = "status" THEN upd[p].event.val ELSE upd[p].base.state
    BY <2>1, ApplyEventState
  <2>4. QED
    BY <1>2, <1>4, <1>5, <1>8, <2>1, <2>2, <2>3 DEF StateOf
<1>9. QED
  BY <1>6, <1>7, <1>8

\* A torn snapshot, and nothing else.
LEMMA TornState ==
  ASSUME BaseInv, NEW p \in Procs, TearsTask(p)
  PROVE  /\ upd[p].task \in Tasks /\ tasks'[upd[p].task].file = "torn"
         /\ \A t \in Tasks : t # upd[p].task => tasks'[t] = tasks[t]
<1>1. TypeOK /\ UpdateInv /\ upd[p].phase = "save"
  BY DEF BaseInv, SvcTypeOK, TearsTask
<1>2. PICK t \in Tasks : t = upd[p].task
  BY <1>1, ActiveEvent
<1>3. QED
  BY <1>1, <1>2 DEF TearsTask, TornTask, Torn, NoSnapshot, TypeOK, StorageTypeOK

\* A snapshot that changes was saved or torn by a goroutine that updates the task.
LEMMA TaskChange ==
  ASSUME BaseInv, [SvcNext]_allVars, NEW t \in Tasks, tasks'[t] # tasks[t]
  PROVE  \E p \in Procs : upd[p].task = t /\ (Saves(p) \/ TearsTask(p))
<1>1. /\ TypeOK /\ UpdateInv /\ Shape /\ SvcTypeOK
  BY DEF BaseInv, SvcTypeOK
<1>2. ~UNCHANGED tasks
  OBVIOUS
<1>3. [Next]_vars
  BY <1>1, <1>2, UpdaterSteps DEF FaultOnly, storageVars
<1>4. PICK p \in Procs : Saves(p) \/ TearsTask(p)
  BY <1>2, <1>3, FileSteps DEF Appends, TearsStream
<1>5. upd[p].task \in Tasks
  BY <1>1, <1>4, ActiveEvent DEF Saves, TearsTask
<1>6. upd[p].task = t
  BY <1>1, <1>4, <1>5 DEF Saves, TearsTask, SavedTask, TornTask, TypeOK, StorageTypeOK
<1>7. QED
  BY <1>4, <1>6

TermAll == \A w \in Workers : TermInv(w)

OverAll == \A w \in Workers : OverInv(w)

\* A save by a worker of a task that has ended leaves it ended.
LEMMA WorkerSaveKeepsEnd ==
  ASSUME BaseInv, OwnInv, TermAll, NEW w \in Workers, Saves(w), upd[w].task = wk[w].task,
         tasks[wk[w].task].file = "intact", IsTerminal(StateOf(wk[w].task))
  PROVE  IsTerminal(tasks'[wk[w].task].task.state)
<1>1. w \in Procs
  BY ServiceAssumption
<1> DEFINE t == wk[w].task
           e == upd[w].event
<1>2. /\ ~Stored(w) /\ ~Refused(tasks[t].task, e)
      /\ tasks'[t].task.state = IF e.kind = "status" THEN e.val ELSE StateOf(t)
  BY <1>1, SavedState
<1>3. CASE e.kind # "status"
  BY <1>2, <1>3
<1>4. CASE e.kind = "status"
  <2>1. upd[w].phase # "idle"
    BY DEF Saves
  <2>2. StateOf(t) # "canceled"
    BY <1>2, <1>4 DEF Refused, StateOf
  <2>3. WorkerUpdates(w) /\ TrackerInv(w)
    BY DEF OwnInv
  <2>4. wk[w].pc \in {"starting", "updating", "settling"}
    BY <2>1, <2>3 DEF WorkerUpdates
  <2>5. IsTerminal(wk[w].last)
    BY <1>2, <2>2, <2>4 DEF TermAll, TermInv, EndedBy, Holding
  <2>6. CASE wk[w].pc = "starting"
    BY <2>3, <2>5, <2>6 DEF TrackerInv, IsTerminal
  <2>7. CASE wk[w].pc = "updating"
    BY <1>2, <1>4, <2>1, <2>3, <2>5, <2>7 DEF WorkerUpdates, KeepsEnd
  <2>8. CASE wk[w].pc = "settling"
    BY <1>2, <1>4, <2>1, <2>3, <2>5, <2>8 DEF WorkerUpdates, TrackerInv, KeepsEnd, Status
  <2>9. QED
    BY <2>4, <2>6, <2>7, <2>8
<1>5. QED
  BY <1>3, <1>4

\* What is over stays over.
LEMMA OverStays ==
  ASSUME BaseInv, OwnInv, TermAll, [SvcNext]_allVars, NEW t \in Tasks, Over(t)
  PROVE  Over(t)'
<1>1. CASE tasks'[t] = tasks[t]
  BY <1>1 DEF Over, StateOf
<1>2. ASSUME NEW p \in Procs, upd[p].task = t, TearsTask(p)
      PROVE  Over(t)'
  BY <1>2, TornState DEF Over
<1>3. ASSUME NEW p \in Procs, upd[p].task = t, Saves(p)
      PROVE  Over(t)'
  <2>1. /\ tasks'[t].file = "intact" /\ upd[p].event.kind # "task"
        /\ tasks[t].file = "intact" /\ IsTerminal(StateOf(t))
        /\ tasks'[t].task.state = IF upd[p].event.kind = "status" THEN upd[p].event.val ELSE StateOf(t)
    BY <1>3, SavedState DEF Over
  <2>2. upd[p].phase # "idle"
    BY <1>3 DEF Saves
  <2>3. CASE p \in Clients
    <3>1. upd[p].event.kind = "message" \/ upd[p].event = Status("canceled")
      BY <2>1, <2>2, <2>3 DEF OwnInv, ClientUpdates
    <3>2. QED
      BY <2>1, <3>1 DEF Over, StateOf, Status, IsTerminal
  <2>4. CASE p \in Workers
    <3>1. wk[p].task = t
      BY <1>3, <2>2, <2>4 DEF OwnInv, WorkerUpdates
    <3>2. IsTerminal(tasks'[t].task.state)
      BY <1>3, <2>1, <2>4, <3>1, WorkerSaveKeepsEnd
    <3>3. QED
      BY <2>1, <3>2 DEF Over, StateOf
  <2>5. QED
    BY <2>3, <2>4, ServiceAssumption
<1>4. QED
  BY <1>1, <1>2, <1>3, TaskChange

\* A worker that has ended its task had ended it before a step that is no update.
LEMMA EndedWorker ==
  ASSUME BaseInv, OwnInv, NEW w \in Workers, WorkerStep(w)
  PROVE  /\ wk'[w].pc \in Holding \ {"check"} =>
              /\ wk[w].pc \in Holding /\ wk'[w].task = wk[w].task
              /\ EndedBy(w) <=> EndedBy(w)'
              /\ wk[w].pc = "check" /\ wk'[w].pc # "check" => ~IsTerminal(StateOf(wk[w].task))
         /\ wk'[w].pc = "check" => ~EndedBy(w)'
<1>1. Takes(w) \/ Ends(w) \/ Walks(w) \/ StartsUpdate(w) \/ Resumes(w)
  BY WorkerMoves
<1>2. WorkerUpdates(w) /\ TrackerInv(w)
  BY DEF OwnInv
<1>3. ~IsTerminal("none")
  BY DEF IsTerminal
<1>4. ASSUME upd[w].phase = "idle"
      PROVE  ~Stored(w)
  BY <1>4 DEF Stored
<1>5. ASSUME upd'[w].phase = "idle"
      PROVE  ~Stored(w)'
  BY <1>5 DEF Stored
<1>6. ASSUME upd'[w] = upd[w]
      PROVE  (Stored(w)' <=> Stored(w)) /\ (IsFinal(upd[w].event)' <=> IsFinal(upd[w].event))
  BY <1>6 DEF Stored
<1>7. CASE Takes(w)
  <2>1. upd[w].phase = "idle" /\ upd'[w].phase = "idle"
    BY <1>2, <1>7 DEF Takes, WorkerUpdates
  <2>2. QED
    BY <1>3, <1>5, <1>7, <2>1 DEF Takes, EndedBy, Holding
<1>8. CASE Ends(w)
  BY <1>8 DEF Ends, Holding
<1>9. CASE Walks(w)
  <2>1. EndedBy(w) <=> EndedBy(w)'
    BY <1>6, <1>9 DEF Walks, EndedBy
  <2>2. wk[w].pc \in {"lock", "check"} => ~EndedBy(w)
    BY <1>2, <1>3, <1>4 DEF WorkerUpdates, TrackerInv, EndedBy
  <2>3. wk'[w].pc = "check" => wk[w].pc \in {"lock", "check"}
    BY <1>9 DEF Walks, Moves
  <2>4. QED
    BY <1>9, <2>1, <2>2, <2>3 DEF Walks, Moves, Holding
<1>10. CASE StartsUpdate(w)
  <2>1. EndedBy(w) <=> EndedBy(w)'
    BY <1>4, <1>10 DEF StartsUpdate, EndedBy
  <2>2. QED
    BY <1>10, <2>1 DEF StartsUpdate, Moves, Holding
<1>11. CASE Resumes(w)
  <2>1. ~Stored(w)' /\ (Stored(w) <=> upd[w].ok)
    BY <1>5, <1>11 DEF Resumes, Stored
  <2>2. CASE wk[w].pc = "starting"
    <3>1. wk[w].last = "none" /\ wk'[w].last = wk[w].last /\ upd[w].event = Status("working")
      BY <1>2, <1>11, <2>2 DEF Resumes, Moves, TrackerInv, WorkerUpdates
    <3>2. ~IsFinal(upd[w].event)
      BY <3>1 DEF IsFinal, Status, IsTerminal
    <3>3. QED
      BY <1>3, <1>11, <2>1, <2>2, <3>1, <3>2 DEF EndedBy, Resumes, Moves, Holding
  <2>3. CASE wk[w].pc = "updating"
    <3>1. wk'[w].last = Tracked(wk[w].last, upd[w]) /\ wk'[w].pc = "running" /\ wk'[w].task = wk[w].task
      BY <1>11, <2>3 DEF Resumes, Moves
    <3>2. upd[w].event.kind = "status" => (IsTerminal(wk[w].last) => IsTerminal(upd[w].event.val))
      BY <1>2, <1>11, <2>3 DEF Resumes, WorkerUpdates, KeepsEnd
    <3>3. EndedBy(w) <=> EndedBy(w)'
      BY <2>1, <3>1, <3>2 DEF EndedBy, Tracked, IsFinal
    <3>4. QED
      BY <2>3, <3>1, <3>3 DEF Holding
  <2>4. QED
    BY <1>11, <2>2, <2>3 DEF Resumes, Moves
<1>12. QED
  BY <1>1, <1>7, <1>8, <1>9, <1>10, <1>11

\* A step of an update, seen from the worker w.
LEMMA EndedUpdate ==
  ASSUME BaseInv, NEW p \in Procs, UpdateStep(p), NEW w \in Workers
  PROVE  /\ wk'[w] = wk[w]
         /\ EndedBy(w) => EndedBy(w)'
         /\ EndedBy(w)' => EndedBy(w) \/ (p = w /\ Saves(p) /\ IsFinal(upd[p].event))
         /\ p = w /\ ~UNCHANGED tasks /\ IsFinal(upd[p].event) => TearsTask(p) \/ EndedBy(w)'
<1>1. TypeOK /\ UpdateInv /\ w \in Procs
  BY ServiceAssumption DEF BaseInv, SvcTypeOK
<1>2. wk' = wk
  BY DEF UpdateStep, serviceVars
<1>3. /\ upd'[p].event = upd[p].event
      /\ \A q \in Procs : q # p => upd'[q] = upd[q]
      /\ Stored(p) => Stored(p)'
      /\ UNCHANGED tasks /\ Stored(p)' => Stored(p)
      /\ UNCHANGED tasks \/ (TearsTask(p) /\ ~Stored(p)') \/ (Saves(p) /\ Stored(p)')
  BY <1>1, AdvanceForm DEF UpdateStep
<1>4. CASE p # w
  <2>1. upd'[w] = upd[w]
    BY <1>1, <1>3, <1>4
  <2>2. EndedBy(w) <=> EndedBy(w)'
    BY <1>2, <2>1 DEF EndedBy, Stored
  <2>3. QED
    BY <1>2, <1>4, <2>2
<1>5. CASE p = w
  BY <1>2, <1>3, <1>5 DEF EndedBy
<1>6. QED
  BY <1>4, <1>5

\* Only cancellation and the worker of a task can end it: every step keeps that.
LEMMA TermStep ==
  ASSUME UseLocker, BaseInv, LockInv, OwnInv, TermAll, [SvcNext]_allVars
  PROVE  TermAll'
<1>1. /\ TypeOK /\ UpdateInv /\ ServiceTypes /\ Shape /\ Procs = Workers \cup Clients
  BY ServiceTypesEq, ServiceAssumption DEF BaseInv
<1>2. ASSUME NEW w \in Workers, WorkerStep(w)
      PROVE  TermAll'
  <2>1. /\ UNCHANGED tasks
        /\ \A q \in Procs : q # w => upd'[q] = upd[q]
        /\ \A x \in Workers : x # w => wk'[x] = wk[x]
    BY <1>2, WorkerMoves
  <2>2. TermInv(w)'
    <3>1. SUFFICES ASSUME wk'[w].pc \in Holding \ {"check"}, tasks'[wk'[w].task].file = "intact",
                          IsTerminal(StateOf(wk[w].task))'
                   PROVE  StateOf(wk[w].task)' = "canceled" \/ EndedBy(w)'
      BY DEF TermInv
    <3>2. /\ wk[w].pc \in Holding /\ wk'[w].task = wk[w].task
          /\ EndedBy(w) <=> EndedBy(w)'
          /\ wk[w].pc = "check" => ~IsTerminal(StateOf(wk[w].task))
      BY <1>2, <3>1, EndedWorker
    <3>3. StateOf(wk[w].task)' = StateOf(wk[w].task)
      BY <2>1, <3>2 DEF StateOf
    <3>4. TermInv(w)
      BY DEF TermAll
    <3>5. QED
      BY <2>1, <3>1, <3>2, <3>3, <3>4 DEF TermInv
  <2>3. ASSUME NEW x \in Workers, x # w
        PROVE  TermInv(x)'
    <3>1. wk'[x] = wk[x] /\ upd'[x] = upd[x]
      BY <1>1, <2>1, <2>3
    <3>2. TermInv(x)
      BY DEF TermAll
    <3>3. QED
      BY <2>1, <3>1, <3>2 DEF TermInv, EndedBy, Stored, StateOf
  <2>4. QED
    BY <2>2, <2>3 DEF TermAll
<1>3. ASSUME NEW c \in Clients, Request(c) \/ RequestStep(c)
      PROVE  TermAll'
  <2>1. UNCHANGED <<tasks, wk>> /\ \A q \in Procs : q # c => upd'[q] = upd[q]
    BY <1>3, ClientMoves
  <2>2. \A w \in Workers : upd'[w] = upd[w]
    BY <2>1, ServiceAssumption
  <2>3. QED
    BY <2>1, <2>2 DEF TermAll, TermInv, EndedBy, Stored, StateOf
<1>4. ASSUME NEW p \in Procs, UpdateStep(p)
      PROVE  TermAll'
  <2> SUFFICES ASSUME NEW w \in Workers
               PROVE  TermInv(w)'
    BY DEF TermAll
  <2>1. /\ wk'[w] = wk[w] /\ TermInv(w)
        /\ EndedBy(w) => EndedBy(w)'
        /\ p = w /\ ~UNCHANGED tasks /\ IsFinal(upd[p].event) => TearsTask(p) \/ EndedBy(w)'
    BY <1>4, EndedUpdate DEF TermAll
  <2>2. SUFFICES ASSUME wk[w].pc \in Holding \ {"check"}, tasks'[wk[w].task].file = "intact",
                        IsTerminal(tasks'[wk[w].task].task.state)
                 PROVE  tasks'[wk[w].task].task.state = "canceled" \/ EndedBy(w)'
    BY <2>1 DEF TermInv, StateOf
  <2>3. PICK t \in Tasks : t = wk[w].task
    BY <1>1, <2>2, BusyTask DEF Holding
  <2>4. CASE tasks'[t] = tasks[t]
    BY <2>1, <2>2, <2>3, <2>4 DEF TermInv, StateOf
  <2>5. CASE tasks'[t] # tasks[t]
    <3>1. Saves(p) \/ TearsTask(p)
      BY <1>1, <1>4, <2>5, AdvanceForm DEF UpdateStep
    <3>2. Saves(p) /\ upd[p].task = t
      BY <2>2, <2>3, <2>5, <3>1, TornState, SavedState
    <3>3. \/ upd[p].event.kind = "task" /\ tasks'[t].task.state = "submitted"
          \/ /\ upd[p].event.kind # "task" /\ tasks[t].file = "intact"
             /\ tasks'[t].task.state = IF upd[p].event.kind = "status" THEN upd[p].event.val ELSE StateOf(t)
      BY <3>1, <3>2, SavedState
    <3>4. CASE upd[p].event.kind = "task"
      BY <2>2, <2>3, <3>3, <3>4 DEF IsTerminal
    <3>5. CASE upd[p].event.kind \notin {"task", "status"}
      BY <2>1, <2>2, <2>3, <3>3, <3>5 DEF TermInv
    <3>6. CASE upd[p].event.kind = "status"
      <4>1. upd[p].phase # "idle"
        BY <3>2 DEF Saves
      <4>2. CASE p \in Clients
        BY <2>3, <3>3, <3>6, <4>1, <4>2 DEF OwnInv, ClientUpdates, Status
      <4>3. CASE p \in Workers
        <5>1. wk[p].pc \in Holding /\ wk[p].task = t
          BY <3>2, <4>1, <4>3 DEF OwnInv, WorkerUpdates, Holding
        <5>2. p = w
          BY <2>2, <2>3, <4>3, <5>1, LockExcludes
        <5>3. IsFinal(upd[p].event)
          BY <2>2, <2>3, <3>3, <3>6 DEF IsFinal
        <5>4. ~TearsTask(p)
          BY <2>2, <2>3, <3>2, TornState
        <5>5. QED
          BY <2>1, <2>5, <5>2, <5>3, <5>4
      <4>4. QED
        BY <1>1, <4>2, <4>3
    <3>7. QED
      BY <3>4, <3>5, <3>6
  <2>6. QED
    BY <2>3, <2>4, <2>5
<1>5. CASE OtherStep
  BY <1>5, OtherMoves DEF TermAll, TermInv, EndedBy, Stored, StateOf
<1>6. CASE Restart
  BY <1>6, RestartMoves DEF TermAll, TermInv, Holding
<1>7. QED
  BY <1>2, <1>3, <1>4, <1>5, <1>6, ServiceSteps

\* A save of a final event ends the task.
LEMMA FinalSave ==
  ASSUME BaseInv, OwnInv, NEW p \in Procs, Saves(p), IsFinal(upd[p].event),
         NEW t \in Tasks, upd[p].task = t
  PROVE  Over(t)'
<1>1. upd[p].event.kind = "status" /\ IsTerminal(upd[p].event.val)
  BY DEF IsFinal
<1>2. upd[p].event.kind # "task"
  BY <1>1
<1>3. tasks'[t].file = "intact" /\ tasks'[t].task.state = upd[p].event.val
  BY <1>1, <1>2, SavedState
<1>4. QED
  BY <1>1, <1>3 DEF Over, StateOf

\* What a worker has ended is over after every step.
LEMMA OverStep ==
  ASSUME BaseInv, OwnInv, TermAll, OverAll, [SvcNext]_allVars
  PROVE  OverAll'
<1>1. /\ TypeOK /\ UpdateInv /\ ServiceTypes /\ Shape /\ Procs = Workers \cup Clients
  BY ServiceTypesEq, ServiceAssumption DEF BaseInv
<1>2. ASSUME NEW w \in Workers, wk[w].pc \in Holding, EndedBy(w)
      PROVE  wk[w].task \in Tasks /\ Over(wk[w].task)
  BY <1>1, <1>2, BusyTask DEF OverAll, OverInv, Holding
<1>3. ASSUME NEW t \in Tasks, Over(t), NEW x \in Workers, wk'[x].task = t
      PROVE  OverInv(x)'
  <2>1. tasks'[wk'[x].task].file = "torn" \/
          (tasks'[wk'[x].task].file = "intact" /\ IsTerminal(tasks'[wk'[x].task].task.state))
    BY <1>3, OverStays DEF Over, StateOf
  <2>2. QED
    BY <2>1 DEF OverInv, Over, StateOf
<1>4. ASSUME NEW w \in Workers, WorkerStep(w)
      PROVE  OverAll'
  <2>1. /\ \A q \in Procs : q # w => upd'[q] = upd[q]
        /\ \A x \in Workers : x # w => wk'[x] = wk[x]
    BY <1>4, WorkerMoves
  <2>2. OverInv(w)'
    <3>1. SUFFICES ASSUME wk'[w].pc \in Holding, EndedBy(w)'
                   PROVE  OverInv(w)'
      BY DEF OverInv
    <3>2. wk[w].pc \in Holding /\ wk'[w].task = wk[w].task /\ EndedBy(w)
      BY <1>4, <3>1, EndedWorker
    <3>3. QED
      BY <1>2, <1>3, <3>2
  <2>3. ASSUME NEW x \in Workers, x # w
        PROVE  OverInv(x)'
    <3>1. wk'[x] = wk[x] /\ upd'[x] = upd[x]
      BY <1>1, <2>1, <2>3
    <3>2. EndedBy(x)' => EndedBy(x)
      BY <3>1 DEF EndedBy, Stored
    <3>3. SUFFICES ASSUME wk'[x].pc \in Holding, EndedBy(x)'
                   PROVE  OverInv(x)'
      BY DEF OverInv
    <3>4. QED
      BY <1>2, <1>3, <3>1, <3>2, <3>3
  <2>4. QED
    BY <2>2, <2>3 DEF OverAll
<1>5. ASSUME NEW x \in Workers, wk'[x] = wk[x], EndedBy(x)' => EndedBy(x)
      PROVE  OverInv(x)'
  <2>1. SUFFICES ASSUME wk'[x].pc \in Holding, EndedBy(x)'
                 PROVE  OverInv(x)'
    BY DEF OverInv
  <2>2. QED
    BY <1>2, <1>3, <1>5, <2>1
<1>6. ASSUME NEW c \in Clients, Request(c) \/ RequestStep(c)
      PROVE  OverAll'
  <2>1. wk' = wk /\ \A q \in Procs : q # c => upd'[q] = upd[q]
    BY <1>6, ClientMoves
  <2>2. \A w \in Workers : wk'[w] = wk[w] /\ upd'[w] = upd[w]
    BY <2>1, ServiceAssumption
  <2>3. \A w \in Workers : EndedBy(w)' => EndedBy(w)
    BY <2>2 DEF EndedBy, Stored
  <2>4. QED
    BY <1>5, <2>2, <2>3 DEF OverAll
<1>7. ASSUME NEW p \in Procs, UpdateStep(p)
      PROVE  OverAll'
  <2> SUFFICES ASSUME NEW w \in Workers
               PROVE  OverInv(w)'
    BY DEF OverAll
  <2>1. /\ wk'[w] = wk[w]
        /\ EndedBy(w)' => EndedBy(w) \/ (p = w /\ Saves(p) /\ IsFinal(upd[p].event))
    BY <1>7, EndedUpdate
  <2>2. CASE p = w /\ Saves(p) /\ IsFinal(upd[p].event)
    <3>1. PICK t \in Tasks : t = upd[p].task
      BY <1>1, <2>2, ActiveEvent DEF Saves
    <3>2. Over(t)' /\ t = wk[w].task
      BY <2>2, <3>1, FinalSave DEF Saves, OwnInv, WorkerUpdates
    <3>3. QED
      BY <2>1, <3>1, <3>2 DEF OverInv, Over, StateOf
  <2>3. CASE EndedBy(w)' => EndedBy(w)
    BY <1>5, <2>1, <2>3
  <2>4. QED
    BY <2>1, <2>2, <2>3
<1>8. CASE OtherStep
  <2>1. UNCHANGED <<upd, wk>>
    BY <1>8, OtherMoves
  <2>2. \A w \in Workers : wk'[w] = wk[w] /\ (EndedBy(w)' => EndedBy(w))
    BY <2>1 DEF EndedBy, Stored
  <2>3. QED
    BY <1>5, <2>2 DEF OverAll
<1>9. CASE Restart
  BY <1>9, RestartMoves DEF OverAll, OverInv, Holding
<1>10. QED
  BY <1>4, <1>6, <1>7, <1>8, <1>9, ServiceSteps

\* With a TaskLocker: the invariant of jobs.
JobInv == BaseInv /\ LockInv /\ OwnInv /\ TermAll /\ OverAll

\* The invariant of jobs holds at the start.
LEMMA JobInit ==
  ASSUME SvcInit
  PROVE  JobInv
<1>1. BaseInv
  BY BaseInit
<1>2. /\ \A p \in Procs : upd[p].phase = "idle"
      /\ \A w \in Workers : wk[w].pc = "idle"
  BY DEF SvcInit, Init, IdleUpdate, NoJob
<1>3. QED
  BY <1>1, <1>2, ServiceAssumption
     DEF JobInv, LockInv, OwnInv, TermAll, OverAll, Holding, WorkerUpdates, TrackerInv,
         ClientUpdates, TermInv, OverInv

(***************************************************************************)
(* With a TaskLocker a worker past the lock owns it, updates only its own  *)
(* task, and a task that has ended under it was canceled or ended by it.   *)
(***************************************************************************)
THEOREM JobInvariant == UseLocker => (SvcSpec => []JobInv)
<1>1. SvcInit => JobInv
  BY JobInit
<1>2. UseLocker /\ JobInv /\ [SvcNext]_allVars => JobInv'
  BY BaseStep, LockStep, OwnStep, TermStep, OverStep DEF JobInv
<1>3. CASE UseLocker
  <2>1. JobInv /\ [SvcNext]_allVars => JobInv'
    BY <1>2, <1>3
  <2>2. SvcSpec => []JobInv
    BY <1>1, <2>1, PTL DEF SvcSpec
  <2>3. QED
    BY <2>2
<1>4. QED
  BY <1>3

(***************************************************************************)
(* With a TaskLocker a task that has ended is never started again,         *)
(* whatever jobs are redelivered, however requests, cancellations, crashes *)
(* and the agents of other workers interleave with ProcessJob's single     *)
(* check of the state.                                                     *)
(***************************************************************************)
THEOREM EndedStaysEnded == UseLocker => (SvcSpec => TerminalNotRestarted)
<1>1. JobInv /\ [SvcNext]_allVars =>
        [\A t \in Tasks :
           tasks[t].file = "intact" /\ IsTerminal(StateOf(t)) =>
             tasks'[t].file = "torn" \/ IsTerminal(tasks'[t].task.state)]_allVars
  <2> SUFFICES ASSUME JobInv, [SvcNext]_allVars, NEW t \in Tasks,
                      tasks[t].file = "intact", IsTerminal(StateOf(t))
               PROVE  tasks'[t].file = "torn" \/ IsTerminal(tasks'[t].task.state)
    OBVIOUS
  <2>1. Over(t)'
    BY OverStays DEF JobInv, Over
  <2>2. QED
    BY <2>1 DEF Over, StateOf
<1>2. CASE UseLocker
  <2>1. SvcSpec => []JobInv
    BY <1>2, JobInvariant
  <2>2. SvcSpec => TerminalNotRestarted
    BY <1>1, <2>1, PTL DEF SvcSpec, TerminalNotRestarted
  <2>3. QED
    BY <2>2
<1>3. QED
  BY <1>2

-----------------------------------------------------------------------------
(* The fourth layer: the messages of a queue that redelivers. *)

\* The jobs of a sequence.
Queued(q, t) == \E i \in DOMAIN q : q[i] = t

\* Taking one job out of the queue leaves the jobs of the other tasks.
LEMMA WithoutKeeps ==
  ASSUME NEW q \in Seq(Tasks), NEW i \in DOMAIN q, NEW t, t # q[i], Queued(q, t)
  PROVE  Queued(Without(q, i), t)
<1>1. PICK j \in DOMAIN q : q[j] = t
  BY DEF Queued
<1>2. PICK n \in Nat : n = Len(q) /\ DOMAIN q = 1 .. n
  OBVIOUS
<1>3. i \in 1 .. n /\ j \in 1 .. n /\ i # j
  BY <1>1, <1>2
<1>4. /\ SubSeq(q, 1, i - 1) \in Seq(Tasks) /\ Len(SubSeq(q, 1, i - 1)) = i - 1
      /\ \A k \in 1 .. i - 1 : SubSeq(q, 1, i - 1)[k] = q[k]
  <2>1. 1 \in Int /\ i - 1 \in Int /\ \A k \in 1 .. i - 1 : q[k] \in Tasks
    BY <1>2, <1>3
  <2>2. /\ SubSeq(q, 1, i - 1) \in Seq(Tasks)
        /\ Len(SubSeq(q, 1, i - 1)) = IF 1 <= i - 1 THEN i - 1 - 1 + 1 ELSE 0
        /\ \A k \in 1 .. i - 1 - 1 + 1 : SubSeq(q, 1, i - 1)[k] = q[1 + k - 1]
    BY <2>1, SubSeqProperties
  <2>3. i - 1 - 1 + 1 = i - 1 /\ (IF 1 <= i - 1 THEN i - 1 - 1 + 1 ELSE 0) = i - 1
    BY <1>3
  <2>4. \A k \in 1 .. i - 1 : 1 + k - 1 = k
    BY <1>3
  <2>5. QED
    BY <2>2, <2>3, <2>4
<1>5. /\ SubSeq(q, i + 1, n) \in Seq(Tasks) /\ Len(SubSeq(q, i + 1, n)) = n - i
      /\ \A k \in 1 .. n - i : SubSeq(q, i + 1, n)[k] = q[i + k]
  <2>1. i + 1 \in Int /\ n \in Int /\ \A k \in i + 1 .. n : q[k] \in Tasks
    BY <1>2, <1>3
  <2>2. /\ SubSeq(q, i + 1, n) \in Seq(Tasks)
        /\ Len(SubSeq(q, i + 1, n)) = IF i + 1 <= n THEN n - (i + 1) + 1 ELSE 0
        /\ \A k \in 1 .. n - (i + 1) + 1 : SubSeq(q, i + 1, n)[k] = q[i + 1 + k - 1]
    BY <2>1, SubSeqProperties
  <2>3. n - (i + 1) + 1 = n - i /\ (IF i + 1 <= n THEN n - (i + 1) + 1 ELSE 0) = n - i
    BY <1>3
  <2>4. \A k \in 1 .. n - i : i + 1 + k - 1 = i + k
    BY <1>3
  <2>5. QED
    BY <2>2, <2>3, <2>4
<1>6. PICK a \in Seq(Tasks), b \in Seq(Tasks) :
        /\ Without(q, i) = a \o b
        /\ Len(a) = i - 1 /\ \A k \in 1 .. i - 1 : a[k] = q[k]
        /\ Len(b) = n - i /\ \A k \in 1 .. n - i : b[k] = q[i + k]
  BY <1>2, <1>4, <1>5 DEF Without
<1>7. PICK c \in Seq(Tasks) :
        /\ c = a \o b /\ Len(c) = i - 1 + (n - i)
        /\ \A k \in 1 .. i - 1 + (n - i) : c[k] = IF k <= i - 1 THEN a[k] ELSE b[k - (i - 1)]
  <2>1. /\ a \o b \in Seq(Tasks) /\ Len(a \o b) = Len(a) + Len(b)
        /\ \A k \in 1 .. Len(a) + Len(b) :
             (a \o b)[k] = IF k <= Len(a) THEN a[k] ELSE b[k - Len(a)]
    BY ConcatProperties, Zenon
  <2>2. Len(a) = i - 1 /\ Len(b) = n - i
    BY <1>6
  <2>3. QED
    BY <2>1, <2>2, Zenon
<1>8. DOMAIN c = 1 .. i - 1 + (n - i)
  BY <1>7
<1>9. CASE j < i
  <2>1. j \in 1 .. i - 1 /\ j \in 1 .. i - 1 + (n - i) /\ j <= i - 1
    BY <1>3, <1>9
  <2>2. c[j] = t
    BY <1>1, <1>6, <1>7, <2>1
  <2>3. QED
    BY <1>6, <1>7, <1>8, <2>1, <2>2 DEF Queued
<1>10. CASE j > i
  <2>1. PICK k \in 1 .. i - 1 + (n - i) : k = j - 1
    BY <1>3, <1>10
  <2>2. ~(k <= i - 1) /\ k - (i - 1) = j - i
    BY <1>3, <1>10, <2>1
  <2>3. j - i \in 1 .. n - i /\ i + (j - i) = j
    BY <1>3, <1>10
  <2>4. c[k] = b[j - i] /\ b[j - i] = q[i + (j - i)]
    BY <1>6, <1>7, <2>2, <2>3
  <2>5. c[k] = t
    BY <1>1, <2>3, <2>4
  <2>6. QED
    BY <1>6, <1>7, <1>8, <2>1, <2>5 DEF Queued
<1>11. QED
  BY <1>3, <1>9, <1>10

\* A job that is added is in the queue, and the others stay.
LEMMA AppendKeeps ==
  ASSUME NEW q \in Seq(Tasks), NEW s \in Tasks
  PROVE  Queued(Append(q, s), s) /\ \A t : Queued(q, t) => Queued(Append(q, s), t)
<1>1. PICK n \in Nat : n = Len(q) /\ DOMAIN q = 1 .. n
  OBVIOUS
<1>2. /\ DOMAIN Append(q, s) = 1 .. n + 1 /\ Append(q, s)[n + 1] = s
      /\ \A i \in 1 .. n : Append(q, s)[i] = q[i]
  BY <1>1
<1>3. Queued(Append(q, s), s)
  BY <1>1, <1>2 DEF Queued
<1>4. \A t : Queued(q, t) => Queued(Append(q, s), t)
  BY <1>1, <1>2 DEF Queued
<1>5. QED
  BY <1>3, <1>4

\* ProcessJob returns without giving the message back only if the task has ended.
LEMMA EndKeepsJob ==
  ASSUME Durable, BaseInv, OwnInv, NEW w \in Workers, WorkerStep(w), ~wk[w].stale,
         wk[w].pc \notin {"idle", "stopped"}, wk'[w].pc \in {"idle", "stopped"}
  PROVE  \/ queue' = Append(queue, wk[w].task)
         \/ abandoned' = [abandoned EXCEPT ![wk[w].task] = @ + 1]
         \/ wk[w].pc \in Holding /\ EndedBy(w)
<1>1. /\ TypeOK /\ ServiceTypes /\ Shape /\ wk \in [Workers -> WkRec] /\ wk[w] \in WkRec
      /\ WorkerUpdates(w) /\ TrackerInv(w)
  BY ServiceTypesEq DEF BaseInv, ServiceTypes, OwnInv
<1>2. HoldsMessage(w)
  BY DEF HoldsMessage
<1> DEFINE Goal == \/ queue' = Append(queue, wk[w].task)
                   \/ abandoned' = [abandoned EXCEPT ![wk[w].task] = @ + 1]
                   \/ wk[w].pc \in Holding /\ EndedBy(w)
<1>3. ASSUME FailJob(w) \/ LeaveJob(w)
      PROVE  Goal
  BY <1>2, <1>3 DEF FailJob, LeaveJob, QueueCallFails
<1>4. ASSUME NEW v, wk' = [wk EXCEPT ![w] = v], v.pc \notin {"idle", "stopped"}
      PROVE  Goal
  BY <1>1, <1>4
<1>5. ASSUME NEW pc, pc \notin {"idle", "stopped"}, wk' = [wk EXCEPT ![w].pc = pc]
      PROVE  Goal
  BY <1>1, <1>5 DEF WkRec
<1>6. CASE GiveUpLock(w) \/ CheckFails(w) \/ Abort(w)
  BY <1>3, <1>6 DEF GiveUpLock, CheckFails, Abort
<1>7. CASE AcquireLock(w) \/ AgentReturnsCanceled(w) \/ StartWorking(w) \/ SetOutcome(w)
  <2>1. CASE AcquireLock(w)
    BY <1>5, <2>1 DEF AcquireLock
  <2>2. CASE AgentReturnsCanceled(w)
    BY <1>5, <2>2 DEF AgentReturnsCanceled
  <2>3. CASE StartWorking(w)
    BY <1>5, <2>3 DEF StartWorking
  <2>4. CASE SetOutcome(w)
    BY <1>5, <2>4 DEF SetOutcome
  <2>5. QED
    BY <1>7, <2>1, <2>2, <2>3, <2>4
<1>8. CASE CheckTask(w)
  BY <1>3, <1>5, <1>8 DEF CheckTask
<1>9. CASE Started(w)
  BY <1>3, <1>5, <1>9 DEF Started
<1>10. CASE AgentUpdated(w) \/ \E e \in AgentEvents : AgentUpdate(w, e)
  <2>1. wk'[w].pc \in {"running", "updating"}
    BY <1>1, <1>10 DEF AgentUpdated, AgentUpdate, WkRec
  <2>2. QED
    BY <2>1
<1>11. CASE Monitor(w) \/ Redeliver(w)
  <2>1. wk'[w].pc = wk[w].pc
    BY <1>1, <1>11 DEF Monitor, MonitorCancels, HeartbeatFails, Redeliver, WkRec
  <2>2. QED
    BY <2>1
<1>12. ASSUME NEW s, NEW b, Settle(w, s, b)
       PROVE  Goal
  <2>1. wk'[w].pc = "settle"
    BY <1>1, <1>12 DEF Settle, WkRec
  <2>2. QED
    BY <2>1
<1>13. CASE AgentSucceeds(w)
  <2>1. CASE TrackerTerminal(w)
    <3>1. wk[w].pc \in Holding /\ EndedBy(w)
      BY <1>13, <2>1 DEF AgentSucceeds, TrackerTerminal, EndedBy, Holding
    <3>2. QED
      BY <3>1
  <2>2. CASE ~TrackerTerminal(w)
    BY <1>12, <1>13, <2>2 DEF AgentSucceeds
  <2>3. QED
    BY <2>1, <2>2
<1>14. CASE AgentFails(w) \/ \E s \in StatusErrors : AgentReturnsStatusError(w, s)
  BY <1>3, <1>12, <1>14 DEF AgentFails, AgentReturnsStatusError
<1>15. CASE Settled(w)
  <2>1. wk[w].pc = "settling" /\ upd[w].phase = "done"
    BY <1>15 DEF Settled, Finish
  <2>2. CASE wk[w].success /\ upd[w].ok
    <3>1. upd[w].event = Status("completed")
      BY <1>1, <2>1, <2>2 DEF WorkerUpdates, TrackerInv
    <3>2. IsFinal(upd[w].event)
      BY <3>1 DEF IsFinal, Status, IsTerminal
    <3>3. wk[w].pc \in Holding /\ EndedBy(w)
      BY <2>1, <2>2, <3>2 DEF EndedBy, Stored, Holding
    <3>4. QED
      BY <3>3
  <2>3. CASE ~(wk[w].success /\ upd[w].ok)
    BY <1>3, <1>15, <2>3 DEF Settled
  <2>4. QED
    BY <2>2, <2>3
<1>16. ~Dequeue(w) /\ ~WorkerStops(w)
  BY DEF Dequeue, WorkerStops
<1>17. QED
  BY <1>6, <1>7, <1>8, <1>9, <1>10, <1>11, <1>13, <1>14, <1>15, <1>16
     DEF WorkerStep, AgentStep, JobStep

\* The message of a job, with the queue as a whole.
LEMMA TokenForm ==
  ASSUME NEW t
  PROVE  /\ Token(t) <=> \/ Queued(queue, t) \/ abandoned[t] > 0
                         \/ \E w \in Workers : wk[w].task = t /\ ~wk[w].stale
         /\ Token(t)' <=> \/ Queued(queue', t) \/ abandoned'[t] > 0
                          \/ \E w \in Workers : wk'[w].task = t /\ ~wk'[w].stale
BY DEF Token, Queued

\* The message of a job is kept until the task is over.
LEMMA TokenWorker ==
  ASSUME Durable, BaseInv, OwnInv, OverAll, NEW w \in Workers, WorkerStep(w), NEW t \in Tasks
  PROVE  /\ Token(t) => Token(t)' \/ Over(t)
         /\ wk'[w].task = t /\ wk[w].task # t => Token(t)'
<1>1. /\ TypeOK /\ ServiceTypes /\ Shape /\ wk \in [Workers -> WkRec] /\ wk[w] \in WkRec
      /\ queue \in Seq(Tasks) /\ abandoned \in [Tasks -> Nat]
  BY ServiceTypesEq DEF BaseInv, ServiceTypes
<1>2. CASE Dequeue(w)
  <2>1. PICK i \in DOMAIN queue :
           /\ queue' = Without(queue, i)
           /\ \A x \in Workers : x # w => wk'[x] = wk[x]
           /\ wk'[w].task = queue[i] /\ ~wk'[w].stale
    BY <1>1, <1>2, DequeueForm
  <2>2. abandoned' = abandoned /\ wk[w].pc = "idle"
    BY <1>2 DEF Dequeue
  <2>3. wk[w].task # t
    BY <1>1, <2>2, UpdaterAssumption DEF Shape, WorkerShape
  <2>4. CASE t = queue[i]
    BY <2>1, <2>4, TokenForm
  <2>5. CASE t # queue[i]
    <3>1. Queued(queue, t) => Queued(queue', t)
      BY <1>1, <2>1, <2>5, WithoutKeeps
    <3>2. QED
      BY <2>1, <2>2, <2>3, <2>5, <3>1, TokenForm
  <2>6. QED
    BY <2>4, <2>5
<1>3. CASE JobEnds(w) /\ wk[w].pc \notin {"idle", "stopped"}
  <2>1. wk[w].task \in Tasks
    BY <1>1, <1>3, BusyTask
  <2>2. /\ queue' = queue \/ queue' = Append(queue, wk[w].task)
        /\ abandoned' = abandoned \/ abandoned' = [abandoned EXCEPT ![wk[w].task] = @ + 1]
        /\ wk'[w].task = NoTask /\ wk'[w].pc \in {"idle", "stopped"}
        /\ \A x \in Workers : x # w => wk'[x] = wk[x]
    BY <1>1, <1>3, <2>1, JobEndsEffect
  <2>3. Queued(queue, t) => Queued(queue', t)
    BY <1>1, <2>1, <2>2, AppendKeeps
  <2>4. abandoned[t] > 0 => abandoned'[t] > 0
    BY <1>1, <2>1, <2>2
  <2>5. CASE wk[w].task # t \/ wk[w].stale
    BY <2>2, <2>3, <2>4, <2>5, TokenForm, UpdaterAssumption
  <2>6. CASE wk[w].task = t /\ ~wk[w].stale
    <3>1. \/ queue' = Append(queue, t)
          \/ abandoned' = [abandoned EXCEPT ![t] = @ + 1]
          \/ wk[w].pc \in Holding /\ EndedBy(w)
      BY <1>3, <2>2, <2>6, EndKeepsJob
    <3>2. CASE queue' = Append(queue, t)
      BY <1>1, <2>6, <3>2, AppendKeeps, TokenForm
    <3>3. CASE abandoned' = [abandoned EXCEPT ![t] = @ + 1]
      <4>1. abandoned'[t] > 0
        BY <1>1, <3>3
      <4>2. QED
        BY <2>6, <4>1, TokenForm
    <3>4. CASE wk[w].pc \in Holding /\ EndedBy(w)
      BY <2>6, <3>4 DEF OverAll, OverInv
    <3>5. QED
      BY <3>1, <3>2, <3>3, <3>4
  <2>7. QED
    BY <2>5, <2>6
<1>4. CASE Goes(w)
  <2>1. /\ UNCHANGED <<queue, abandoned>> /\ wk'[w].task = wk[w].task /\ wk'[w].stale = wk[w].stale
        /\ \A x \in Workers : x # w => wk'[x] = wk[x]
    BY <1>1, <1>4 DEF Goes
  <2>2. \A x \in Workers : wk'[x].task = wk[x].task /\ wk'[x].stale = wk[x].stale
    BY <2>1
  <2>3. QED
    BY <2>1, <2>2, TokenForm
<1>5. CASE WorkerStops(w)
  <2>1. UNCHANGED <<queue, abandoned>> /\ wk' = [wk EXCEPT ![w].pc = "stopped"]
    BY <1>5 DEF WorkerStops
  <2>2. \A x \in Workers : wk'[x].task = wk[x].task /\ wk'[x].stale = wk[x].stale
    BY <1>1, <2>1 DEF WkRec
  <2>3. QED
    BY <2>1, <2>2, TokenForm
<1>6. CASE Redeliver(w)
  <2>1. /\ abandoned' = abandoned /\ queue' = Append(queue, wk[w].task)
        /\ wk' = [wk EXCEPT ![w].stale = TRUE] /\ wk[w].pc \notin {"idle", "stopped"}
    BY <1>6 DEF Redeliver
  <2>2. wk[w].task \in Tasks
    BY <1>1, <2>1, BusyTask
  <2>3. Queued(queue', wk[w].task) /\ (Queued(queue, t) => Queued(queue', t))
    BY <1>1, <2>1, <2>2, AppendKeeps
  <2>4. wk'[w].task = wk[w].task /\ \A x \in Workers : x # w => wk'[x] = wk[x]
    BY <1>1, <2>1 DEF WkRec
  <2>5. QED
    BY <2>1, <2>3, <2>4, TokenForm
<1>7. QED
  BY <1>1, <1>2, <1>3, <1>4, <1>5, <1>6, WorkerForms DEF WorkerStep

\* The messages of the queue are never lost, not even by a crash, before the task is over.
LEMMA TokenStep ==
  ASSUME Durable, BaseInv, OwnInv, OverAll, [SvcNext]_allVars, NEW t \in Tasks
  PROVE  /\ Token(t) => Token(t)' \/ Over(t)
         /\ \A w \in Workers : wk'[w].task = t /\ wk[w].task # t => Token(t)'
<1>1. /\ TypeOK /\ ServiceTypes /\ Shape /\ wk \in [Workers -> WkRec]
      /\ queue \in Seq(Tasks) /\ abandoned \in [Tasks -> Nat]
  BY ServiceTypesEq DEF BaseInv, ServiceTypes
<1>2. ASSUME NEW w \in Workers, WorkerStep(w)
      PROVE  /\ Token(t) => Token(t)' \/ Over(t)
             /\ \A x \in Workers : wk'[x].task = t /\ wk[x].task # t => Token(t)'
  BY <1>2, TokenWorker, WorkerMoves
<1>3. ASSUME NEW c \in Clients, Request(c) \/ RequestStep(c)
      PROVE  wk' = wk /\ (Token(t) => Token(t)')
  <2>1. /\ UNCHANGED <<wk, abandoned>>
        /\ queue' = queue \/ (queue' = Append(queue, cl[c].task) /\ cl[c].pc = "enqueue")
    BY <1>3, ClientMoves
  <2>2. cl[c].pc = "enqueue" => cl[c].task \in Tasks
    BY <1>1, RequestTask
  <2>3. Queued(queue, t) => Queued(queue', t)
    BY <1>1, <2>1, <2>2, AppendKeeps
  <2>4. QED
    BY <2>1, <2>3, TokenForm
<1>4. ASSUME UNCHANGED <<queue, abandoned, wk>>
      PROVE  wk' = wk /\ (Token(t) => Token(t)')
  BY <1>4, TokenForm
<1>5. ASSUME NEW s \in Tasks, Reappear(s)
      PROVE  wk' = wk /\ (Token(t) => Token(t)')
  <2>1. /\ wk' = wk /\ queue' = Append(queue, s)
        /\ abandoned' = [abandoned EXCEPT ![s] = @ - 1]
    BY <1>5 DEF Reappear
  <2>2. Queued(queue', s) /\ (Queued(queue, t) => Queued(queue', t))
    BY <1>1, <2>1, AppendKeeps
  <2>3. s # t => abandoned'[t] = abandoned[t]
    BY <1>1, <2>1
  <2>4. QED
    BY <2>1, <2>2, <2>3, TokenForm
<1>6. CASE Restart
  <2>1. /\ queue' = queue
        /\ abandoned'[t] = abandoned[t] + Cardinality(InFlight(t))
    BY <1>6 DEF Restart
  <2>2. Cardinality(InFlight(t)) \in Nat /\ (InFlight(t) # {} => Cardinality(InFlight(t)) > 0)
    BY InFlightCount
  <2>3. abandoned[t] > 0 \/ InFlight(t) # {} => abandoned'[t] > 0
    BY <1>1, <2>1, <2>2
  <2>4. ASSUME NEW w \in Workers, wk[w].task = t, ~wk[w].stale
        PROVE  InFlight(t) # {}
    BY <2>4 DEF InFlight, HoldsMessage
  <2>5. \A w \in Workers : wk'[w].task # t
    BY <1>6, RestartMoves, UpdaterAssumption
  <2>6. QED
    BY <2>1, <2>3, <2>4, <2>5, TokenForm
<1>7. CASE OtherStep
  BY <1>4, <1>5, <1>7 DEF OtherStep, BeginClose, allVars, serviceVars
<1>8. CASE \E p \in Procs : UpdateStep(p)
  BY <1>4, <1>8 DEF UpdateStep, serviceVars
<1>9. QED
  BY <1>2, <1>3, <1>6, <1>7, <1>8, ServiceSteps

\* A task is started only by a worker that has its job.
LEMMA ClaimedStep ==
  ASSUME BaseInv, OwnInv, [SvcNext]_allVars, NEW t \in Tasks,
         tasks'[t].file = "intact", tasks'[t].task.state = "working"
  PROVE  Claimed(t)
<1>1. CASE tasks'[t] = tasks[t]
  BY <1>1 DEF Claimed, StateOf
<1>2. CASE tasks'[t] # tasks[t]
  <2>1. PICK p \in Procs : upd[p].task = t /\ Saves(p)
    BY <1>2, TaskChange, TornState
  <2>2. upd[p].phase # "idle"
    BY <2>1 DEF Saves
  <2>3. /\ upd[p].event.kind # "task" /\ tasks[t].file = "intact"
        /\ "working" = IF upd[p].event.kind = "status" THEN upd[p].event.val ELSE StateOf(t)
    BY <2>1, SavedState
  <2>4. CASE p \in Clients
    <3>1. upd[p].event.kind = "message" \/ upd[p].event = Status("canceled")
      BY <2>2, <2>3, <2>4 DEF OwnInv, ClientUpdates
    <3>2. QED
      BY <2>3, <3>1 DEF Status, Claimed
  <2>5. CASE p \in Workers
    BY <2>1, <2>2, <2>5 DEF OwnInv, WorkerUpdates, Claimed
  <2>6. QED
    BY <2>4, <2>5, ServiceAssumption
<1>3. QED
  BY <1>1, <1>2

\* A task that was taken up keeps its message until it is over.
LEMMA TokenInvStep ==
  ASSUME Durable, BaseInv, OwnInv, TermAll, OverAll, TokenInv, [SvcNext]_allVars
  PROVE  TokenInv'
<1> SUFFICES ASSUME NEW t \in Tasks, Claimed(t)'
             PROVE  Token(t)' \/ Over(t)'
  BY DEF TokenInv
<1>1. CASE Claimed(t)
  <2>1. Token(t) \/ Over(t)
    BY <1>1 DEF TokenInv
  <2>2. QED
    BY <2>1, TokenStep, OverStays
<1>2. CASE ~Claimed(t)
  <2>1. \A w \in Workers : wk[w].task # t
    BY <1>2 DEF Claimed
  <2>2. ~(tasks'[t].file = "intact" /\ tasks'[t].task.state = "working")
    BY <1>2, ClaimedStep
  <2>3. \E w \in Workers : wk'[w].task = t
    BY <2>2 DEF Claimed, StateOf
  <2>4. QED
    BY <2>1, <2>3, TokenStep
<1>3. QED
  BY <1>1, <1>2

(***************************************************************************)
(* With a TaskLocker and a queue that redelivers a task that was started   *)
(* is never forgotten: crashes between any two storage and queue calls,    *)
(* failed calls, redelivered messages, shutdowns and cancellations leave   *)
(* it ended, waiting for input or with a job.                              *)
(***************************************************************************)
THEOREM StartedKeepsJob == UseLocker /\ Durable => (SvcSpec => []StartedTaskHasJob)
<1>1. SvcInit => TokenInv
  <2> SUFFICES ASSUME SvcInit
               PROVE  TokenInv
    OBVIOUS
  <2>1. (\A w \in Workers : wk[w].task = NoTask) /\ \A t \in Tasks : tasks[t].file = "absent"
    BY DEF SvcInit, Init, StorageInit, NoJob, NoSnapshot
  <2>2. QED
    BY <2>1, UpdaterAssumption DEF TokenInv, Claimed
<1>2. TokenInv => StartedTaskHasJob
  <2> SUFFICES ASSUME TokenInv, NEW t \in Tasks, Live(t), StateOf(t) = "working"
               PROVE  HasJob(t)
    BY DEF StartedTaskHasJob
  <2>1. Token(t)
    BY DEF TokenInv, Claimed, Live, Over, IsTerminal
  <2>2. QED
    BY <2>1 DEF Token, HasJob
<1>3. CASE UseLocker /\ Durable
  <2>1. JobInv /\ TokenInv /\ [SvcNext]_allVars => TokenInv'
    BY <1>3, TokenInvStep DEF JobInv
  <2>2. SvcSpec => []JobInv
    BY <1>3, JobInvariant
  <2>3. SvcSpec => []TokenInv
    BY <1>1, <2>1, <2>2, PTL DEF SvcSpec
  <2>4. SvcSpec => []StartedTaskHasJob
    BY <1>2, <2>3, PTL
  <2>5. QED
    BY <2>4
<1>4. QED
  BY <1>3

-----------------------------------------------------------------------------
(* The fifth layer: no task is forgotten while nothing but redeliveries goes wrong. *)

\* Neither crashes nor failing calls to store and queue.
Reliable == FaultKinds \cap {"crash", "storage", "queue"} = {}

\* None of these failures happens then.
LEMMA NoFailures ==
  ASSUME Reliable
  PROVE  ~Fault("crash") /\ ~Fault("storage") /\ ~Fault("queue")
BY DEF Reliable, Fault

\* The creation of a task does not fail by itself.
LEMMA CreateAdvance ==
  ASSUME Reliable, TypeOK, UpdateInv, NEW p \in Procs, Progress(p) \/ Failure(p),
         upd[p].event.kind = "task", upd'[p].phase = "done"
  PROVE  upd'[p].ok
<1>1. upd \in [Procs -> Update] /\ upd[p] \in Update
  BY DEF TypeOK
<1>2. ~AppendFails(p) /\ ~SaveFails(p)
  BY NoFailures DEF AppendFails, SaveFails
<1>3. CASE AppendEvents(p)
  <2>1. upd[p].phase = "append"
    BY <1>3 DEF AppendEvents
  <2>2. upd[p].event \notin Updates
    BY DEF Updates
  <2>3. Creating(p, upd[p].task) /\ streams[upd[p].task].file = "absent"
    BY <2>1, <2>2 DEF UpdateInv, AppendReady, Updating
  <2>4. AppendAccepts(upd[p].task, upd[p].version)
    BY <2>3 DEF Creating, AppendAccepts
  <2>5. upd' = [upd EXCEPT ![p].phase = "save"]
    BY <1>3, <2>4 DEF AppendEvents
  <2>6. QED
    BY <1>1, <2>5 DEF Update
<1>4. CASE SaveSnapshot(p)
  <2>1. SaveAccepts(upd[p].task, upd[p].version)
    BY <1>4 DEF SaveSnapshot, UpdateInv, SaveReady, Creating, SaveAccepts
  <2>2. upd' = [upd EXCEPT ![p] = AfterSave(upd[p])]
    BY <1>4, <2>1 DEF SaveSnapshot
  <2>3. AfterSave(upd[p]).phase = "done" => AfterSave(upd[p]).ok
    BY <1>1, UpdaterAssumption DEF AfterSave, Update
  <2>4. QED
    BY <1>1, <2>2, <2>3
<1>5. CASE ListConfigs(p) \/ ListFails(p)
  <2>1. Stored(p)
    BY <1>5 DEF ListConfigs, ListFails, Stored
  <2>2. QED
    BY <2>1, AdvanceForm DEF Stored
<1>6. ASSUME NEW c \in Configs, Notify(p, c) \/ NotifyFails(p, c)
      PROVE  upd'[p].ok
  <2>1. Stored(p)
    BY <1>6 DEF Notify, NotifyFails, Stored
  <2>2. QED
    BY <2>1, AdvanceForm DEF Stored
<1>7. QED
  BY <1>2, <1>3, <1>4, <1>5, <1>6 DEF Progress, Failure

\* A request that creates a task is in the middle of it.
LEMMA CreateInvStep ==
  ASSUME Reliable, BaseInv, OwnInv, CreateInv, [SvcNext]_allVars
  PROVE  CreateInv'
<1>1. TypeOK /\ UpdateInv /\ \A c \in Clients : c \in Procs /\ c \notin Workers
  BY ServiceAssumption DEF BaseInv, SvcTypeOK
<1>2. ASSUME NEW w \in Workers, WorkerStep(w)
      PROVE  CreateInv'
  <2>1. cl' = cl /\ \A c \in Clients : upd'[c] = upd[c]
    BY <1>1, <1>2, WorkerMoves
  <2>2. QED
    BY <2>1 DEF CreateInv
<1>3. ASSUME NEW c \in Clients, Request(c) \/ RequestStep(c)
      PROVE  CreateInv'
  <2>1. /\ \A x \in Clients : x # c => cl'[x] = cl[x] /\ upd'[x] = upd[x]
        /\ Opens(c) \/ Calls(c) \/ Returns(c) \/ HandsOver(c)
    BY <1>1, <1>3, ClientMoves
  <2>2. cl'[c].pc = "creating" => upd'[c].phase = "append"
    BY <2>1 DEF Opens, Calls, Returns, HandsOver
  <2>3. QED
    BY <2>1, <2>2 DEF CreateInv
<1>4. ASSUME NEW p \in Procs, UpdateStep(p)
      PROVE  CreateInv'
  <2>1. /\ upd'[p].phase # "idle" /\ upd[p].phase # "idle"
        /\ \A q \in Procs : q # p => upd'[q] = upd[q]
    BY <1>1, <1>4, AdvanceForm DEF UpdateStep
  <2>2. cl' = cl
    BY <1>4 DEF UpdateStep, serviceVars
  <2>3. ASSUME p \in Clients, cl[p].pc = "creating", upd'[p].phase = "done"
        PROVE  upd'[p].ok
    <3>1. upd[p].event.kind = "task"
      BY <2>1, <2>3 DEF OwnInv, ClientUpdates
    <3>2. QED
      BY <1>1, <1>4, <2>3, <3>1, CreateAdvance DEF UpdateStep
  <2>4. QED
    BY <1>1, <2>1, <2>2, <2>3 DEF CreateInv
<1>5. CASE OtherStep
  BY <1>5, OtherMoves DEF CreateInv
<1>6. ~Restart
  BY NoFailures DEF Restart, Crash
<1>7. QED
  BY <1>2, <1>3, <1>4, <1>5, <1>6, ServiceSteps

\* A final status stays in its stream.
LEMMA FinalStays ==
  ASSUME Reliable, BaseInv, [SvcNext]_allVars, NEW t \in Tasks, HasFinal(t)
  PROVE  HasFinal(t)'
<1>1. TypeOK /\ UpdateInv /\ streams \in [Tasks -> StreamFile]
  BY DEF BaseInv, SvcTypeOK, TypeOK, StorageTypeOK
<1>2. CASE streams'[t] = streams[t]
  BY <1>2 DEF HasFinal
<1>3. ASSUME NEW p \in Procs, UpdateStep(p)
      PROVE  HasFinal(t)'
  <2>1. CASE UNCHANGED streams
    BY <1>2, <2>1
  <2>2. CASE ~UNCHANGED streams
    <3>1. ~AppendFails(p)
      BY NoFailures DEF AppendFails
    <3>2. /\ streams' = Appended(upd[p].task, <<upd[p].event>>) /\ upd[p].phase = "append"
      BY <1>3, <2>2, <3>1 DEF UpdateStep, Progress, Failure, AppendEvents, SaveSnapshot, ListConfigs,
                              Notify, SaveFails, ListFails, NotifyFails, storageVars
    <3>3. upd[p].task \in Tasks /\ upd[p].event \in Event
      BY <1>1, <3>2, ActiveEvent
    <3>4. CASE upd[p].task # t
      <4>1. streams'[t] = streams[t]
        BY <1>1, <3>2, <3>3, <3>4 DEF Appended
      <4>2. QED
        BY <1>2, <4>1
    <3>5. CASE upd[p].task = t
      <4>1. PICK es \in Seq(Event) : es = streams[t].events
        BY <1>1 DEF StreamFile
      <4>2. streams'[t].events = es \o <<upd[p].event>>
        BY <1>1, <3>2, <3>5, <4>1 DEF Appended
      <4>3. PICK i \in 1 .. Len(es) : IsFinal(es[i])
        BY <4>1 DEF HasFinal
      <4>4. PICK one \in Seq(Event) : one = <<upd[p].event>> /\ Len(one) = 1
        <5>1. \A e \in Event : <<e>> \in Seq(Event) /\ Len(<<e>>) = 1
          OBVIOUS
        <5>2. QED
          BY <3>3, <5>1, Zenon
      <4>5. /\ es \o one \in Seq(Event) /\ Len(es \o one) = Len(es) + Len(one)
            /\ \A k \in 1 .. Len(es) + Len(one) :
                 (es \o one)[k] = IF k <= Len(es) THEN es[k] ELSE one[k - Len(es)]
        BY ConcatProperties, Zenon
      <4>6. i \in 1 .. Len(es) + Len(one) /\ i <= Len(es)
        BY <4>3, <4>4
      <4>7. (es \o one)[i] = es[i] /\ i \in DOMAIN (es \o one)
        BY <4>5, <4>6
      <4>8. QED
        BY <4>2, <4>3, <4>4, <4>7 DEF HasFinal
    <3>6. QED
      BY <3>4, <3>5
  <2>3. QED
    BY <2>1, <2>2
<1>4. ~Restart
  BY NoFailures DEF Restart, Crash
<1>5. QED
  BY <1>2, <1>3, <1>4, WorkerMoves, ClientMoves, OtherMoves, ServiceSteps

\* The event of a save is in the stream.
LEMMA FinalInvStep ==
  ASSUME Reliable, BaseInv, OwnInv, FinalInv, [SvcNext]_allVars
  PROVE  FinalInv'
<1> SUFFICES ASSUME NEW t \in Tasks, tasks'[t].file = "intact", IsTerminal(tasks'[t].task.state)
             PROVE  HasFinal(t)'
  BY DEF FinalInv, StateOf
<1>1. TypeOK /\ UpdateInv
  BY DEF BaseInv, SvcTypeOK
<1>2. HasFinal(t)
  <2>1. CASE tasks'[t] = tasks[t]
    BY <2>1 DEF FinalInv, StateOf
  <2>2. CASE tasks'[t] # tasks[t]
    <3>1. PICK p \in Procs : upd[p].task = t /\ Saves(p)
      BY <2>2, TaskChange, TornState
    <3>2. \/ tasks'[t].task.state = "submitted"
          \/ /\ tasks[t].file = "intact"
             /\ tasks'[t].task.state = IF upd[p].event.kind = "status" THEN upd[p].event.val ELSE StateOf(t)
      BY <3>1, SavedState
    <3>3. CASE upd[p].event.kind # "status"
      BY <3>2, <3>3 DEF FinalInv, IsTerminal
    <3>4. CASE upd[p].event.kind = "status"
      <4>1. IsFinal(upd[p].event)
        BY <3>2, <3>4 DEF IsFinal, IsTerminal
      <4>2. /\ Len(streams[t].events) = upd[p].version + 1
            /\ streams[t].events[upd[p].version + 1] = upd[p].event
            /\ upd[p].version \in Nat
        BY <1>1, <3>1 DEF Saves, UpdateInv, SaveReady, TypeOK, Update
      <4>3. DOMAIN streams[t].events = 1 .. Len(streams[t].events)
        BY <1>1 DEF TypeOK, StorageTypeOK, StreamFile
      <4>4. upd[p].version + 1 \in DOMAIN streams[t].events
        BY <4>2, <4>3
      <4>5. QED
        BY <4>1, <4>2, <4>4 DEF HasFinal
    <3>5. QED
      BY <3>3, <3>4
  <2>3. QED
    BY <2>1, <2>2
<1>3. QED
  BY <1>2, FinalStays

\* A task is created only for a request that will enqueue it.
LEMMA PendingStep ==
  ASSUME BaseInv, OwnInv, [SvcNext]_allVars, NEW t \in Tasks,
         tasks'[t].file = "intact", ~IsInterrupted(tasks'[t].task.state)
  PROVE  Pending(t) \/ Requested(t) \/ Over(t)'
<1>1. CASE tasks'[t] = tasks[t]
  BY <1>1 DEF Pending, StateOf
<1>2. CASE tasks'[t] # tasks[t]
  <2>1. PICK p \in Procs : upd[p].task = t /\ Saves(p)
    BY <1>2, TaskChange, TornState
  <2>2. upd[p].phase # "idle"
    BY <2>1 DEF Saves
  <2>3. \/ upd[p].event.kind = "task"
        \/ /\ tasks[t].file = "intact"
           /\ tasks'[t].task.state = IF upd[p].event.kind = "status" THEN upd[p].event.val ELSE StateOf(t)
    BY <2>1, SavedState
  <2>4. CASE p \in Clients
    <3>1. /\ cl[p].task = t
          /\ \/ cl[p].pc = "creating" /\ upd[p].event.kind = "task"
             \/ upd[p].event.kind = "message"
             \/ upd[p].event = Status("canceled")
      BY <2>1, <2>2, <2>4 DEF OwnInv, ClientUpdates
    <3>2. CASE cl[p].pc = "creating" /\ upd[p].event.kind = "task"
      BY <2>4, <3>1, <3>2 DEF Requested
    <3>3. CASE upd[p].event.kind = "message"
      BY <2>3, <3>3 DEF Pending
    <3>4. CASE upd[p].event = Status("canceled")
      BY <2>3, <3>4 DEF Over, StateOf, Status, IsTerminal
    <3>5. QED
      BY <3>1, <3>2, <3>3, <3>4
  <2>5. CASE p \in Workers
    BY <2>1, <2>2, <2>5 DEF OwnInv, WorkerUpdates, Pending
  <2>6. QED
    BY <2>4, <2>5, ServiceAssumption
<1>3. QED
  BY <1>1, <1>2

\* The request that creates a task hands it to the queue.
LEMMA RequestedStep ==
  ASSUME Reliable, BaseInv, CreateInv, [SvcNext]_allVars, NEW t \in Tasks, Requested(t)
  PROVE  Requested(t)' \/ Token(t)'
<1>1. PICK c \in Clients : cl[c].task = t /\ cl[c].pc \in {"creating", "enqueue"}
  BY DEF Requested
<1>2. queue \in Seq(Tasks)
  BY DEF BaseInv, SvcTypeOK
<1>3. CASE cl'[c] = cl[c]
  BY <1>1, <1>3 DEF Requested
<1>4. ASSUME Request(c) \/ RequestStep(c)
      PROVE  Requested(t)' \/ Token(t)'
  <2>1. Opens(c) \/ Calls(c) \/ Returns(c) \/ HandsOver(c)
    BY <1>4, ClientMoves
  <2>2. CASE Opens(c) \/ Calls(c)
    BY <1>1, <2>2 DEF Opens, Calls
  <2>3. CASE Returns(c)
    BY <1>1, <2>3 DEF Returns, CreateInv, Requested
  <2>4. CASE HandsOver(c)
    <3>1. queue' = Append(queue, t)
      BY <1>1, <2>4, NoFailures DEF HandsOver
    <3>2. QED
      BY <1>2, <3>1, AppendKeeps, TokenForm
  <2>5. QED
    BY <2>1, <2>2, <2>3, <2>4
<1>5. ASSUME NEW x \in Clients, Request(x) \/ RequestStep(x)
      PROVE  Requested(t)' \/ Token(t)'
  BY <1>3, <1>4, <1>5, ClientMoves
<1>6. ~Restart
  BY NoFailures DEF Restart, Crash
<1>7. CASE \E p \in Procs : UpdateStep(p)
  BY <1>3, <1>7 DEF UpdateStep, serviceVars
<1>8. QED
  BY <1>3, <1>5, <1>6, <1>7, WorkerMoves, OtherMoves, ServiceSteps

\* Every task that does not wait for input has a message, a request or an end.
LEMMA RequestInvStep ==
  ASSUME Reliable, Durable, BaseInv, OwnInv, TermAll, OverAll, CreateInv, RequestInv,
         [SvcNext]_allVars
  PROVE  RequestInv'
<1> SUFFICES ASSUME NEW t \in Tasks, Pending(t)'
             PROVE  Token(t)' \/ Requested(t)' \/ Over(t)'
  BY DEF RequestInv
<1>1. ASSUME Token(t) \/ Requested(t) \/ Over(t)
      PROVE  Token(t)' \/ Requested(t)' \/ Over(t)'
  BY <1>1, TokenStep, RequestedStep, OverStays
<1>2. CASE Pending(t) \/ Requested(t)
  BY <1>1, <1>2 DEF RequestInv
<1>3. CASE ~Pending(t) /\ ~Requested(t)
  <2>1. \A w \in Workers : wk[w].task # t
    BY <1>3 DEF Pending
  <2>2. CASE \E w \in Workers : wk'[w].task = t
    BY <2>1, <2>2, TokenStep
  <2>3. CASE tasks'[t].file = "intact" /\ ~IsInterrupted(tasks'[t].task.state)
    BY <1>3, <2>3, PendingStep
  <2>4. QED
    BY <2>2, <2>3 DEF Pending, StateOf
<1>4. QED
  BY <1>2, <1>3

(***************************************************************************)
(* No task is forgotten: as long as nothing but redeliveries and           *)
(* notifications go wrong, a task that is not waiting for input and has no *)
(* final status is queued, hidden, being processed or about to be queued   *)
(* by the request that created it.                                         *)
(***************************************************************************)
THEOREM NoTaskForgotten == Reliable /\ UseLocker /\ Durable => (SvcSpec => []LiveTaskHasJob)
<1> DEFINE Layer == FinalInv /\ CreateInv /\ RequestInv
<1>1. SvcInit => Layer
  <2> SUFFICES ASSUME SvcInit
               PROVE  Layer
    OBVIOUS
  <2>1. (\A w \in Workers : wk[w].task = NoTask) /\ \A t \in Tasks : tasks[t].file = "absent"
    BY DEF SvcInit, Init, StorageInit, NoJob, NoSnapshot
  <2>2. \A c \in Clients : cl[c].pc = "idle"
    BY DEF SvcInit, NoRequest
  <2>3. QED
    BY <2>1, <2>2, UpdaterAssumption DEF FinalInv, CreateInv, RequestInv, Pending
<1>2. Layer => LiveTaskHasJob
  <2> SUFFICES ASSUME Layer, NEW t \in Tasks, Live(t)
               PROVE  HasJob(t)
    BY DEF LiveTaskHasJob
  <2>1. Pending(t) /\ ~Over(t)
    BY DEF Pending, Live, Over, FinalInv
  <2>2. Token(t) \/ Requested(t)
    BY <2>1 DEF RequestInv
  <2>3. QED
    BY <2>2 DEF Token, Requested, HasJob
<1>3. CASE Reliable /\ UseLocker /\ Durable
  <2>1. JobInv /\ Layer /\ [SvcNext]_allVars => Layer'
    BY <1>3, FinalInvStep, CreateInvStep, RequestInvStep DEF JobInv
  <2>2. SvcSpec => []JobInv
    BY <1>3, JobInvariant
  <2> HIDE DEF Layer
  <2>3. SvcSpec => []Layer
    BY <1>1, <2>1, <2>2, PTL DEF SvcSpec
  <2>4. SvcSpec => []LiveTaskHasJob
    BY <1>2, <2>3, PTL
  <2>5. QED
    BY <2>4
<1>4. QED
  BY <1>3

=============================================================================
