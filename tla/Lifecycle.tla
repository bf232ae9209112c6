----------------------------- MODULE Lifecycle -----------------------------
(***************************************************************************)
(* Starting and stopping a service: Server.RunWithContext and Shutdown,    *)
(* AgentService.Start and Close, the worker loop, and InMemoryJobQueue     *)
(* with its channel (atlasic.go, jobqueue.go).  What matters here is who   *)
(* waits for whom: the service's RWMutex s.mu, the queue's RWMutex, the    *)
(* channel, the WaitGroup of the worker and http.Server.Shutdown.  A       *)
(* pending Lock of a sync.RWMutex keeps new readers out.                   *)
(***************************************************************************)
EXTENDS Naturals, FiniteSets

CONSTANTS Requests,      \* HTTP requests that create a task
          QueueSize      \* capacity of the job channel

ASSUME LifecycleAssumption == QueueSize \in Nat \ {0}

VARIABLES req,      \* req[r]: where request r is
          worker,   \* where the worker goroutine is
          job,      \* the request whose job the worker has, or "none"
          jobs,     \* requests whose job is in the channel
          ended,    \* requests whose task has reached a final status
          qclosed,  \* the channel is closed
          ctxDone,  \* the worker's context is canceled
          serving,  \* new requests reach the service
          closer    \* where the goroutine that stops the service is

vars == <<req, worker, job, jobs, ended, qclosed, ctxDone, serving, closer>>

ReqPCs == {"idle", "id", "lock", "send", "wait", "done", "panicked"}

WorkerPCs == {"off", "loop", "dequeue", "execute", "id", "exited"}

CloserPCs == {"run", "http", "lock", "join", "qlock", "closed"}

-----------------------------------------------------------------------------
(* The two locks, read off the program counters of those who use them. *)

\* Close holds s.mu from its first line to its last: defer s.mu.Unlock().
CloseHoldsMu == closer \in {"join", "qlock"}

\* s.mu.RLock succeeds: no Lock is held, and none is pending.
MuReadable == ~CloseHoldsMu /\ closer # "lock"

QueueReaders == {r \in Requests : req[r] = "send"}

QueueLockIgnoringReaders == TRUE

\* q.mu.Lock succeeds: no Enqueue is inside.
QueueLockFree == QueueReaders = {}

\* q.mu.RLock succeeds: Close neither holds nor waits for q.mu.
QueueReadable == closer # "qlock"

-----------------------------------------------------------------------------
(* Requests. *)

Arrive(r) ==
  /\ req[r] = "idle"
  /\ serving
  /\ req' = [req EXCEPT ![r] = "id"]
  /\ UNCHANGED <<worker, job, jobs, ended, qclosed, ctxDone, serving, closer>>

\* getIDGenerator, and the task is created.
GetID(r) ==
  /\ req[r] = "id"
  /\ MuReadable
  /\ req' = [req EXCEPT ![r] = "lock"]
  /\ UNCHANGED <<worker, job, jobs, ended, qclosed, ctxDone, serving, closer>>

\* Enqueue's check under the read lock.
EnqueueGoes(r) == IF qclosed THEN "done" ELSE "send"

EnqueueLock(r) ==
  /\ req[r] = "lock"
  /\ QueueReadable
  /\ req' = [req EXCEPT ![r] = EnqueueGoes(r)]
  /\ UNCHANGED <<worker, job, jobs, ended, qclosed, ctxDone, serving, closer>>

\* The channel takes another job without blocking.
ChannelHasRoom == Cardinality(jobs) < QueueSize

\* q.jobs <- job: panics on a closed channel, waits on a full one.  A blocking request goes on to wait.
EnqueueSend(r) ==
  /\ req[r] = "send"
  /\ qclosed \/ ChannelHasRoom
  /\ jobs' = IF qclosed THEN jobs ELSE jobs \cup {r}
  /\ \E goesOn \in {"wait", "done"} :
       req' = [req EXCEPT ![r] = IF qclosed THEN "panicked" ELSE goesOn]
  /\ UNCHANGED <<worker, job, ended, qclosed, ctxDone, serving, closer>>

\* waitForTaskCompletion sees the final status.
WaitEnds(r) ==
  /\ req[r] = "wait"
  /\ r \in ended
  /\ req' = [req EXCEPT ![r] = "done"]
  /\ UNCHANGED <<worker, job, jobs, ended, qclosed, ctxDone, serving, closer>>

\* The context of the request ends while it waits: its client went away.
Leave(r) ==
  /\ req[r] \in {"send", "wait"}
  /\ req' = [req EXCEPT ![r] = "done"]
  /\ UNCHANGED <<worker, job, jobs, ended, qclosed, ctxDone, serving, closer>>

-----------------------------------------------------------------------------
(* The worker. *)

\* Start, at most once.
Start ==
  /\ worker = "off"
  /\ closer = "run"
  /\ worker' = "loop"
  /\ UNCHANGED <<req, job, jobs, ended, qclosed, ctxDone, serving, closer>>

\* select { case <-ctx.Done(): return; default: Dequeue }
LoopGoes == IF ctxDone THEN "exited" ELSE "dequeue"

WorkerLoop ==
  /\ worker = "loop"
  /\ worker' = LoopGoes
  /\ UNCHANGED <<req, job, jobs, ended, qclosed, ctxDone, serving, closer>>

DequeueEndsWhenClosed == qclosed /\ jobs = {}

\* case <-ctx.Done(), or a closed channel that is empty.
DequeueEnds == ctxDone \/ (qclosed /\ jobs = {})

\* Dequeue: a job, the end of the context or the end of a closed channel.
Dequeue ==
  /\ worker = "dequeue"
  /\ \/ /\ \E r \in jobs : job' = r /\ jobs' = jobs \ {r}
        /\ worker' = "execute"
     \/ /\ DequeueEnds
        /\ worker' = "exited"
        /\ UNCHANGED <<job, jobs>>
  /\ UNCHANGED <<req, ended, qclosed, ctxDone, serving, closer>>

\* The agent, or ProcessJob for it, generates a message ID.
NeedID ==
  /\ worker = "execute"
  /\ worker' = "id"
  /\ UNCHANGED <<req, job, jobs, ended, qclosed, ctxDone, serving, closer>>

GotID ==
  /\ worker = "id"
  /\ MuReadable
  /\ worker' = "execute"
  /\ UNCHANGED <<req, job, jobs, ended, qclosed, ctxDone, serving, closer>>

LoopLeft == "exited"

\* The loop goes on after a job, failed or not.
AfterJob == "loop"

\* The job ends with a final status, or without one once the context is canceled.
JobEnds ==
  /\ worker = "execute"
  /\ worker' = AfterJob
  /\ job' = "none"
  /\ \/ ended' = ended \cup {job}
     \/ ctxDone /\ UNCHANGED ended
  /\ UNCHANGED <<req, jobs, qclosed, ctxDone, serving, closer>>

-----------------------------------------------------------------------------
(* Stopping. *)

\* The context of RunWithContext ends (it is the worker's parent): no new requests.
StopServer ==
  /\ closer = "run"
  /\ closer' = "http"
  /\ ctxDone' = TRUE
  /\ serving' = FALSE
  /\ UNCHANGED <<req, worker, job, jobs, ended, qclosed>>

\* Close is called by the user of the service, which may still get requests.
CallClose ==
  /\ closer = "run"
  /\ closer' = "lock"
  /\ UNCHANGED <<req, worker, job, jobs, ended, qclosed, ctxDone, serving>>

\* http.Server.Shutdown with context.Background(): waits until every request is answered.
HTTPShutdown ==
  /\ closer = "http"
  /\ \A r \in Requests : req[r] \in {"idle", "done", "panicked"}
  /\ closer' = "lock"
  /\ UNCHANGED <<req, worker, job, jobs, ended, qclosed, ctxDone, serving>>

\* s.mu.Lock() and workerCancel(); GetID and GotID hold the read lock for one step only.
CloseLocks ==
  /\ closer = "lock"
  /\ closer' = "join"
  /\ ctxDone' = TRUE
  /\ UNCHANGED <<req, worker, job, jobs, ended, qclosed, serving>>

NotJoined == TRUE

WorkersDone == worker \in {"off", "exited"}

\* workerWg.Wait(), then the queue is asked to close.
CloseJoins ==
  /\ closer = "join"
  /\ WorkersDone
  /\ closer' = "qlock"
  /\ UNCHANGED <<req, worker, job, jobs, ended, qclosed, ctxDone, serving>>

\* InMemoryJobQueue.Close; Close returns and releases s.mu.
QueueClose ==
  /\ closer = "qlock"
  /\ QueueLockFree
  /\ qclosed' = TRUE
  /\ closer' = "closed"
  /\ UNCHANGED <<req, worker, job, jobs, ended, ctxDone, serving>>

-----------------------------------------------------------------------------
Init ==
  /\ req = [r \in Requests |-> "idle"]
  /\ worker = "off"
  /\ job = "none"
  /\ jobs = {}
  /\ ended = {}
  /\ qclosed = FALSE
  /\ ctxDone = FALSE
  /\ serving = TRUE
  /\ closer = "run"

RequestStep(r) == GetID(r) \/ EnqueueLock(r) \/ EnqueueSend(r) \/ WaitEnds(r)

WorkerStep == WorkerLoop \/ Dequeue \/ GotID \/ JobEnds

CloserStep == HTTPShutdown \/ CloseLocks \/ CloseJoins \/ QueueClose

Next ==
  \/ \E r \in Requests : Arrive(r) \/ RequestStep(r) \/ Leave(r)
  \/ Start \/ WorkerStep \/ NeedID
  \/ StopServer \/ CallClose \/ CloserStep

Spec == Init /\ [][Next]_vars

(***************************************************************************)
(* Fairness: every goroutine that can go on does; the agent returns in the *)
(* end (strong fairness, since it may ask for an ID any number of times    *)
(* before).  Nobody has to send or to give up a request or to stop the     *)
(* service.                                                                *)
(***************************************************************************)
FairSpec ==
  /\ Spec
  /\ \A r \in Requests : WF_vars(RequestStep(r))
  /\ WF_vars(Start) /\ WF_vars(WorkerStep) /\ SF_vars(JobEnds)
  /\ WF_vars(CloserStep)

-----------------------------------------------------------------------------
(* Properties. *)

\* The variables keep their types; the channel holds at most QueueSize jobs.
TypeOK ==
  /\ req \in [Requests -> ReqPCs]
  /\ worker \in WorkerPCs
  /\ job \in Requests \cup {"none"}
  /\ jobs \subseteq Requests /\ Cardinality(jobs) <= QueueSize
  /\ ended \subseteq Requests
  /\ qclosed \in BOOLEAN /\ ctxDone \in BOOLEAN /\ serving \in BOOLEAN
  /\ closer \in CloserPCs

(***************************************************************************)
(* No request panics: Enqueue sends with the read lock held, so the        *)
(* channel is not closed between its check and its send, not even while it *)
(* waits for room.                                                         *)
(***************************************************************************)
NoSendOnClosedChannel == \A r \in Requests : req[r] # "panicked"

\* The queue is closed only after the worker has returned: no job is cut off by the close.
QueueOutlivesWorker == qclosed => worker \in {"off", "exited"} /\ job = "none"

(***************************************************************************)
(* Close and Shutdown come to an end but for three ways of waiting for     *)
(* ever: the worker waits in getIDGenerator for the lock that Close holds, *)
(* an Enqueue waits on the full channel with the lock that the queue's     *)
(* Close needs, or a blocking request waits for a task that a stopped      *)
(* worker will not end.  There is no other.                                *)
(***************************************************************************)
StopsUnlessStuck ==
  \/ closer \in {"http", "lock"} ~> closer = "closed"
  \/ <>[](worker = "id")
  \/ <>[](QueueReaders # {})
  \/ \E r \in Requests : <>[](req[r] = "wait")

\* Every job that was accepted is processed while the service runs.
AcceptedJobIsTaken == \A r \in Requests : r \in jobs ~> (r \notin jobs \/ ctxDone)

=============================================================================
