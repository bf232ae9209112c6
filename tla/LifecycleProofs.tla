-------------------------- MODULE LifecycleProofs --------------------------
(***************************************************************************)
(* Proofs about Lifecycle, for any set of requests and any capacity of the *)
(* job channel: the types, no send on a closed channel, and the order in   *)
(* which Close stops the worker and the queue.  And about Server: what the *)
(* server's mutex, its configuration and the order of its start and        *)
(* shutdown guarantee, for any number of goroutines, of things added and   *)
(* of runs.                                                                *)
(***************************************************************************)
EXTENDS Lifecycle, Server, FiniteSetTheorems, TLAPS

-----------------------------------------------------------------------------
(* The inductive invariant. *)

\* The worker has a job exactly while it executes one or asks for an ID for it.
JobInv ==
  /\ worker \in {"execute", "id"} => job \in Requests
  /\ worker \notin {"execute", "id"} => job = "none"

\* Close asks the queue to close after the worker has returned, and Start does not follow Close.
JoinInv == closer \in {"qlock", "closed"} => worker \in {"off", "exited"}

\* The channel is closed by the last step of Close, under the queue's lock: no Enqueue is inside.
ClosedInv ==
  /\ qclosed <=> closer = "closed"
  /\ qclosed => \A r \in Requests : req[r] # "send"

LifeInv ==
  /\ TypeOK
  /\ IsFiniteSet(jobs)
  /\ JobInv
  /\ JoinInv
  /\ ClosedInv
  /\ NoSendOnClosedChannel

-----------------------------------------------------------------------------
\* Types are kept by a step: the channel never holds more than QueueSize jobs.
LEMMA LifeType ==
  ASSUME TypeOK, IsFiniteSet(jobs), JobInv, [Next]_vars
  PROVE  TypeOK' /\ IsFiniteSet(jobs)'
<1> USE LifecycleAssumption
<1>1. ASSUME NEW r \in Requests, EnqueueSend(r)
      PROVE  TypeOK' /\ IsFiniteSet(jobs)'
  <2>1. CASE qclosed
    BY <1>1, <2>1 DEF EnqueueSend, TypeOK, ReqPCs
  <2>2. CASE ~qclosed
    <3>1. jobs' = jobs \cup {r} /\ Cardinality(jobs) < QueueSize
      BY <1>1, <2>2 DEF EnqueueSend, ChannelHasRoom
    <3>2. /\ IsFiniteSet(jobs \cup {r})
          /\ Cardinality(jobs) \in Nat
          /\ \/ Cardinality(jobs \cup {r}) = Cardinality(jobs)
             \/ Cardinality(jobs \cup {r}) = Cardinality(jobs) + 1
      BY FS_AddElement, FS_CardinalityType
    <3>3. Cardinality(jobs') <= QueueSize /\ IsFiniteSet(jobs')
      BY <3>1, <3>2
    <3>4. QED
      BY <1>1, <2>2, <3>1, <3>3 DEF EnqueueSend, TypeOK, ReqPCs
  <2>3. QED
    BY <2>1, <2>2 DEF TypeOK
<1>2. ASSUME Dequeue
      PROVE  TypeOK' /\ IsFiniteSet(jobs)'
  <2>1. ASSUME NEW r \in jobs, job' = r, jobs' = jobs \ {r}, worker' = "execute"
        PROVE  TypeOK' /\ IsFiniteSet(jobs)'
    <3>1. /\ IsFiniteSet(jobs \ {r})
          /\ Cardinality(jobs) \in Nat
          /\ Cardinality(jobs \ {r}) = Cardinality(jobs) - 1
      BY FS_RemoveElement, FS_CardinalityType
    <3>2. Cardinality(jobs') <= QueueSize /\ IsFiniteSet(jobs')
      BY <2>1, <3>1 DEF TypeOK
    <3>3. QED
      BY <1>2, <2>1, <3>2 DEF Dequeue, TypeOK, WorkerPCs
  <2>2. ASSUME UNCHANGED <<job, jobs>>, worker' = "exited"
        PROVE  TypeOK' /\ IsFiniteSet(jobs)'
    BY <1>2, <2>2 DEF Dequeue, TypeOK, WorkerPCs
  <2>3. QED
    BY <1>2, <2>1, <2>2 DEF Dequeue
<1>3. ASSUME NEW r \in Requests,
             Arrive(r) \/ GetID(r) \/ EnqueueLock(r) \/ WaitEnds(r) \/ Leave(r)
      PROVE  TypeOK' /\ IsFiniteSet(jobs)'
  BY <1>3 DEF Arrive, GetID, EnqueueLock, EnqueueGoes, WaitEnds, Leave, TypeOK, ReqPCs
<1>4. CASE Start \/ WorkerLoop \/ NeedID \/ GotID
  BY <1>4 DEF Start, WorkerLoop, LoopGoes, NeedID, GotID, TypeOK, WorkerPCs
<1>5. CASE JobEnds
  BY <1>5 DEF JobEnds, AfterJob, JobInv, TypeOK, WorkerPCs
<1>6. CASE StopServer \/ CallClose \/ CloserStep
  BY <1>6 DEF StopServer, CallClose, CloserStep, HTTPShutdown, CloseLocks, CloseJoins,
              QueueClose, TypeOK, CloserPCs
<1>7. CASE UNCHANGED vars
  BY <1>7 DEF vars, TypeOK
<1>8. QED
  BY <1>1, <1>2, <1>3, <1>4, <1>5, <1>6, <1>7 DEF Next, RequestStep, WorkerStep

\* A step keeps the four parts that relate the goroutines.
LEMMA LifeStep ==
  ASSUME LifeInv, [Next]_vars
  PROVE  LifeInv'
<1> USE DEF LifeInv
<1>0. TypeOK' /\ IsFiniteSet(jobs)'
  BY LifeType
<1>1. ASSUME NEW r \in Requests, Arrive(r) \/ RequestStep(r) \/ Leave(r)
      PROVE  JobInv' /\ JoinInv' /\ ClosedInv' /\ NoSendOnClosedChannel'
  <2>1. JobInv' /\ JoinInv'
    BY <1>1 DEF Arrive, RequestStep, GetID, EnqueueLock, EnqueueSend, WaitEnds, Leave,
                JobInv, JoinInv
  <2>2. ClosedInv' /\ NoSendOnClosedChannel'
    BY <1>1 DEF Arrive, RequestStep, GetID, EnqueueLock, EnqueueGoes, EnqueueSend, WaitEnds,
                Leave, ClosedInv, NoSendOnClosedChannel, TypeOK
  <2>3. QED
    BY <2>1, <2>2
<1>2. ASSUME Start \/ WorkerStep \/ NeedID
      PROVE  JobInv' /\ JoinInv' /\ ClosedInv' /\ NoSendOnClosedChannel'
  <2>1. JobInv'
    BY <1>2 DEF Start, WorkerStep, WorkerLoop, LoopGoes, Dequeue, NeedID, GotID, JobEnds,
                AfterJob, JobInv, TypeOK
  <2>2. JoinInv'
    BY <1>2 DEF Start, WorkerStep, WorkerLoop, LoopGoes, Dequeue, NeedID, GotID, JobEnds,
                AfterJob, JoinInv
  <2>3. ClosedInv' /\ NoSendOnClosedChannel'
    BY <1>2 DEF Start, WorkerStep, WorkerLoop, Dequeue, NeedID, GotID, JobEnds, ClosedInv,
                NoSendOnClosedChannel
  <2>4. QED
    BY <2>1, <2>2, <2>3
<1>3. ASSUME StopServer \/ CallClose \/ CloserStep
      PROVE  JobInv' /\ JoinInv' /\ ClosedInv' /\ NoSendOnClosedChannel'
  BY <1>3 DEF StopServer, CallClose, CloserStep, HTTPShutdown, CloseLocks, CloseJoins,
              WorkersDone, QueueClose, QueueLockFree, QueueReaders, JobInv, JoinInv,
              ClosedInv, NoSendOnClosedChannel, TypeOK
<1>4. CASE UNCHANGED vars
  BY <1>0, <1>4 DEF vars, JobInv, JoinInv, ClosedInv, NoSendOnClosedChannel
<1>5. QED
  BY <1>0, <1>1, <1>2, <1>3, <1>4 DEF Next

-----------------------------------------------------------------------------
(***************************************************************************)
(* In every state of every behaviour: the types, the worker's job, the     *)
(* order of Close's two waits and the state of the channel agree.          *)
(***************************************************************************)
THEOREM LifeInvariant == Spec => []LifeInv
<1>1. Init => LifeInv
  <2> SUFFICES ASSUME Init PROVE LifeInv
    OBVIOUS
  <2>1. IsFiniteSet(jobs) /\ Cardinality(jobs) <= QueueSize
    BY FS_EmptySet, LifecycleAssumption DEF Init
  <2>2. TypeOK
    BY <2>1 DEF Init, TypeOK, ReqPCs, WorkerPCs, CloserPCs
  <2>3. JobInv /\ JoinInv /\ ClosedInv /\ NoSendOnClosedChannel
    BY DEF Init, JobInv, JoinInv, ClosedInv, NoSendOnClosedChannel
  <2>4. QED
    BY <2>1, <2>2, <2>3 DEF LifeInv
<1>2. LifeInv /\ [Next]_vars => LifeInv'
  BY LifeStep
<1>3. QED
  BY <1>1, <1>2, PTL DEF Spec

\* Types, and the channel of InMemoryJobQueue is never filled beyond its capacity.
THEOREM LifeTypeCorrect == Spec => []TypeOK
<1>1. LifeInv => TypeOK
  BY DEF LifeInv
<1>2. QED
  BY <1>1, LifeInvariant, PTL

(***************************************************************************)
(* No request panics on a closed channel, whatever the order of Enqueue,   *)
(* Close and the cancellation of requests.                                 *)
(***************************************************************************)
THEOREM SendSafe == Spec => []NoSendOnClosedChannel
<1>1. LifeInv => NoSendOnClosedChannel
  BY DEF LifeInv
<1>2. QED
  BY <1>1, LifeInvariant, PTL

(***************************************************************************)
(* The queue is closed only once the worker has returned and no job is in  *)
(* its hands: AgentService.Close waits for the worker first.               *)
(***************************************************************************)
THEOREM WorkerJoinedFirst == Spec => []QueueOutlivesWorker
<1>1. LifeInv => QueueOutlivesWorker
  BY DEF LifeInv, JobInv, JoinInv, ClosedInv, QueueOutlivesWorker
<1>2. QED
  BY <1>1, LifeInvariant, PTL

-----------------------------------------------------------------------------
(* The server. *)

Names == Added \cup {"inject"}

\* The types of the server's state.
ServerTypeOK ==
  /\ mu \in Users \cup {"free", "runner"}
  /\ user \in [Users -> {"idle", "stuck", "shutdown"}]
  /\ extensions \in Seq(Added) /\ middlewares \in Seq(Names)
  /\ custom \in SUBSET Added /\ handled \in SUBSET Added /\ added \in SUBSET Added
  /\ mux \in [served : BOOLEAN, extensions : Seq(Added), patterns : SUBSET Added]
  /\ chain \in Seq(Names)
  /\ early \in [extensions : Seq(Added), middlewares : Seq(Added)]
  /\ runner \in {"idle", "lambda", "start", "serving", "shutdown", "returned"}
  /\ runs \in Nat /\ part \in 1 .. 3
  /\ onLambda \in BOOLEAN /\ ctxEnd \in BOOLEAN
  /\ http \in {"new", "listening", "failed", "shut"}
  /\ service \in {"new", "started", "closed", "restarted"}

(***************************************************************************)
(* s.mu is held by exactly the one call that is under way: by the runner   *)
(* while it shuts down, by a user that is not idle.  A call that waits for *)
(* itself holds it over a server without a mux.                            *)
(***************************************************************************)
LockInv ==
  /\ mu = "runner" <=> runner = "shutdown"
  /\ \A u \in Users : (mu = u) <=> (user[u] # "idle")
  /\ \A u \in Users : user[u] = "stuck" => ~mux.served

(***************************************************************************)
(* Between the parts of a Shutdown s.mu is held, so that nobody initializes*)
(* the server there; past the first part the HTTP server is shut, for good,*)
(* and a service is only closed behind a shut HTTP server.  A listener can *)
(* come only while the service that Start has started is untouched.        *)
(***************************************************************************)
OrderInv ==
  /\ part > 1 => mu # "free"
  /\ part > 1 /\ mux.served => http = "shut"
  /\ service \in {"closed", "restarted"} => http = "shut"
  /\ runner \in {"serving", "shutdown"} /\ http = "new" => service = "started"
  /\ ListeningIsStarted

(***************************************************************************)
(* What is configured is kept until initialize, and then served as it was  *)
(* there; a chain that was built is not empty, so it is not built again.   *)
(***************************************************************************)
ConfigInv ==
  /\ ~mux.served =>
       /\ custom = handled /\ chain = <<>>
       /\ extensions = early.extensions /\ middlewares = early.middlewares
  /\ mux.served =>
       /\ mux.patterns = handled /\ custom = {}
       /\ mux.extensions = early.extensions
       /\ chain = <<"inject">> \o early.middlewares

ServerInv == ServerTypeOK /\ LockInv /\ OrderInv /\ ConfigInv

-----------------------------------------------------------------------------
(* Sequences. *)

\* Use and AddExtension put their argument behind what is there.
LEMMA AppendAt ==
  ASSUME NEW S, NEW s \in Seq(S), NEW e \in S
  PROVE  Append(s, e) \in Seq(S)
OBVIOUS

\* initialize puts the injecting middleware in front of what is there.
LEMMA PrependAt ==
  ASSUME NEW S, NEW s \in Seq(S), NEW e \in S
  PROVE  <<e>> \o s \in Seq(S) /\ <<e>> \o s # <<>>
<1>1. <<e>> \in Seq(S) /\ Len(<<e>>) = 1
  OBVIOUS
<1>2. <<e>> \o s \in Seq(S) /\ Len(<<e>> \o s) = 1 + Len(s) /\ Len(s) \in Nat /\ Len(<<>>) = 0
  BY <1>1
<1>. QED
  BY <1>2

-----------------------------------------------------------------------------
(* The steps. *)

\* Whatever changes only s.mu, the runner, the HTTP server, the service and the calls of
\* the users leaves the configuration alone.
ConfigVars == <<extensions, middlewares, custom, mux, chain, handled, early>>

\* The types are kept.
LEMMA ServerTypeStep ==
  ASSUME ServerTypeOK, ServerNext
  PROVE  ServerTypeOK'
<1>0. ASSUME NEW x \in Added
      PROVE  /\ Append(extensions, x) \in Seq(Added)
             /\ [early EXCEPT !.extensions = Append(@, x)] \in [extensions : Seq(Added), middlewares : Seq(Added)]
             /\ [early EXCEPT !.middlewares = Append(@, x)] \in [extensions : Seq(Added), middlewares : Seq(Added)]
  <2>1. Append(early.extensions, x) \in Seq(Added) /\ Append(early.middlewares, x) \in Seq(Added)
    BY AppendAt DEF ServerTypeOK
  <2>2. Append(extensions, x) \in Seq(Added)
    BY AppendAt DEF ServerTypeOK
  <2>. QED
    BY <2>1, <2>2 DEF ServerTypeOK
<1>1. ASSUME NEW x \in Added, AddExtension(x)
      PROVE  ServerTypeOK'
  <2>1. early' \in [extensions : Seq(Added), middlewares : Seq(Added)]
    BY <1>0, <1>1 DEF ServerTypeOK, AddExtension
  <2>2. extensions' \in Seq(Added) /\ added' \in SUBSET Added
    BY <1>0, <1>1 DEF ServerTypeOK, AddExtension, TakesNew
  <2>. QED
    BY <1>1, <2>1, <2>2 DEF ServerTypeOK, AddExtension
<1>2. ASSUME NEW x \in Added, Use(x)
      PROVE  ServerTypeOK'
  <2>1. Append(middlewares, x) \in Seq(Names)
    BY AppendAt DEF ServerTypeOK, Names
  <2>2. early' \in [extensions : Seq(Added), middlewares : Seq(Added)]
    BY <1>0, <1>2 DEF ServerTypeOK, Use
  <2>. QED
    BY <1>2, <2>1, <2>2 DEF ServerTypeOK, Use, TakesNew
<1>3. ASSUME NEW x \in Added, HandlePattern(x)
      PROVE  ServerTypeOK'
  <2>1. mux' \in [served : BOOLEAN, extensions : Seq(Added), patterns : SUBSET Added]
    <3>1. CASE mux.served
      <4>1. mux' = [mux EXCEPT !.patterns = mux.patterns \cup {x}] /\ mux.patterns \cup {x} \in SUBSET Added
        BY <1>3, <3>1 DEF ServerTypeOK, HandlePattern, MuxAfter
      <4>. QED
        BY <4>1 DEF ServerTypeOK
    <3>2. CASE ~mux.served
      BY <1>3, <3>2 DEF ServerTypeOK, HandlePattern, MuxAfter
    <3>. QED
      BY <3>1, <3>2
  <2>2. custom' \in SUBSET Added /\ handled' \in SUBSET Added /\ added' \in SUBSET Added
    BY <1>3 DEF ServerTypeOK, HandlePattern, TakesNew, CustomAfter
  <2>. QED
    BY <1>3, <2>1, <2>2 DEF ServerTypeOK, HandlePattern
<1>4. ASSUME NEW u \in Users, Handler(u) \/ Shutdown(u)
      PROVE  ServerTypeOK'
  BY <1>4 DEF ServerTypeOK, Handler, Shutdown
<1>5. CASE Initialize
  <2>1. <<"inject">> \o middlewares \in Seq(Names)
    BY PrependAt DEF ServerTypeOK, Names
  <2>2. middlewares' \in Seq(Names) /\ chain' \in Seq(Names)
    BY <1>5, <2>1 DEF ServerTypeOK, Initialize, ChainAfterInit
  <2>3. mux' \in [served : BOOLEAN, extensions : Seq(Added), patterns : SUBSET Added]
    BY <1>5 DEF ServerTypeOK, Initialize
  <2>. QED
    BY <1>5, <2>2, <2>3 DEF ServerTypeOK, Initialize
<1>6. CASE LambdaFails \/ StartService \/ Listen \/ ListenFails \/ EndContext \/ RunAgain
  BY <1>6 DEF ServerTypeOK, LambdaFails, StartService, Listen, ListenFails, EndContext, RunAgain, serveVars
<1>7. CASE RunShutsDown \/ ShutdownPart \/ ShutdownEnds
  BY <1>7 DEF ServerTypeOK, RunShutsDown, ShutdownPart, ShutdownEnds, Parts
<1>. QED
  BY <1>1, <1>2, <1>3, <1>4, <1>5, <1>6, <1>7 DEF ServerNext

\* The lock goes to whoever starts a call that keeps it, and comes back when that ends.
LEMMA LockStep ==
  ASSUME ServerTypeOK, LockInv, ServerNext
  PROVE  LockInv'
<1>. USE ServerAssumption
<1>1. ASSUME NEW x \in Added, AddExtension(x) \/ Use(x) \/ HandlePattern(x)
      PROVE  LockInv'
  <2>1. UNCHANGED <<mu, user, runner>> /\ mux'.served = mux.served
    BY <1>1 DEF ServerTypeOK, AddExtension, Use, HandlePattern, MuxAfter
  <2>. QED
    BY <2>1 DEF LockInv
<1>2. ASSUME NEW u \in Users, Handler(u) \/ Shutdown(u)
      PROVE  LockInv'
  BY <1>2 DEF ServerTypeOK, LockInv, Handler, Shutdown
<1>3. CASE Initialize
  BY <1>3 DEF ServerTypeOK, LockInv, Initialize
<1>4. CASE LambdaFails \/ StartService \/ Listen \/ ListenFails \/ EndContext \/ RunAgain
  BY <1>4 DEF ServerTypeOK, LockInv, LambdaFails, StartService, Listen, ListenFails, EndContext, RunAgain, serveVars
<1>5. CASE RunShutsDown
  BY <1>5 DEF ServerTypeOK, LockInv, RunShutsDown
<1>6. CASE ShutdownPart
  BY <1>6 DEF ServerTypeOK, LockInv, ShutdownPart
<1>7. CASE ShutdownEnds
  BY <1>7 DEF ServerTypeOK, LockInv, ShutdownEnds, ShuttingDown
<1>. QED
  BY <1>1, <1>2, <1>3, <1>4, <1>5, <1>6, <1>7 DEF ServerNext

\* The service is closed behind a shut HTTP server and started before it listens.
LEMMA OrderStep ==
  ASSUME ServerTypeOK, LockInv, OrderInv, ServerNext
  PROVE  OrderInv'
<1>. USE ServerAssumption DEF OrderInv, ListeningIsStarted, ServerTypeOK
<1>1. ASSUME NEW x \in Added, AddExtension(x) \/ Use(x) \/ HandlePattern(x)
      PROVE  OrderInv'
  <2>1. UNCHANGED <<mu, runner, http, service, part>> /\ mux'.served = mux.served
    BY <1>1 DEF AddExtension, Use, HandlePattern, MuxAfter
  <2>. QED
    BY <2>1
<1>2. ASSUME NEW u \in Users, Handler(u) \/ Shutdown(u)
      PROVE  OrderInv'
  BY <1>2 DEF Handler, Shutdown
<1>3. CASE Initialize
  BY <1>3 DEF Initialize
<1>4. CASE LambdaFails \/ StartService \/ Listen \/ ListenFails \/ EndContext \/ RunAgain
  BY <1>4 DEF LambdaFails, StartService, Listen, ListenFails, EndContext, RunAgain, serveVars
<1>5. CASE RunShutsDown
  BY <1>5 DEF RunShutsDown
<1>6. CASE ShutdownPart
  BY <1>6 DEF ShutdownPart, ShuttingDown, Parts
<1>7. CASE ShutdownEnds
  BY <1>7 DEF ShutdownEnds
<1>. QED
  BY <1>1, <1>2, <1>3, <1>4, <1>5, <1>6, <1>7 DEF ServerNext

\* What is added joins what is kept or what is served; a run only prepends.
LEMMA ConfigStep ==
  ASSUME ServerTypeOK, ConfigInv, ServerNext
  PROVE  ConfigInv'
<1>1. ASSUME NEW x \in Added, AddExtension(x)
      PROVE  ConfigInv'
  BY <1>1 DEF ServerTypeOK, ConfigInv, AddExtension
<1>2. ASSUME NEW x \in Added, Use(x)
      PROVE  ConfigInv'
  BY <1>2 DEF ServerTypeOK, ConfigInv, Use
<1>3. ASSUME NEW x \in Added, HandlePattern(x)
      PROVE  ConfigInv'
  BY <1>3 DEF ServerTypeOK, ConfigInv, HandlePattern, CustomAfter, MuxAfter
<1>4. CASE Initialize
  <2>1. CASE ~mux.served
    <3>1. chain' = <<"inject">> \o early.middlewares
      BY <1>4, <2>1 DEF ConfigInv, Initialize, ChainAfterInit
    <3>2. mux'.served /\ mux'.patterns = handled' /\ custom' = {} /\ mux'.extensions = early.extensions
      BY <1>4, <2>1 DEF ConfigInv, Initialize
    <3>3. early' = early
      BY <1>4 DEF Initialize
    <3>. QED
      BY <3>1, <3>2, <3>3 DEF ConfigInv
  <2>2. CASE mux.served
    <3>1. chain # <<>>
      <4>1. early.middlewares \in Seq(Names) /\ "inject" \in Names
        BY DEF ServerTypeOK, Names
      <4>. QED
        BY <2>2, <4>1, PrependAt DEF ConfigInv
    <3>2. chain' = chain
      BY <1>4, <3>1 DEF Initialize, ChainAfterInit
    <3>3. mux' = mux /\ custom' = custom /\ handled' = handled /\ early' = early /\ onLambda' = onLambda
      BY <1>4, <2>2 DEF Initialize, ConfigInv
    <3>. QED
      BY <2>2, <3>2, <3>3 DEF ConfigInv
  <2>. QED
    BY <2>1, <2>2
<1>5. CASE UNCHANGED ConfigVars
  BY <1>5 DEF ConfigVars, ConfigInv
<1>6. ASSUME NEW u \in Users, Handler(u) \/ Shutdown(u)
      PROVE  UNCHANGED ConfigVars
  BY <1>6 DEF Handler, Shutdown, ConfigVars
<1>7. CASE LambdaFails \/ StartService \/ Listen \/ ListenFails \/ EndContext \/ RunAgain
  <2>1. UNCHANGED ConfigVars
    BY <1>7 DEF LambdaFails, StartService, Listen, ListenFails, EndContext, RunAgain, serveVars, ConfigVars
  <2>. QED
    BY <1>5, <2>1
<1>8. CASE RunShutsDown \/ ShutdownPart \/ ShutdownEnds
  <2>1. UNCHANGED ConfigVars
    BY <1>8 DEF RunShutsDown, ShutdownPart, ShutdownEnds, ConfigVars
  <2>. QED
    BY <1>5, <2>1
<1>. QED
  BY <1>1, <1>2, <1>3, <1>4, <1>5, <1>6, <1>7, <1>8 DEF ServerNext

-----------------------------------------------------------------------------
(* The server. *)

(***************************************************************************)
(* The inductive invariant of Server: types, holder of s.mu, order of      *)
(* start and shutdown, and configuration (atlasic.go, the Server methods). *)
(***************************************************************************)
THEOREM ServerInvariant == ServerSpec => []ServerInv
<1>1. ServerInit => ServerInv
  <2>. SUFFICES ASSUME ServerInit PROVE ServerInv
    OBVIOUS
  <2>1. <<>> \in Seq(Added) /\ <<>> \in Seq(Names)
    OBVIOUS
  <2>6. early \in [extensions : Seq(Added), middlewares : Seq(Added)]
    BY <2>1 DEF ServerInit
  <2>2. mux \in [served : BOOLEAN, extensions : Seq(Added), patterns : SUBSET Added]
    BY <2>1 DEF ServerInit, NoMux
  <2>3. ServerTypeOK
    <3>1. extensions \in Seq(Added) /\ middlewares \in Seq(Names) /\ chain \in Seq(Names)
      BY <2>1 DEF ServerInit
    <3>2. user \in [Users -> {"idle", "stuck", "shutdown"}] /\ runs \in Nat /\ part \in 1 .. 3
      BY DEF ServerInit
    <3>. QED
      BY <2>2, <2>6, <3>1, <3>2 DEF ServerInit, ServerTypeOK
  <2>4. LockInv /\ OrderInv
    BY ServerAssumption DEF ServerInit, NoMux, LockInv, OrderInv, ListeningIsStarted
  <2>5. ConfigInv
    BY <2>1 DEF ServerInit, NoMux, ConfigInv
  <2>. QED
    BY <2>3, <2>4, <2>5 DEF ServerInv
<1>2. ServerInv /\ [ServerNext]_serverVars => ServerInv'
  <2>. SUFFICES ASSUME ServerInv, [ServerNext]_serverVars PROVE ServerInv'
    OBVIOUS
  <2>1. CASE ServerNext
    BY <2>1, ServerTypeStep, LockStep, OrderStep, ConfigStep DEF ServerInv
  <2>2. CASE UNCHANGED serverVars
    BY <2>2 DEF serverVars, ServerInv, ServerTypeOK, LockInv, OrderInv, ListeningIsStarted, ConfigInv
  <2>. QED
    BY <2>1, <2>2
<1>. QED
  BY <1>1, <1>2, PTL DEF ServerSpec

(***************************************************************************)
(* Connections are accepted only while the service is started and not yet  *)
(* closed, over any number of runs, shutdowns and failing listeners        *)
(* (RunWithContext and Shutdown).                                          *)
(***************************************************************************)
THEOREM ListeningAfterStart == ServerSpec => []ListeningIsStarted
<1>1. ServerInv => ListeningIsStarted
  BY DEF ServerInv, OrderInv
<1>. QED
  BY <1>1, ServerInvariant, PTL

(***************************************************************************)
(* Every accepted pattern is served, with the extensions and the           *)
(* middlewares that were added before initialization, over any number of   *)
(* runs and of later additions (Handle, Use, AddExtension, initialize).    *)
(***************************************************************************)
THEOREM EarlyConfigurationServed == ServerSpec => []EarlyConfigurationIsServed
<1>1. ServerInv => EarlyConfigurationIsServed
  BY DEF ServerInv, ConfigInv, EarlyConfigurationIsServed
<1>. QED
  BY <1>1, ServerInvariant, PTL

=============================================================================
