------------------------- MODULE TaskUpdaterProofs -------------------------
(***************************************************************************)
(* Proofs about TaskUpdater, for any number of tasks, goroutines, messages *)
(* and artifacts, any length of the streams and any number of failures.    *)
(***************************************************************************)
EXTENDS TaskUpdater, SequenceLemmas

-----------------------------------------------------------------------------
(* Types of the data operators. *)

\* Upserting an artifact yields a sequence of artifacts.
LEMMA UpsertType ==
  ASSUME NEW arts \in Seq(Artifacts), NEW a \in Artifacts
  PROVE  UpsertedArtifacts(arts, a) \in Seq(Artifacts)
<1> DEFINE same == {i \in DOMAIN arts : ArtifactID[arts[i]] = ArtifactID[a]}
<1>1. CASE same = {}
  <2>1. Append(arts, a) \in Seq(Artifacts) OBVIOUS
  <2> QED BY <1>1, <2>1 DEF UpsertedArtifacts
<1>2. CASE same # {}
  <2> DEFINE new == [i \in DOMAIN arts |->
                       IF i \in same /\ \A j \in same : i <= j THEN a ELSE arts[i]]
  <2>1. DOMAIN arts = 1 .. Len(arts) /\ Len(arts) \in Nat OBVIOUS
  <2>2. new \in [1 .. Len(arts) -> Artifacts] BY <2>1
  <2>3. new \in Seq(Artifacts) BY <2>1, <2>2
  <2> QED BY <1>2, <2>3 DEF UpsertedArtifacts
<1> QED BY <1>1, <1>2

\* Applying an event to a task yields a task.
LEMMA ApplyEventType ==
  ASSUME NEW task \in TaskValue, NEW e \in Event
  PROVE  ApplyEvent(task, e) \in TaskValue
<1>1. CASE e \in [kind : {"task"}, val : Messages]
  BY <1>1 DEF ApplyEvent, CreatedTask, TaskValue, TaskStates
<1>2. CASE e \in [kind : {"message"}, val : Messages]
  <2>1. Append(task.history, e.val) \in Seq(Messages) BY <1>2 DEF TaskValue
  <2> QED BY <1>2, <2>1 DEF ApplyEvent, TaskValue
<1>3. CASE e \in [kind : {"status"}, val : TaskStates]
  BY <1>3 DEF ApplyEvent, TaskValue
<1>4. CASE e \in [kind : {"artifact"}, val : Artifacts]
  <2>1. UpsertedArtifacts(task.artifacts, e.val) \in Seq(Artifacts)
    BY <1>4, UpsertType DEF TaskValue
  <2> QED BY <1>4, <2>1 DEF ApplyEvent, TaskValue
<1> QED BY <1>1, <1>2, <1>3, <1>4 DEF Event

\* What applying an event does to the state of the task.
LEMMA ApplyEventState ==
  ASSUME NEW task \in TaskValue, NEW e \in Updates
  PROVE  ApplyEvent(task, e).state = IF e.kind = "status" THEN e.val ELSE task.state
<1>1. CASE e \in [kind : {"message"}, val : Messages]
  BY <1>1 DEF ApplyEvent, TaskValue
<1>2. CASE e \in [kind : {"status"}, val : UpdateStates]
  BY <1>2 DEF ApplyEvent, TaskValue
<1>3. CASE e \in [kind : {"artifact"}, val : Artifacts]
  BY <1>3 DEF ApplyEvent, TaskValue
<1> QED BY <1>1, <1>2, <1>3 DEF Updates

\* Every event a goroutine may write is an event of the stream.
LEMMA EventTypes ==
  /\ Updates \subseteq Event
  /\ [kind : {"task"}, val : Messages] \subseteq Event
<1>1. UpdateStates \subseteq TaskStates BY UpdaterAssumption
<1> QED BY <1>1 DEF Updates, Event

\* The values the variables start from have their types.
LEMMA StartTypes ==
  /\ BlankTask \in TaskValue
  /\ NoSnapshot \in SnapshotFile
  /\ NoStream \in StreamFile
  /\ Torn(NoSnapshot) \in SnapshotFile
  /\ Torn(NoStream) \in StreamFile
  /\ IdleUpdate \in Update
<1>1. BlankTask \in TaskValue BY DEF BlankTask, TaskValue, TaskStates
<1>2. NoSnapshot \in SnapshotFile /\ Torn(NoSnapshot) \in SnapshotFile
  BY <1>1 DEF NoSnapshot, SnapshotFile, FileStates, Torn
<1>3. NoStream \in StreamFile /\ Torn(NoStream) \in StreamFile
  <2>1. <<>> \in Seq(Event) OBVIOUS
  <2> QED BY <2>1 DEF NoStream, StreamFile, FileStates, Torn
<1>4. IdleUpdate \in Update BY <1>1 DEF IdleUpdate, Update, Phases
<1> QED BY <1>1, <1>2, <1>3, <1>4

\* A cancellation shows in the task that the next event is applied to, and stays in it.
LEMMA CanceledAfter ==
  ASSUME NEW base \in TaskValue, NEW e \in Updates, ~Refused(base, e), NEW n \in Nat,
         NEW es, es[n + 1] = e,
         CanceledWithin(es, n) => base.state = "canceled",
         CanceledWithin(es, n + 1)
  PROVE  ApplyEvent(base, e).state = "canceled"
<1>1. PICK i \in 1 .. n + 1 : es[i] = [kind |-> "status", val |-> "canceled"]
  BY DEF CanceledWithin
<1>2. ApplyEvent(base, e).state = IF e.kind = "status" THEN e.val ELSE base.state
  BY ApplyEventState
<1>3. CASE i = n + 1
  <2>1. e = [kind |-> "status", val |-> "canceled"] BY <1>1, <1>3
  <2> QED BY <1>2, <2>1
<1>4. CASE i \in 1 .. n
  <2>1. base.state = "canceled" BY <1>1, <1>4 DEF CanceledWithin
  <2> QED BY <1>2, <2>1 DEF Refused
<1> QED BY <1>3, <1>4

-----------------------------------------------------------------------------
(* The invariant holds initially. *)

\* The initial state satisfies the types and the invariant.
LEMMA InitInv == Init => TypeOK /\ UpdateInv
<1> SUFFICES ASSUME Init PROVE TypeOK /\ UpdateInv OBVIOUS
<1> USE DEF Init, StorageInit
<1>1. TypeOK BY StartTypes, UpdaterAssumption DEF TypeOK, StorageTypeOK
<1>2. \A t \in Tasks : StreamShape(t) /\ SnapshotShape(t)
  BY DEF StreamShape, SnapshotShape, NoStream, NoSnapshot
<1>3. \A p \in Procs : AppendReady(p) /\ SaveReady(p) /\ NotifyReady(p)
  BY DEF AppendReady, SaveReady, NotifyReady, IdleUpdate
<1>4. PushedIsSaved BY DEF PushedIsSaved
<1> QED BY <1>1, <1>2, <1>3, <1>4 DEF UpdateInv

-----------------------------------------------------------------------------
(* Every step preserves the types. *)

\* A goroutine in the middle of an update has an event to write to an issued task.
LEMMA ActiveEvent ==
  ASSUME TypeOK, UpdateInv, NEW p \in Procs, upd[p].phase \in {"append", "save"}
  PROVE  upd[p].task \in Tasks /\ upd[p].event \in Event
BY EventTypes DEF UpdateInv, AppendReady, SaveReady, Creating, Updating

\* The end of a call keeps the type of the updates.
LEMMA ReturnType ==
  ASSUME TypeOK, NEW p \in Procs, NEW success \in BOOLEAN, Return(p, success)
  PROVE  upd' \in [Procs -> Update]
<1>1. upd \in [Procs -> Update] BY DEF TypeOK
<1>2. [upd[p] EXCEPT !.phase = "done", !.ok = success] \in Update
  <2>1. upd[p] \in Update BY <1>1
  <2>2. "done" \in Phases BY DEF Phases
  <2> QED BY <2>1, <2>2 DEF Update
<1> QED BY <1>1, <1>2 DEF Return

\* Starting and finishing an update keep the types.
LEMMA BeginType ==
  ASSUME TypeOK, NEW p \in Procs,
         \/ \E t \in Tasks, m \in Messages : BeginCreate(p, t, m)
         \/ \E t \in Tasks, e \in Updates : BeginUpdate(p, t, e)
         \/ Finish(p)
  PROVE  TypeOK'
<1> USE DEF TypeOK, StorageTypeOK
<1>1. ASSUME NEW t \in Tasks, NEW m \in Messages, BeginCreate(p, t, m)
      PROVE  TypeOK'
  <2>1. [IdleUpdate EXCEPT !.phase = "append", !.task = t,
                           !.event = [kind |-> "task", val |-> m]] \in Update
    BY StartTypes DEF IdleUpdate, Update, Phases, Event
  <2> QED BY <1>1, <2>1 DEF BeginCreate, storageVars
<1>2. ASSUME NEW t \in Tasks, NEW e \in Updates, ReadTask(p, t, e)
      PROVE  TypeOK'
  <2>1. e \in Event BY EventTypes
  <2>2. tasks[t].task \in TaskValue /\ tasks[t].version \in Nat BY DEF SnapshotFile
  <2>3. [IdleUpdate EXCEPT !.phase = "append", !.task = t, !.event = e,
               !.base = tasks[t].task, !.version = tasks[t].version] \in Update
    BY <2>1, <2>2 DEF IdleUpdate, Update, Phases
  <2>4. [IdleUpdate EXCEPT !.phase = "done", !.task = t, !.event = e] \in Update
    BY <2>1, StartTypes DEF IdleUpdate, Update, Phases
  <2> QED BY <1>2, <2>3, <2>4 DEF ReadTask, storageVars
<1>3. ASSUME NEW t \in Tasks, NEW e \in Updates, ReadFails(p, t, e)
      PROVE  TypeOK'
  <2>1. [IdleUpdate EXCEPT !.phase = "done", !.task = t, !.event = e] \in Update
    BY EventTypes, StartTypes DEF IdleUpdate, Update, Phases
  <2> QED BY <1>3, <2>1, UpdaterAssumption DEF ReadFails, Fault, storageVars
<1>4. CASE Finish(p)
  BY <1>4, StartTypes DEF Finish, storageVars
<1> QED BY <1>1, <1>2, <1>3, <1>4 DEF BeginUpdate

\* Going on to the next endpoint keeps the type of the updates.
LEMMA EndpointType ==
  ASSUME TypeOK, NEW p \in Procs, NEW c \in Configs, NextEndpoint(p, c)
  PROVE  upd' \in [Procs -> Update]
<1> USE DEF TypeOK
<1> DEFINE u == upd[p]
<1>1. u \in Update OBVIOUS
<1>2. [u EXCEPT !.phase = "done", !.ok = TRUE, !.todo = {}] \in Update
  BY <1>1 DEF Update, Phases
<1>3. [u EXCEPT !.todo = @ \ {c}] \in Update BY <1>1 DEF Update
<1> QED BY <1>2, <1>3 DEF NextEndpoint

\* Every step keeps the types.
LEMMA TypeStep ==
  ASSUME TypeOK, UpdateInv, [Next]_vars
  PROVE  TypeOK'
<1> USE DEF TypeOK, StorageTypeOK
<1>1. ASSUME NEW p \in Procs, AppendEvents(p) PROVE TypeOK'
  <2> DEFINE u == upd[p]
  <2>1. u.task \in Tasks /\ u.event \in Event BY <1>1, ActiveEvent DEF AppendEvents
  <2>2. streams[u.task].events \in Seq(Event) /\ streams[u.task].version \in Nat
    BY <2>1 DEF StreamFile
  <2>3. streams[u.task].events \o <<u.event>> \in Seq(Event) /\ Len(<<u.event>>) = 1
    BY <2>1, <2>2
  <2>4. Appended(u.task, <<u.event>>) \in [Tasks -> StreamFile]
    BY <2>1, <2>2, <2>3 DEF Appended, StreamFile, FileStates
  <2>5. CASE streams' = Appended(u.task, <<u.event>>) /\ upd' = [upd EXCEPT ![p].phase = "save"]
    BY <1>1, <2>4, <2>5 DEF AppendEvents, Update, Phases
  <2>6. CASE Return(p, FALSE) /\ UNCHANGED streams
    BY <1>1, <2>6, ReturnType DEF AppendEvents
  <2> QED BY <1>1, <2>5, <2>6 DEF AppendEvents
<1>2. ASSUME NEW p \in Procs, SaveSnapshot(p) PROVE TypeOK'
  <2> DEFINE u == upd[p]
  <2>1. u.task \in Tasks /\ u.event \in Event BY <1>2, ActiveEvent DEF SaveSnapshot
  <2>2. u \in Update OBVIOUS
  <2>3. ApplyEvent(u.base, u.event) \in TaskValue BY <2>1, <2>2, ApplyEventType DEF Update
  <2>4. SavedTask(u.task, ApplyEvent(u.base, u.event), SavedVersion(u)) \in [Tasks -> SnapshotFile]
    BY <2>1, <2>2, <2>3 DEF SavedTask, SavedVersion, SnapshotFile, FileStates, Update
  <2>5. AfterSave(u) \in Update BY <2>2 DEF AfterSave, Update, Phases
  <2>6. CASE /\ tasks' = SavedTask(u.task, ApplyEvent(u.base, u.event), SavedVersion(u))
             /\ upd' = [upd EXCEPT ![p] = AfterSave(u)]
    BY <1>2, <2>4, <2>5, <2>6 DEF SaveSnapshot
  <2>7. CASE Return(p, FALSE) /\ UNCHANGED tasks
    BY <1>2, <2>7, ReturnType DEF SaveSnapshot
  <2> QED BY <1>2, <2>6, <2>7 DEF SaveSnapshot
<1>3. ASSUME NEW p \in Procs, ListConfigs(p) PROVE TypeOK'
  <2> DEFINE u == upd[p]
  <2>1. u \in Update /\ u.task \in Tasks BY <1>3 DEF ListConfigs, UpdateInv, NotifyReady
  <2>2. [u EXCEPT !.phase = "done", !.ok = TRUE] \in Update BY <2>1 DEF Update, Phases
  <2>3. [u EXCEPT !.phase = "notify", !.todo = pushConfigs[u.task]] \in Update
    BY <2>1 DEF Update, Phases
  <2> QED BY <1>3, <2>2, <2>3 DEF ListConfigs, ListTaskPushNotificationConfig, storageVars
<1>4. ASSUME NEW p \in Procs, NEW c \in Configs, Notify(p, c) PROVE TypeOK'
  <2>1. upd[p].task \in Tasks /\ SavedVersion(upd[p]) \in Nat
    BY <1>4 DEF Notify, UpdateInv, NotifyReady, SavedVersion, Update
  <2> QED BY <1>4, <2>1, EndpointType DEF Notify, storageVars
<1>5. ASSUME NEW p \in Procs, upd[p].phase = "append", StreamAfterFailedAppend(p)
       PROVE  streams' \in [Tasks -> StreamFile]
  <2>1. upd[p].task \in Tasks BY <1>5, ActiveEvent
  <2> QED BY <1>5, <2>1, StartTypes DEF StreamAfterFailedAppend, TornStream
<1>6. ASSUME NEW p \in Procs, upd[p].phase = "save", TasksAfterFailedSave(p)
       PROVE  tasks' \in [Tasks -> SnapshotFile]
  <2>1. upd[p].task \in Tasks BY <1>6, ActiveEvent
  <2> QED BY <1>6, <2>1, StartTypes DEF TasksAfterFailedSave, TornTask
<1>7. ASSUME NEW p \in Procs, Failure(p) PROVE TypeOK'
  <2>1. CASE AppendFails(p)
    <3>1. upd' \in [Procs -> Update] BY <2>1, ReturnType DEF AppendFails
    <3>2. faults' \in 0 .. MaxFaults BY <2>1, UpdaterAssumption DEF AppendFails, Fault
    <3> QED BY <2>1, <1>5, <3>1, <3>2 DEF AppendFails
  <2>2. CASE SaveFails(p)
    <3>1. upd' \in [Procs -> Update] BY <2>2, ReturnType DEF SaveFails
    <3>2. faults' \in 0 .. MaxFaults BY <2>2, UpdaterAssumption DEF SaveFails, Fault
    <3> QED BY <2>2, <1>6, <3>1, <3>2 DEF SaveFails
  <2>3. CASE ListFails(p)
    <3>1. upd' \in [Procs -> Update] BY <2>3, ReturnType DEF ListFails
    <3>2. faults' \in 0 .. MaxFaults BY <2>3, UpdaterAssumption DEF ListFails, Fault
    <3> QED BY <2>3, <3>1, <3>2 DEF ListFails, storageVars
  <2>4. ASSUME NEW c \in Configs, NotifyFails(p, c) PROVE TypeOK'
    BY <2>4, EndpointType, UpdaterAssumption DEF NotifyFails, Fault, storageVars
  <2> QED BY <1>7, <2>1, <2>2, <2>3, <2>4 DEF Failure
<1>8. CASE Crash
  <2>1. upd' \in [Procs -> Update] BY <1>8, StartTypes DEF Crash
  <2>2. streams' \in [Tasks -> StreamFile] BY <1>5, <1>8 DEF Crash
  <2>3. tasks' \in [Tasks -> SnapshotFile] BY <1>6, <1>8 DEF Crash
  <2> QED BY <1>8, <2>1, <2>2, <2>3, UpdaterAssumption DEF Crash, Fault
<1>9. CASE Configure
  BY <1>9 DEF Configure, SetTaskPushNotificationConfig, DeleteTaskPushNotificationConfig,
               SavedConfig, DeletedConfig, updaterVars
<1>10. CASE UNCHANGED vars
  BY <1>10 DEF vars, storageVars, updaterVars
<1> QED
  BY <1>1, <1>2, <1>3, <1>4, <1>7, <1>8, <1>9, <1>10, BeginType
  DEF Next, Progress

-----------------------------------------------------------------------------
(* Every step preserves the invariant. *)

\* Steps that touch neither file and start no update.
LEMMA QuietStep ==
  ASSUME TypeOK, TypeOK', UpdateInv, UNCHANGED <<tasks, streams>>,
         issued \subseteq issued',
         \A q \in Procs :
           \/ upd'[q] = upd[q]
           \/ upd'[q].phase \in {"idle", "done"}
           \/ /\ upd'[q].phase \in {"list", "notify"} /\ upd[q].phase \in {"list", "notify"}
              /\ upd'[q].task = upd[q].task /\ upd'[q].version = upd[q].version,
         PushedIsSaved'
  PROVE  UpdateInv'
<1>1. \A t \in Tasks : StreamShape(t)' /\ SnapshotShape(t)'
  BY DEF UpdateInv, StreamShape, SnapshotShape, CanceledWithin
<1>2. \A q \in Procs : AppendReady(q)'
  BY DEF UpdateInv, AppendReady, Creating, Updating, Ahead
<1>3. \A q \in Procs : SaveReady(q)'
  BY DEF UpdateInv, SaveReady, Creating, Updating, Committing
<1>4. \A q \in Procs : NotifyReady(q)'
  BY DEF UpdateInv, NotifyReady
<1> QED BY <1>1, <1>2, <1>3, <1>4 DEF UpdateInv

\* createNewTask starts.
LEMMA BeginCreateStep ==
  ASSUME TypeOK, TypeOK', UpdateInv,
         NEW p \in Procs, NEW t \in Tasks, NEW m \in Messages, BeginCreate(p, t, m)
  PROVE  UpdateInv'
<1> USE DEF BeginCreate, storageVars, TypeOK
<1>1. \A s \in Tasks : StreamShape(s)' /\ SnapshotShape(s)'
  BY DEF UpdateInv, StreamShape, SnapshotShape, CanceledWithin
<1>2. streams[t].file = "absent" /\ tasks[t].file = "absent"
  BY DEF UpdateInv, StreamShape
<1>3. \A q \in Procs : upd[q].phase \in {"append", "save"} => upd[q].task # t
  BY DEF UpdateInv, AppendReady, SaveReady
<1>4. /\ upd'[p].phase = "append" /\ upd'[p].task = t /\ upd'[p].version = 0
      /\ upd'[p].event = [kind |-> "task", val |-> m]
      /\ \A q \in Procs : q # p => upd'[q] = upd[q]
  BY DEF IdleUpdate
<1>5. \A q \in Procs : AppendReady(q)'
  <2>1. AppendReady(p)' BY <1>2, <1>3, <1>4 DEF AppendReady, Creating
  <2>2. ASSUME NEW q \in Procs, q # p PROVE AppendReady(q)'
    BY <1>3, <1>4, <2>2 DEF UpdateInv, AppendReady, Creating, Updating, Ahead
  <2> QED BY <2>1, <2>2
<1>6. \A q \in Procs : SaveReady(q)'
  BY <1>3, <1>4 DEF UpdateInv, SaveReady, Creating, Updating, Committing
<1>7. \A q \in Procs : NotifyReady(q)'
  BY <1>4 DEF UpdateInv, NotifyReady
<1> QED BY <1>1, <1>5, <1>6, <1>7 DEF UpdateInv, PushedIsSaved

\* A task is read for an update.
LEMMA ReadTaskStep ==
  ASSUME TypeOK, TypeOK', UpdateInv,
         NEW p \in Procs, NEW t \in Tasks, NEW e \in Updates, ReadTask(p, t, e)
  PROVE  UpdateInv'
<1> USE DEF ReadTask, storageVars, TypeOK
<1>1. CASE GetTaskSucceeds(t) /\ ~Refused(tasks[t].task, e)
  <2>1. tasks[t].file = "intact" /\ tasks[t].version >= 1
    BY <1>1 DEF GetTaskSucceeds, UpdateInv, SnapshotShape
  <2>2. t \in issued /\ streams[t].file # "absent"
    BY <2>1 DEF UpdateInv, StreamShape
  <2>3. /\ upd'[p].phase = "append" /\ upd'[p].task = t /\ upd'[p].event = e
        /\ upd'[p].base = tasks[t].task /\ upd'[p].version = tasks[t].version
        /\ \A q \in Procs : q # p => upd'[q] = upd[q]
    BY <1>1 DEF IdleUpdate
  <2>4. \A s \in Tasks : StreamShape(s)' /\ SnapshotShape(s)'
    BY DEF UpdateInv, StreamShape, SnapshotShape, CanceledWithin
  <2>5. AppendReady(p)'
    <3>1. Updating(p, t)' BY <1>1, <2>1, <2>3 DEF Updating, Refused
    <3>2. streams[t].file = "intact" =>
            /\ tasks[t].version <= Len(streams[t].events)
            /\ Ahead(t) => tasks[t].version < Len(streams[t].events)
      BY <2>1 DEF UpdateInv, SnapshotShape, Ahead, StorageTypeOK, StreamFile, SnapshotFile
    <3> QED BY <2>2, <2>3, <3>1, <3>2 DEF AppendReady, Ahead
  <2>6. ASSUME NEW q \in Procs, q # p PROVE AppendReady(q)'
    BY <2>1, <2>3, <2>6 DEF UpdateInv, AppendReady, Creating, Updating, Ahead
  <2>7. \A q \in Procs : SaveReady(q)'
    BY <2>1, <2>3 DEF UpdateInv, SaveReady, Creating, Updating, Committing
  <2>8. \A q \in Procs : NotifyReady(q)'
    BY <2>3 DEF UpdateInv, NotifyReady
  <2> QED BY <2>4, <2>5, <2>6, <2>7, <2>8 DEF UpdateInv, PushedIsSaved
<1>2. CASE ~(GetTaskSucceeds(t) /\ ~Refused(tasks[t].task, e))
  <2>1. \A q \in Procs : upd'[q] = upd[q] \/ upd'[q].phase \in {"idle", "done"}
    BY <1>2 DEF IdleUpdate
  <2>2. PushedIsSaved' BY DEF UpdateInv, PushedIsSaved
  <2> QED BY <2>1, <2>2, QuietStep
<1> QED BY <1>1, <1>2

\* Append accepts only the creation of a task, or an event for a snapshot that is in step.
LEMMA AcceptedAppend ==
  ASSUME TypeOK, UpdateInv, NEW p \in Procs, upd[p].phase = "append",
         AppendAccepts(upd[p].task, upd[p].version),
         NEW t \in Tasks, t = upd[p].task
  PROVE  /\ Len(streams[t].events) = upd[p].version
         /\ \/ Creating(p, t) /\ streams[t].file = "absent" /\ streams[t].events = <<>>
            \/ /\ Updating(p, t) /\ streams[t].file = "intact"
               /\ tasks[t].file = "intact" /\ tasks[t].version = upd[p].version
<1>1. /\ streams[t].version = Len(streams[t].events) /\ streams[t].events \in Seq(Event)
      /\ upd[p].version \in Nat
  BY DEF UpdateInv, StreamShape, TypeOK, StorageTypeOK, StreamFile, Update
<1>2. CASE Creating(p, t) /\ streams[t].file = "absent"
  BY <1>1, <1>2 DEF UpdateInv, StreamShape, Creating
<1>3. CASE Updating(p, t) /\ streams[t].file # "absent"
  <2>1. streams[t].file = "intact" /\ Len(streams[t].events) = upd[p].version
    BY <1>1, <1>3 DEF AppendAccepts, Updating
  <2>2. ~Ahead(t) BY <1>1, <1>3, <2>1 DEF UpdateInv, AppendReady, Creating
  <2> QED BY <1>3, <2>1, <2>2 DEF Ahead
<1> QED BY <1>2, <1>3 DEF UpdateInv, AppendReady

\* While Append would accept p, nobody is between Append and SaveTask on that task.
LEMMA NobodyCommits ==
  ASSUME TypeOK, UpdateInv, NEW p \in Procs, upd[p].phase = "append",
         AppendAccepts(upd[p].task, upd[p].version)
  PROVE  \A q \in Procs : ~Committing(q, upd[p].task)
<1> SUFFICES ASSUME NEW q \in Procs, Committing(q, upd[p].task) PROVE FALSE OBVIOUS
<1>1. PICK t \in Tasks : t = upd[p].task BY ActiveEvent
<1> DEFINE len == Len(streams[t].events)
<1>2. /\ streams[t].file = "intact" /\ len = upd[q].version + 1
      /\ Creating(q, t) \/ (tasks[t].file = "intact" /\ tasks[t].version = upd[q].version)
  BY <1>1 DEF Committing, UpdateInv, SaveReady
<1>3. upd[q].version \in Nat /\ upd[p].version \in Nat BY DEF TypeOK, Update
<1>4. upd[p].version = len BY <1>1, <1>2 DEF AppendAccepts, UpdateInv, StreamShape
<1>5. ~Creating(q, t) BY <1>1, <1>3, <1>4, <1>2 DEF Creating
<1>6. tasks[t].file = "intact" /\ tasks[t].version # len BY <1>2, <1>3, <1>5
<1>7. Ahead(t) BY <1>2, <1>6 DEF Ahead
<1>8. upd[p].version < len
  BY <1>1, <1>2, <1>7 DEF UpdateInv, AppendReady, Creating
<1> QED BY <1>3, <1>4, <1>8

\* Storage.Append accepts the event of p.
LEMMA AppendStep ==
  ASSUME TypeOK, TypeOK', UpdateInv, NEW p \in Procs, upd[p].phase = "append",
         AppendAccepts(upd[p].task, upd[p].version),
         streams' = Appended(upd[p].task, <<upd[p].event>>),
         upd' = [upd EXCEPT ![p].phase = "save"],
         UNCHANGED <<tasks, issued, pushes>>
  PROVE  UpdateInv'
<1>0. PICK t \in Tasks : t = upd[p].task BY ActiveEvent
<1> DEFINE u == upd[p]
           es == streams[t].events
<1>1. /\ t \in Tasks /\ t \in issued /\ u.event \in Event /\ u.version \in Nat
      /\ es \in Seq(Event) /\ streams[t].version = Len(es) /\ tasks[t].version \in Nat
  <2>1. t \in Tasks /\ u.event \in Event BY <1>0, ActiveEvent
  <2>2. t \in issued BY <1>0 DEF UpdateInv, AppendReady
  <2> QED BY <2>1, <2>2 DEF TypeOK, StorageTypeOK, StreamFile, SnapshotFile, Update, UpdateInv, StreamShape
<1>2. /\ Len(es) = u.version
      /\ \/ Creating(p, t) /\ streams[t].file = "absent" /\ es = <<>>
         \/ /\ Updating(p, t) /\ streams[t].file = "intact"
            /\ tasks[t].file = "intact" /\ tasks[t].version = u.version
  BY <1>0, AcceptedAppend
<1>3. PICK new \in Seq(Event) :
        /\ new = es \o <<u.event>> /\ Len(new) = Len(es) + 1
        /\ \A i \in 1 .. Len(es) : new[i] = es[i]
        /\ new[Len(es) + 1] = u.event
  <2>1. es \o <<u.event>> \in Seq(Event) /\ Len(es \o <<u.event>>) = Len(es) + 1
    BY <1>1
  <2>2. \A i \in 1 .. Len(es) : (es \o <<u.event>>)[i] = es[i] BY <1>1
  <2>3. (es \o <<u.event>>)[Len(es) + 1] = u.event BY <1>1
  <2> QED BY <2>1, <2>2, <2>3
<1>4. /\ streams'[t] = [file |-> "intact", events |-> new, version |-> Len(new)]
      /\ \A s \in Tasks : s # t => streams'[s] = streams[s]
  <2>1. Len(<<u.event>>) = 1 OBVIOUS
  <2> QED BY <1>0, <1>1, <1>3, <2>1 DEF Appended, TypeOK, StorageTypeOK
<1>5. /\ upd'[p] = [u EXCEPT !.phase = "save"]
      /\ upd'[p].phase = "save" /\ upd'[p].task = t /\ upd'[p].event = u.event
      /\ upd'[p].version = u.version /\ upd'[p].base = u.base
      /\ \A q \in Procs : q # p => upd'[q] = upd[q]
  BY <1>0 DEF TypeOK, Update
<1>6. \A q \in Procs : ~Committing(q, t) BY <1>0, NobodyCommits
<1>7. \A s \in Tasks : StreamShape(s)'
  <2>1. StreamShape(t)'
    <3>1. \A i \in 1 .. Len(new) : (new[i].kind = "task") <=> (i = 1)
      <4>1. CASE Creating(p, t) /\ es = <<>>
        <5>1. Len(new) = 1 /\ new[1] = u.event /\ u.event.kind = "task"
          BY <1>1, <1>2, <1>3, <4>1 DEF Creating
        <5> QED BY <5>1
      <4>2. CASE Updating(p, t)
        <5>1. u.event.kind # "task" /\ Len(es) >= 1
          BY <1>2, <4>2, <1>1 DEF Updating, Updates
        <5>2. \A i \in 1 .. Len(es) : (es[i].kind = "task") <=> (i = 1)
          BY <1>1 DEF UpdateInv, StreamShape
        <5>3. Len(es) \in Nat BY <1>1
        <5>4. \A i \in 1 .. Len(new) : i \in 1 .. Len(es) \/ i = Len(es) + 1
          BY <1>3, <5>3
        <5> QED BY <1>3, <5>1, <5>2, <5>3, <5>4
      <4> QED BY <1>2, <4>1, <4>2
    <3>2. Len(new) >= 1 BY <1>1, <1>3
    <3> QED BY <1>1, <1>4, <3>1, <3>2 DEF StreamShape
  <2>2. ASSUME NEW s \in Tasks, s # t PROVE StreamShape(s)'
    BY <1>4, <2>2 DEF UpdateInv, StreamShape
  <2> QED BY <2>1, <2>2
<1>8. \A s \in Tasks : SnapshotShape(s)'
  <2>1. SnapshotShape(t)'
    <3>1. CASE Creating(p, t) BY <3>1 DEF SnapshotShape, Creating
    <3>2. CASE streams[t].file = "intact" /\ tasks[t].file = "intact" /\ tasks[t].version = u.version
      <4>1. tasks[t].version = Len(es) /\ Len(es) \in Nat BY <1>1, <1>2, <3>2
      <4>2. CanceledWithin(new, Len(es)) => CanceledWithin(es, Len(es))
        BY <1>3 DEF CanceledWithin
      <4>3. CanceledWithin(es, Len(es)) => tasks[t].task.state = "canceled"
        BY <1>1, <3>2, <4>1 DEF UpdateInv, SnapshotShape
      <4>4. tasks[t].version >= 1 BY <1>1, <3>2 DEF UpdateInv, SnapshotShape
      <4>5. streams'[t].events = new BY <1>4
      <4>6. CanceledWithin(streams[t].events, tasks[t].version)' => tasks'[t].task.state = "canceled"
        BY <4>1, <4>2, <4>3, <4>5 DEF CanceledWithin
      <4>7. tasks'[t].version \in {Len(streams'[t].events) - 1, Len(streams'[t].events)}
        BY <1>3, <4>1, <4>5
      <4> QED BY <4>4, <4>6, <4>7 DEF SnapshotShape
    <3> QED BY <1>2, <3>1, <3>2
  <2>2. ASSUME NEW s \in Tasks, s # t PROVE SnapshotShape(s)'
    BY <1>4, <2>2 DEF UpdateInv, SnapshotShape, CanceledWithin
  <2> QED BY <2>1, <2>2
<1>9. \A q \in Procs : AppendReady(q)'
  <2> SUFFICES ASSUME NEW q \in Procs, upd'[q].phase = "append" PROVE AppendReady(q)' 
    BY DEF AppendReady
  <2>1. q # p /\ upd'[q] = upd[q] /\ upd[q].phase = "append" BY <1>5
  <2>2. CASE upd[q].task # t
    <3>1. upd[q].task \in Tasks BY <2>1 DEF UpdateInv, AppendReady
    <3>2. streams'[upd[q].task] = streams[upd[q].task] BY <1>4, <2>2, <3>1
    <3>3. \A r \in Procs : r # p => upd'[r] = upd[r] BY <1>5
    <3>4. upd'[p].task = t BY <1>5
    <3> QED BY <2>1, <2>2, <3>2, <3>3, <3>4 DEF UpdateInv, AppendReady, Creating, Updating, Ahead
  <2>3. CASE upd[q].task = t
    <3>1. ~Creating(p, t) /\ ~Creating(q, t) BY <1>0, <2>1, <2>3 DEF Creating
    <3>2. Updating(q, t) /\ streams[t].file = "intact" /\ upd[q].version <= Len(es)
      BY <1>2, <2>1, <2>3, <3>1 DEF UpdateInv, AppendReady
    <3>3. upd[q].version < Len(new) BY <1>1, <1>3, <3>2, <2>1 DEF TypeOK, Update
    <3>4. Updating(q, t)' BY <2>1, <2>3, <3>2 DEF Updating
    <3>5. upd[q].version <= Len(new) BY <3>3, <1>3, <1>1 DEF TypeOK, Update
    <3> QED BY <1>1, <1>4, <2>1, <2>3, <3>3, <3>4, <3>5 DEF AppendReady
  <2> QED BY <2>2, <2>3
<1>10. \A q \in Procs : SaveReady(q)'
  <2>1. SaveReady(p)'
    <3>1. CASE Creating(p, t)
      <4>1. Creating(p, t)'
        <5>1. \A q \in Procs : upd'[q].phase = "append" \/ upd'[q].phase = "save" =>
                upd[q].phase = "append" \/ upd[q].phase = "save"
          BY <1>5
        <5>2. \A q \in Procs : upd'[q].task = upd[q].task BY <1>5
        <5> QED BY <1>5, <3>1, <5>1, <5>2 DEF Creating
      <4>2. \A q \in Procs : Committing(q, t)' => q = p
        BY <1>5, <1>6 DEF Committing
      <4> QED BY <1>1, <1>2, <1>3, <1>4, <1>5, <4>1, <4>2 DEF SaveReady, Committing
    <3>2. CASE Updating(p, t) /\ tasks[t].file = "intact" /\ tasks[t].version = u.version
      <4>1. Updating(p, t)' BY <1>5, <3>2 DEF Updating
      <4>2. \A q \in Procs : Committing(q, t)' => q = p
        BY <1>5, <1>6 DEF Committing
      <4>3. /\ streams'[t].file = "intact" /\ Len(streams'[t].events) = u.version + 1
            /\ streams'[t].events[u.version + 1] = u.event
        <5>1. streams'[t].file = "intact" /\ streams'[t].events = new BY <1>4
        <5>2. Len(es) = u.version BY <1>2
        <5>3. Len(new) = u.version + 1 /\ new[u.version + 1] = u.event BY <1>3, <5>2
        <5> QED BY <5>1, <5>3
      <4> QED BY <1>1, <1>5, <3>2, <4>1, <4>2, <4>3 DEF SaveReady
    <3> QED BY <1>2, <3>1, <3>2
  <2>2. ASSUME NEW q \in Procs, q # p, upd'[q].phase = "save" PROVE SaveReady(q)'
    <3>1. upd'[q] = upd[q] /\ upd[q].phase = "save" BY <1>5, <2>2
    <3>2. upd[q].task # t BY <1>6, <3>1 DEF Committing
    <3>3. upd[q].task \in Tasks BY <3>1 DEF UpdateInv, SaveReady
    <3>4. streams'[upd[q].task] = streams[upd[q].task] BY <1>4, <3>2, <3>3
    <3>5. upd'[p].task = t /\ \A r \in Procs : r # p => upd'[r] = upd[r] BY <1>5
    <3> QED BY <3>1, <3>2, <3>4, <3>5 DEF UpdateInv, SaveReady, Creating, Updating, Committing
  <2> QED BY <2>1, <2>2 DEF SaveReady
<1>11. \A q \in Procs : NotifyReady(q)'
  BY <1>5 DEF UpdateInv, NotifyReady
<1>12. PushedIsSaved' BY DEF UpdateInv, PushedIsSaved
<1> QED BY <1>7, <1>8, <1>9, <1>10, <1>11, <1>12 DEF UpdateInv

\* SaveTask accepts the snapshot of p.
LEMMA SaveStep ==
  ASSUME TypeOK, TypeOK', UpdateInv, NEW p \in Procs, upd[p].phase = "save",
         tasks' = SavedTask(upd[p].task, ApplyEvent(upd[p].base, upd[p].event), SavedVersion(upd[p])),
         upd' = [upd EXCEPT ![p] = AfterSave(upd[p])],
         UNCHANGED <<streams, issued, pushes>>
  PROVE  UpdateInv'
<1>0. PICK t \in Tasks : t = upd[p].task BY ActiveEvent
<1> DEFINE u == upd[p]
           es == streams[t].events
           saved == ApplyEvent(u.base, u.event)
<1>1. /\ u \in Update /\ u.version \in Nat /\ u.base \in TaskValue
      /\ es \in Seq(Event) /\ tasks[t].version \in Nat
  BY DEF TypeOK, StorageTypeOK, StreamFile, SnapshotFile, Update
<1>2. /\ t \in issued /\ streams[t].file = "intact" /\ Len(es) = u.version + 1
      /\ es[u.version + 1] = u.event
      /\ Creating(p, t) \/ (Updating(p, t) /\ tasks[t].file = "intact" /\ tasks[t].version = u.version)
      /\ \A q \in Procs : Committing(q, t) => q = p
  BY <1>0 DEF UpdateInv, SaveReady
<1>3. /\ tasks'[t] = [file |-> "intact", task |-> saved, version |-> u.version + 1]
      /\ \A s \in Tasks : s # t => tasks'[s] = tasks[s]
  BY <1>0 DEF SavedTask, SavedVersion, TypeOK, StorageTypeOK
<1>4. /\ upd'[p].phase \in {"list", "done"} /\ upd'[p].task = t
      /\ upd'[p].version = u.version
      /\ \A q \in Procs : q # p => upd'[q] = upd[q]
  BY <1>0, <1>1 DEF AfterSave, TypeOK, Update
<1>5. Ahead(t)
  BY <1>1, <1>2 DEF Ahead, Creating
<1>6. \A s \in Tasks : StreamShape(s)'
  BY <1>2, <1>3 DEF UpdateInv, StreamShape
<1>7. \A s \in Tasks : SnapshotShape(s)'
  <2>1. SnapshotShape(t)'
    <3>1. CanceledWithin(es, u.version + 1) => saved.state = "canceled"
      <4> SUFFICES ASSUME NEW i \in 1 .. (u.version + 1),
                          es[i] = [kind |-> "status", val |-> "canceled"]
                   PROVE  saved.state = "canceled"
        BY DEF CanceledWithin
      <4>1. CASE Creating(p, t)
        <5>1. u.version = 0 /\ es[1].kind = "task" BY <1>2, <4>1 DEF Creating
        <5>2. i = 1 BY <5>1
        <5> QED BY <5>1, <5>2
      <4>2. CASE Updating(p, t) /\ tasks[t].file = "intact" /\ tasks[t].version = u.version
        <5>1. u.event \in Updates /\ ~Refused(u.base, u.event) /\ u.base = tasks[t].task
          BY <4>2 DEF Updating
        <5>2. CanceledWithin(es, u.version) => u.base.state = "canceled"
          BY <1>2, <4>2, <5>1 DEF UpdateInv, SnapshotShape
        <5>3. CanceledWithin(es, u.version + 1) BY DEF CanceledWithin
        <5> QED BY <1>1, <1>2, <5>1, <5>2, <5>3, CanceledAfter
      <4> QED BY <1>2, <4>1, <4>2
    <3>2. /\ tasks'[t].version = u.version + 1 /\ tasks'[t].task = saved
          /\ streams'[t].events = es
      BY <1>3
    <3>3. tasks'[t].version >= 1 /\ tasks'[t].version = Len(streams'[t].events)
      BY <1>1, <1>2, <3>2
    <3>4. CanceledWithin(streams[t].events, tasks[t].version)' => tasks'[t].task.state = "canceled"
      BY <3>1, <3>2 DEF CanceledWithin
    <3> QED BY <3>3, <3>4 DEF SnapshotShape
  <2>2. ASSUME NEW s \in Tasks, s # t PROVE SnapshotShape(s)'
    BY <1>3, <2>2 DEF UpdateInv, SnapshotShape, CanceledWithin
  <2> QED BY <2>1, <2>2
<1>8. \A q \in Procs : AppendReady(q)'
  <2> SUFFICES ASSUME NEW q \in Procs, upd'[q].phase = "append" PROVE AppendReady(q)'
    BY DEF AppendReady
  <2>1. q # p /\ upd'[q] = upd[q] /\ upd[q].phase = "append" BY <1>4
  <2>2. upd[q].task \in Tasks BY <2>1 DEF UpdateInv, AppendReady
  <2>3. CASE upd[q].task # t
    <3>1. tasks'[upd[q].task] = tasks[upd[q].task] BY <1>3, <2>2, <2>3
    <3> QED BY <1>4, <2>1, <2>3, <3>1 DEF UpdateInv, AppendReady, Creating, Updating, Ahead
  <2>4. CASE upd[q].task = t
    <3>1. /\ t \in issued /\ Updating(q, t) /\ upd[q].version < Len(es)
          /\ upd[q].version <= Len(es)
      BY <1>2, <1>5, <2>1, <2>4 DEF UpdateInv, AppendReady
    <3>2. upd[q].version # u.version + 1 BY <1>1, <1>2, <3>1, <2>1 DEF TypeOK, Update
    <3>3. Updating(q, t)' BY <1>3, <2>1, <2>4, <3>1, <3>2 DEF Updating
    <3> QED BY <1>2, <2>1, <2>2, <2>4, <3>1, <3>3 DEF AppendReady
  <2> QED BY <2>3, <2>4
<1>9. \A q \in Procs : SaveReady(q)'
  <2> SUFFICES ASSUME NEW q \in Procs, upd'[q].phase = "save" PROVE SaveReady(q)'
    BY DEF SaveReady
  <2>1. q # p /\ upd'[q] = upd[q] /\ upd[q].phase = "save" BY <1>4
  <2>2. upd[q].task \in Tasks BY <2>1 DEF UpdateInv, SaveReady
  <2>3. upd[q].task # t BY <1>2, <2>1 DEF Committing
  <2>4. tasks'[upd[q].task] = tasks[upd[q].task] BY <1>3, <2>2, <2>3
  <2> QED BY <1>4, <2>1, <2>3, <2>4 DEF UpdateInv, SaveReady, Creating, Updating, Committing
<1>10. \A q \in Procs : NotifyReady(q)'
  <2> SUFFICES ASSUME NEW q \in Procs, upd'[q].phase \in {"list", "notify"} PROVE NotifyReady(q)'
    BY DEF NotifyReady
  <2>1. CASE q = p BY <1>1, <1>3, <1>4, <2>1 DEF NotifyReady
  <2>2. CASE q # p /\ upd[q].task # t
    BY <1>3, <1>4, <2>2 DEF UpdateInv, NotifyReady
  <2>3. CASE q # p /\ upd[q].task = t
    <3>1. /\ tasks[t].file # "absent"
          /\ tasks[t].file = "intact" => tasks[t].version > upd[q].version
      BY <1>4, <2>3 DEF UpdateInv, NotifyReady
    <3>2. tasks[t].file = "intact" /\ tasks[t].version = u.version
      BY <1>2, <3>1 DEF Creating
    <3>3. u.version + 1 > upd[q].version BY <1>1, <3>1, <3>2 DEF TypeOK, Update
    <3> QED BY <1>3, <1>4, <2>3, <3>3 DEF NotifyReady
  <2> QED BY <2>1, <2>2, <2>3
<1>11. PushedIsSaved'
  <2> SUFFICES ASSUME NEW push \in pushes
               PROVE  /\ tasks'[push[1]].file # "absent"
                      /\ tasks'[push[1]].file = "intact" => tasks'[push[1]].version >= push[2]
    BY DEF PushedIsSaved
  <2>1. push[1] \in Tasks /\ push[2] \in Nat BY DEF TypeOK
  <2>2. /\ tasks[push[1]].file # "absent"
        /\ tasks[push[1]].file = "intact" => tasks[push[1]].version >= push[2]
    BY DEF UpdateInv, PushedIsSaved
  <2>3. CASE push[1] # t BY <1>3, <2>1, <2>2, <2>3
  <2>4. CASE push[1] = t
    <3>1. tasks[t].file = "intact" /\ tasks[t].version = u.version
      BY <1>2, <2>2, <2>4 DEF Creating
    <3>2. u.version + 1 >= push[2] BY <1>1, <2>1, <2>2, <2>4, <3>1
    <3> QED BY <1>3, <2>4, <3>2
  <2> QED BY <2>3, <2>4
<1> QED BY <1>6, <1>7, <1>8, <1>9, <1>10, <1>11 DEF UpdateInv

\* A cut-short Append leaves a torn stream: its writer stops, the others keep what they rely on.
LEMMA TornStreamStep ==
  ASSUME TypeOK, TypeOK', UpdateInv, NEW p \in Procs, upd[p].phase = "append",
         AppendAccepts(upd[p].task, upd[p].version),
         streams' = TornStream(upd[p].task),
         upd'[p].phase \in {"idle", "done"},
         \A q \in Procs : upd'[q] = upd[q] \/ upd'[q].phase \in {"idle", "done"},
         UNCHANGED <<tasks, issued, pushes>>
  PROVE  UpdateInv'
<1>0. PICK t \in Tasks : t = upd[p].task BY ActiveEvent
<1>1. /\ streams'[t].file = "torn" /\ streams'[t].events = <<>> /\ streams'[t].version = 0
      /\ \A s \in Tasks : s # t => streams'[s] = streams[s]
  BY <1>0 DEF TornStream, Torn, NoStream, TypeOK, StorageTypeOK
<1>2. t \in issued BY <1>0 DEF UpdateInv, AppendReady
<1>3. \A q \in Procs : ~Committing(q, t) BY <1>0, NobodyCommits
<1>4. \A s \in Tasks : StreamShape(s)'
  <2>1. StreamShape(t)' BY <1>1, <1>2 DEF StreamShape
  <2>2. ASSUME NEW s \in Tasks, s # t PROVE StreamShape(s)'
    BY <1>1, <2>2 DEF UpdateInv, StreamShape
  <2> QED BY <2>1, <2>2
<1>5. \A s \in Tasks : SnapshotShape(s)'
  <2>1. SnapshotShape(t)' BY <1>1 DEF UpdateInv, SnapshotShape
  <2>2. ASSUME NEW s \in Tasks, s # t PROVE SnapshotShape(s)'
    BY <1>1, <2>2 DEF UpdateInv, SnapshotShape, CanceledWithin
  <2> QED BY <2>1, <2>2
<1>6. \A q \in Procs : AppendReady(q)'
  <2> SUFFICES ASSUME NEW q \in Procs, upd'[q].phase = "append" PROVE AppendReady(q)'
    BY DEF AppendReady
  <2>1. q # p /\ upd'[q] = upd[q] /\ upd[q].phase = "append" OBVIOUS
  <2>2. upd[q].task \in Tasks BY <2>1 DEF UpdateInv, AppendReady
  <2>3. CASE upd[q].task # t
    <3>1. streams'[upd[q].task] = streams[upd[q].task] BY <1>1, <2>2, <2>3
    <3> QED BY <2>1, <3>1 DEF UpdateInv, AppendReady, Creating, Updating, Ahead
  <2>4. CASE upd[q].task = t
    <3>1. ~Creating(q, t) BY <1>0, <2>1, <2>4 DEF Creating
    <3>2. Updating(q, t) BY <2>1, <2>4, <3>1 DEF UpdateInv, AppendReady
    <3>3. Updating(q, t)' BY <2>1, <3>2 DEF Updating
    <3> QED BY <1>1, <1>2, <2>1, <2>4, <3>3 DEF AppendReady
  <2> QED BY <2>3, <2>4
<1>7. \A q \in Procs : SaveReady(q)'
  <2> SUFFICES ASSUME NEW q \in Procs, upd'[q].phase = "save" PROVE SaveReady(q)'
    BY DEF SaveReady
  <2>1. upd'[q] = upd[q] /\ upd[q].phase = "save" OBVIOUS
  <2>2. upd[q].task \in Tasks /\ upd[q].task # t
    BY <1>3, <2>1 DEF UpdateInv, SaveReady, Committing
  <2>3. streams'[upd[q].task] = streams[upd[q].task] BY <1>1, <2>2
  <2> QED BY <2>1, <2>2, <2>3 DEF UpdateInv, SaveReady, Creating, Updating, Committing
<1>8. \A q \in Procs : NotifyReady(q)' BY DEF UpdateInv, NotifyReady
<1> QED BY <1>4, <1>5, <1>6, <1>7, <1>8 DEF UpdateInv, PushedIsSaved

\* A cut-short SaveTask leaves a torn snapshot: its writer stops, the others keep what they rely on.
LEMMA TornTaskStep ==
  ASSUME TypeOK, TypeOK', UpdateInv, NEW p \in Procs, upd[p].phase = "save",
         tasks' = TornTask(upd[p].task),
         upd'[p].phase \in {"idle", "done"},
         \A q \in Procs : upd'[q] = upd[q] \/ upd'[q].phase \in {"idle", "done"},
         UNCHANGED <<streams, issued, pushes>>
  PROVE  UpdateInv'
<1>0. PICK t \in Tasks : t = upd[p].task BY ActiveEvent
<1>1. /\ tasks'[t].file = "torn"
      /\ \A s \in Tasks : s # t => tasks'[s] = tasks[s]
  BY <1>0 DEF TornTask, Torn, NoSnapshot, TypeOK, StorageTypeOK
<1>2. /\ t \in issued /\ streams[t].file = "intact"
      /\ \A q \in Procs : Committing(q, t) => q = p
  BY <1>0 DEF UpdateInv, SaveReady
<1>3. Ahead(t)
  <2>1. upd[p].version \in Nat BY DEF TypeOK, Update
  <2> QED BY <1>0, <2>1 DEF UpdateInv, SaveReady, Creating, Ahead
<1>4. \A s \in Tasks : StreamShape(s)' BY <1>1, <1>2 DEF UpdateInv, StreamShape
<1>5. \A s \in Tasks : SnapshotShape(s)'
  <2>1. SnapshotShape(t)' BY <1>1 DEF SnapshotShape
  <2>2. ASSUME NEW s \in Tasks, s # t PROVE SnapshotShape(s)'
    BY <1>1, <2>2 DEF UpdateInv, SnapshotShape, CanceledWithin
  <2> QED BY <2>1, <2>2
<1>6. \A q \in Procs : AppendReady(q)'
  <2> SUFFICES ASSUME NEW q \in Procs, upd'[q].phase = "append" PROVE AppendReady(q)'
    BY DEF AppendReady
  <2>1. upd'[q] = upd[q] /\ upd[q].phase = "append" OBVIOUS
  <2>2. upd[q].task \in Tasks BY <2>1 DEF UpdateInv, AppendReady
  <2>3. CASE upd[q].task # t
    <3>1. tasks'[upd[q].task] = tasks[upd[q].task] BY <1>1, <2>2, <2>3
    <3> QED BY <2>1, <3>1 DEF UpdateInv, AppendReady, Creating, Updating, Ahead
  <2>4. CASE upd[q].task = t
    <3>1. /\ Updating(q, t) /\ upd[q].version <= Len(streams[t].events)
          /\ upd[q].version < Len(streams[t].events)
      BY <1>2, <1>3, <2>1, <2>4 DEF UpdateInv, AppendReady
    <3>2. Updating(q, t)' BY <1>1, <2>1, <3>1 DEF Updating
    <3> QED BY <1>2, <2>1, <2>2, <2>4, <3>1, <3>2 DEF AppendReady
  <2> QED BY <2>3, <2>4
<1>7. \A q \in Procs : SaveReady(q)'
  <2> SUFFICES ASSUME NEW q \in Procs, upd'[q].phase = "save" PROVE SaveReady(q)'
    BY DEF SaveReady
  <2>1. upd'[q] = upd[q] /\ upd[q].phase = "save" /\ q # p OBVIOUS
  <2>2. upd[q].task \in Tasks /\ upd[q].task # t
    BY <1>2, <2>1 DEF UpdateInv, SaveReady, Committing
  <2>3. tasks'[upd[q].task] = tasks[upd[q].task] BY <1>1, <2>2
  <2> QED BY <2>1, <2>2, <2>3 DEF UpdateInv, SaveReady, Creating, Updating, Committing
<1>8. \A q \in Procs : NotifyReady(q)'
  <2>1. ASSUME NEW s \in Tasks, tasks[s].file # "absent" PROVE tasks'[s].file # "absent"
    BY <1>1, <2>1
  <2>2. ASSUME NEW s \in Tasks, tasks'[s].file = "intact" PROVE tasks'[s] = tasks[s]
    BY <1>1, <2>2
  <2> QED BY <2>1, <2>2 DEF UpdateInv, NotifyReady
<1>9. PushedIsSaved'
  <2> SUFFICES ASSUME NEW push \in pushes
               PROVE  /\ tasks'[push[1]].file # "absent"
                      /\ tasks'[push[1]].file = "intact" => tasks'[push[1]].version >= push[2]
    BY DEF PushedIsSaved
  <2>1. push[1] \in Tasks BY DEF TypeOK
  <2>2. /\ tasks[push[1]].file # "absent"
        /\ tasks[push[1]].file = "intact" => tasks[push[1]].version >= push[2]
    BY DEF UpdateInv, PushedIsSaved
  <2> QED BY <1>1, <2>1, <2>2
<1> QED BY <1>4, <1>5, <1>6, <1>7, <1>8, <1>9 DEF UpdateInv

\* Every step keeps the invariant.
LEMMA InvStep ==
  ASSUME TypeOK, UpdateInv, [Next]_vars
  PROVE  UpdateInv'
<1>0. TypeOK' BY TypeStep
<1>1. ASSUME NEW p \in Procs, NEW t \in Tasks, NEW m \in Messages, BeginCreate(p, t, m)
      PROVE  UpdateInv'
  BY <1>0, <1>1, BeginCreateStep
<1>2. ASSUME NEW p \in Procs, NEW t \in Tasks, NEW e \in Updates, ReadTask(p, t, e)
      PROVE  UpdateInv'
  BY <1>0, <1>2, ReadTaskStep
<1>3. ASSUME UNCHANGED <<tasks, streams, pushes>>, issued \subseteq issued',
             \A q \in Procs : upd'[q] = upd[q] \/ upd'[q].phase \in {"idle", "done"}
      PROVE  UpdateInv'
  <2>1. PushedIsSaved' BY <1>3 DEF UpdateInv, PushedIsSaved
  <2> QED BY <1>0, <1>3, <2>1, QuietStep
<1>4. ASSUME NEW p \in Procs, NEW success, Return(p, success)
      PROVE  /\ upd'[p].phase = "done"
             /\ \A q \in Procs : upd'[q] = upd[q] \/ upd'[q].phase \in {"idle", "done"}
  BY <1>4 DEF Return, TypeOK, Update
<1>5. ASSUME NEW p \in Procs, NEW t \in Tasks, NEW e \in Updates, ReadFails(p, t, e)
      PROVE  UpdateInv'
  <2>1. \A q \in Procs : upd'[q] = upd[q] \/ upd'[q].phase \in {"idle", "done"}
    BY <1>5 DEF ReadFails, IdleUpdate, TypeOK
  <2> QED BY <1>3, <1>5, <2>1 DEF ReadFails, storageVars
<1>6. ASSUME NEW p \in Procs, AppendEvents(p) PROVE UpdateInv'
  <2>1. CASE Return(p, FALSE) /\ UNCHANGED streams
    BY <1>3, <1>4, <1>6, <2>1 DEF AppendEvents
  <2>2. CASE /\ AppendAccepts(upd[p].task, upd[p].version)
             /\ streams' = Appended(upd[p].task, <<upd[p].event>>)
             /\ upd' = [upd EXCEPT ![p].phase = "save"]
    BY <1>0, <1>6, <2>2, AppendStep DEF AppendEvents
  <2> QED BY <1>6, <2>1, <2>2 DEF AppendEvents
<1>7. ASSUME NEW p \in Procs, SaveSnapshot(p) PROVE UpdateInv'
  <2>1. CASE SaveAccepts(upd[p].task, upd[p].version)
    BY <1>0, <1>7, <2>1, SaveStep DEF SaveSnapshot
  <2>2. CASE ~SaveAccepts(upd[p].task, upd[p].version)
    BY <1>3, <1>4, <1>7, <2>2 DEF SaveSnapshot
  <2> QED BY <2>1, <2>2
<1>8. ASSUME NEW p \in Procs, ListConfigs(p) PROVE UpdateInv'
  <2>1. \A q \in Procs :
           \/ upd'[q] = upd[q]
           \/ upd'[q].phase \in {"idle", "done"}
           \/ /\ upd'[q].phase \in {"list", "notify"} /\ upd[q].phase \in {"list", "notify"}
              /\ upd'[q].task = upd[q].task /\ upd'[q].version = upd[q].version
    BY <1>8 DEF ListConfigs, TypeOK, Update
  <2>2. PushedIsSaved' BY <1>8 DEF ListConfigs, storageVars, UpdateInv, PushedIsSaved
  <2> QED BY <1>0, <1>8, <2>1, <2>2, QuietStep DEF ListConfigs, storageVars
<1>9. ASSUME NEW p \in Procs, NEW c \in Configs, upd[p].phase = "notify", NextEndpoint(p, c)
      PROVE  \A q \in Procs :
               \/ upd'[q] = upd[q]
               \/ upd'[q].phase \in {"idle", "done"}
               \/ /\ upd'[q].phase \in {"list", "notify"} /\ upd[q].phase \in {"list", "notify"}
                  /\ upd'[q].task = upd[q].task /\ upd'[q].version = upd[q].version
  BY <1>9 DEF NextEndpoint, TypeOK, Update
<1>10. ASSUME NEW p \in Procs, NEW c \in Configs, Notify(p, c) PROVE UpdateInv'
  <2>1. PushedIsSaved'
    <3> SUFFICES ASSUME NEW push \in pushes'
                 PROVE  /\ tasks[push[1]].file # "absent"
                        /\ tasks[push[1]].file = "intact" => tasks[push[1]].version >= push[2]
      BY <1>10 DEF PushedIsSaved, Notify, storageVars
    <3>1. CASE push \in pushes BY <3>1 DEF UpdateInv, PushedIsSaved
    <3>2. CASE push = <<upd[p].task, upd[p].version + 1, c>>
      <4>1. /\ upd[p].task \in Tasks /\ tasks[upd[p].task].file # "absent"
            /\ tasks[upd[p].task].file = "intact" => tasks[upd[p].task].version > upd[p].version
        BY <1>10 DEF Notify, UpdateInv, NotifyReady
      <4>2. tasks[upd[p].task].version \in Nat /\ upd[p].version \in Nat
        BY <4>1 DEF TypeOK, StorageTypeOK, SnapshotFile, Update
      <4> QED BY <3>2, <4>1, <4>2
    <3> QED BY <1>10, <3>1, <3>2 DEF Notify, SavedVersion
  <2> QED BY <1>0, <1>9, <1>10, <2>1, QuietStep DEF Notify, storageVars
<1>11. ASSUME NEW p \in Procs, Finish(p) PROVE UpdateInv'
  <2>1. \A q \in Procs : upd'[q] = upd[q] \/ upd'[q].phase \in {"idle", "done"}
    BY <1>11 DEF Finish, IdleUpdate, TypeOK
  <2> QED BY <1>3, <1>11, <2>1 DEF Finish, storageVars
<1>12. ASSUME NEW p \in Procs, Failure(p) PROVE UpdateInv'
  <2>1. CASE AppendFails(p)
    <3>1. CASE UNCHANGED streams BY <1>3, <1>4, <2>1, <3>1 DEF AppendFails
    <3>2. CASE /\ AppendAccepts(upd[p].task, upd[p].version)
               /\ streams' = TornStream(upd[p].task)
      BY <1>0, <1>4, <2>1, <3>2, TornStreamStep DEF AppendFails
    <3> QED BY <2>1, <3>1, <3>2 DEF AppendFails, StreamAfterFailedAppend
  <2>2. CASE SaveFails(p)
    <3>1. CASE UNCHANGED tasks BY <1>3, <1>4, <2>2, <3>1 DEF SaveFails
    <3>2. CASE tasks' = TornTask(upd[p].task)
      BY <1>0, <1>4, <2>2, <3>2, TornTaskStep DEF SaveFails
    <3> QED BY <2>2, <3>1, <3>2 DEF SaveFails, TasksAfterFailedSave
  <2>3. CASE ListFails(p) BY <1>3, <1>4, <2>3 DEF ListFails, storageVars
  <2>4. ASSUME NEW c \in Configs, NotifyFails(p, c) PROVE UpdateInv'
    <3>1. PushedIsSaved' BY <2>4 DEF NotifyFails, storageVars, UpdateInv, PushedIsSaved
    <3> QED BY <1>0, <1>9, <2>4, <3>1, QuietStep DEF NotifyFails, storageVars
  <2> QED BY <1>12, <2>1, <2>2, <2>3, <2>4 DEF Failure
<1>13. CASE Crash
  <2>1. \A q \in Procs : upd'[q].phase = "idle" BY <1>13 DEF Crash, IdleUpdate
  <2>2. CASE UNCHANGED <<streams, tasks>> BY <1>3, <1>13, <2>1, <2>2 DEF Crash
  <2>3. ASSUME NEW p \in Procs, upd[p].phase = "append", UNCHANGED tasks,
               AppendAccepts(upd[p].task, upd[p].version), streams' = TornStream(upd[p].task)
        PROVE  UpdateInv'
    BY <1>0, <1>13, <2>1, <2>3, TornStreamStep DEF Crash
  <2>4. ASSUME NEW p \in Procs, upd[p].phase = "save", UNCHANGED streams,
               tasks' = TornTask(upd[p].task)
        PROVE  UpdateInv'
    BY <1>0, <1>13, <2>1, <2>4, TornTaskStep DEF Crash
  <2> QED BY <1>13, <2>2, <2>3, <2>4 DEF Crash, StreamAfterFailedAppend, TasksAfterFailedSave
<1>14. CASE Configure
  BY <1>3, <1>14 DEF Configure, SetTaskPushNotificationConfig,
                     DeleteTaskPushNotificationConfig, updaterVars
<1>15. CASE UNCHANGED vars BY <1>3, <1>15 DEF vars, storageVars, updaterVars
<1> QED
  BY <1>1, <1>2, <1>5, <1>6, <1>7, <1>8, <1>10, <1>11, <1>12, <1>13, <1>14, <1>15
  DEF Next, BeginUpdate, Progress

-----------------------------------------------------------------------------
(* Invariants. *)

(***************************************************************************)
(* The types and the inductive invariant hold in every reachable state of  *)
(* the update protocol of task_updater.go.                                 *)
(***************************************************************************)
THEOREM UpdaterInvariant == Spec => [](TypeOK /\ UpdateInv)
<1>1. Init => TypeOK /\ UpdateInv BY InitInv
<1>2. TypeOK /\ UpdateInv /\ [Next]_vars => TypeOK' /\ UpdateInv'
  BY TypeStep, InvStep
<1> QED BY <1>1, <1>2, PTL DEF Spec

\* Every variable keeps its type.
THEOREM TypeCorrect == Spec => []TypeOK
BY UpdaterInvariant, PTL

\* The invariant implies that a save is never refused.
LEMMA SavesSafely ==
  ASSUME TypeOK, UpdateInv
  PROVE  SaveNeverConflicts
<1> SUFFICES ASSUME NEW p \in Procs, upd[p].phase = "save"
             PROVE  /\ SaveAccepts(upd[p].task, upd[p].version)
                    /\ streams[upd[p].task].file = "intact"
                    /\ streams[upd[p].task].version = upd[p].version + 1
                    /\ \A q \in Procs : Committing(q, upd[p].task) => q = p
  BY DEF SaveNeverConflicts
<1> QED BY DEF UpdateInv, SaveReady, StreamShape, SaveAccepts, Creating

(***************************************************************************)
(* After a successful Append the version check of SaveTask never fires and *)
(* no second goroutine is about to save the same task.                     *)
(***************************************************************************)
THEOREM SaveSafe == Spec => []SaveNeverConflicts
<1>1. TypeOK /\ UpdateInv => SaveNeverConflicts BY SavesSafely
<1> QED BY <1>1, UpdaterInvariant, PTL

\* The invariant implies that snapshot and stream are in step.
LEMMA KeepsInStep ==
  ASSUME TypeOK, UpdateInv
  PROVE  SnapshotInStep
<1> SUFFICES ASSUME NEW t \in Tasks, streams[t].file = "intact"
             PROVE  /\ streams[t].version = Len(streams[t].events)
                    /\ \A i \in 1 .. Len(streams[t].events) :
                         (streams[t].events[i].kind = "task") <=> (i = 1)
                    /\ tasks[t].file = "intact" =>
                         tasks[t].version \in
                           {Len(streams[t].events) - 1, Len(streams[t].events)} \ {0}
  BY DEF SnapshotInStep
<1> QED BY DEF UpdateInv, StreamShape, SnapshotShape

\* The snapshot is never more than one event behind a readable stream.
THEOREM InStep == Spec => []SnapshotInStep
<1>1. TypeOK /\ UpdateInv => SnapshotInStep BY KeepsInStep
<1> QED BY <1>1, UpdaterInvariant, PTL

\* A push notification is sent only for an event whose snapshot was saved.
THEOREM PushSafe == Spec => []PushedIsSaved
<1>1. UpdateInv => PushedIsSaved BY DEF UpdateInv
<1> QED BY <1>1, UpdaterInvariant, PTL

-----------------------------------------------------------------------------
(* Steps that change a file of a task. *)

Appends(p) ==
  /\ upd[p].phase = "append"
  /\ AppendAccepts(upd[p].task, upd[p].version)
  /\ streams' = Appended(upd[p].task, <<upd[p].event>>)
  /\ UNCHANGED tasks

Saves(p) ==
  /\ upd[p].phase = "save"
  /\ tasks' = SavedTask(upd[p].task, ApplyEvent(upd[p].base, upd[p].event), SavedVersion(upd[p]))
  /\ UNCHANGED streams

TearsStream(p) ==
  /\ upd[p].phase = "append"
  /\ AppendAccepts(upd[p].task, upd[p].version)
  /\ streams' = TornStream(upd[p].task)
  /\ UNCHANGED tasks

TearsTask(p) ==
  /\ upd[p].phase = "save"
  /\ tasks' = TornTask(upd[p].task)
  /\ UNCHANGED streams

\* A step leaves the files alone or is one of these, of one goroutine.
LEMMA FileSteps ==
  ASSUME [Next]_vars
  PROVE  \/ UNCHANGED <<tasks, streams>>
         \/ \E p \in Procs : Appends(p) \/ Saves(p) \/ TearsStream(p) \/ TearsTask(p)
<1> USE DEF storageVars, updaterVars
<1>1. ASSUME NEW p \in Procs, AppendEvents(p) PROVE UNCHANGED <<tasks, streams>> \/ Appends(p)
  BY <1>1 DEF AppendEvents, Appends
<1>2. ASSUME NEW p \in Procs, SaveSnapshot(p) PROVE UNCHANGED <<tasks, streams>> \/ Saves(p)
  BY <1>2 DEF SaveSnapshot, Saves
<1>3. ASSUME NEW p \in Procs, AppendFails(p) PROVE UNCHANGED <<tasks, streams>> \/ TearsStream(p)
  BY <1>3 DEF AppendFails, StreamAfterFailedAppend, TearsStream
<1>4. ASSUME NEW p \in Procs, SaveFails(p) PROVE UNCHANGED <<tasks, streams>> \/ TearsTask(p)
  BY <1>4 DEF SaveFails, TasksAfterFailedSave, TearsTask
<1>5. CASE Crash
  BY <1>5 DEF Crash, StreamAfterFailedAppend, TasksAfterFailedSave, TearsStream, TearsTask
<1>6. CASE Configure
  BY <1>6 DEF Configure, SetTaskPushNotificationConfig, DeleteTaskPushNotificationConfig
<1>7. ASSUME NEW p \in Procs,
             \/ \E t \in Tasks, m \in Messages : BeginCreate(p, t, m)
             \/ \E t \in Tasks, e \in Updates : BeginUpdate(p, t, e)
             \/ ListConfigs(p)
             \/ \E c \in Configs : Notify(p, c)
             \/ Finish(p)
             \/ ListFails(p)
             \/ \E c \in Configs : NotifyFails(p, c)
      PROVE  UNCHANGED <<tasks, streams>>
  BY <1>7 DEF BeginCreate, BeginUpdate, ReadTask, ReadFails, ListConfigs, Notify, Finish,
              ListFails, NotifyFails
<1>8. CASE UNCHANGED vars BY <1>8 DEF vars
<1> QED BY <1>1, <1>2, <1>3, <1>4, <1>5, <1>6, <1>7, <1>8 DEF Next, Progress, Failure

-----------------------------------------------------------------------------
(* Event sourcing. *)

\* The inductive invariant of event sourcing, over UpdateInv.
ReplayInv ==
  /\ SnapshotReplays
  /\ \A t \in Tasks : tasks[t].file = "intact" => UniqueIDs(tasks[t].task.artifacts)
  /\ \A p \in Procs : upd[p].phase \in {"append", "save"} => UniqueIDs(upd[p].base.artifacts)

\* g is the replay of the first n events.
IsReplay(g, es, n) ==
  g = [i \in 0 .. n |-> IF i = 0 THEN BlankTask ELSE ApplyEvent(g[i - 1], es[i])]

\* Replaying defines a function: the blank task after no event, and one event more.
LEMMA ReplayRounds ==
  ASSUME NEW es \in Seq(Event)
  PROVE  /\ Replayed(es)[0] = BlankTask
         /\ \A n \in 0 .. Len(es) - 1 :
              Replayed(es)[n + 1] = ApplyEvent(Replayed(es)[n], es[n + 1])
<1> DEFINE S == {n \in Nat : \E g : IsReplay(g, es, n)}
<1>1. 0 \in S
  <2> DEFINE g == [i \in 0 .. 0 |-> BlankTask]
  <2>1. IsReplay(g, es, 0)
    BY DEF IsReplay
  <2> QED
    BY <2>1
<1>2. ASSUME NEW n \in S PROVE n + 1 \in S
  <2>1. PICK g : IsReplay(g, es, n)
    OBVIOUS
  <2> DEFINE h == [i \in 0 .. n + 1 |-> IF i <= n THEN g[i] ELSE ApplyEvent(g[n], es[n + 1])]
  <2>2. \A i \in 0 .. n : h[i] = g[i]
    OBVIOUS
  <2>3. ASSUME NEW i \in 0 .. n + 1
        PROVE  h[i] = IF i = 0 THEN BlankTask ELSE ApplyEvent(h[i - 1], es[i])
    <3>1. CASE i <= n
      <4>1. g[i] = IF i = 0 THEN BlankTask ELSE ApplyEvent(g[i - 1], es[i])
        BY <2>1, <3>1 DEF IsReplay
      <4>2. i # 0 => h[i - 1] = g[i - 1]
        BY <2>2, <3>1
      <4>3. h[i] = g[i]
        BY <2>2, <3>1
      <4> HIDE DEF h
      <4> QED
        BY <4>1, <4>2, <4>3
    <3>2. CASE i = n + 1
      <4>1. h[i] = ApplyEvent(g[n], es[n + 1])
        BY <3>2
      <4>2. h[n] = g[n] /\ i - 1 = n /\ i # 0
        BY <2>2, <3>2
      <4> HIDE DEF h
      <4> QED
        BY <3>2, <4>1, <4>2
    <3> QED
      BY <3>1, <3>2
  <2>4. IsReplay(h, es, n + 1)
    <3>1. h = [i \in 0 .. n + 1 |-> h[i]]
      OBVIOUS
    <3> HIDE DEF h
    <3> QED
      BY <2>3, <3>1 DEF IsReplay
  <2> QED
    BY <2>4
<1>3. Len(es) \in S
  <2> HIDE DEF S
  <2>1. S \in SUBSET Nat
    BY DEF S
  <2>2. Len(es) \in Nat
    OBVIOUS
  <2> QED
    BY <1>1, <1>2, <2>1, <2>2, Induction
<1>4. PICK g : IsReplay(g, es, Len(es))
  BY <1>3
<1>5. IsReplay(Replayed(es), es, Len(es))
  BY <1>4, Zenon DEF Replayed, IsReplay
<1> HIDE DEF S
<1>6. ASSUME NEW f, IsReplay(f, es, Len(es))
      PROVE  \A i \in 0 .. Len(es) : f[i] = IF i = 0 THEN BlankTask ELSE ApplyEvent(f[i - 1], es[i])
  BY <1>6, Zenon DEF IsReplay
<1>7. \A i \in 0 .. Len(es) :
        Replayed(es)[i] = IF i = 0 THEN BlankTask ELSE ApplyEvent(Replayed(es)[i - 1], es[i])
  BY <1>5, <1>6, Zenon
<1>8. Len(es) \in Nat
  OBVIOUS
<1>9. Replayed(es)[0] = BlankTask
  BY <1>7, <1>8
<1>10. ASSUME NEW n \in 0 .. Len(es) - 1
       PROVE  Replayed(es)[n + 1] = ApplyEvent(Replayed(es)[n], es[n + 1])
  <2>1. n + 1 \in 0 .. Len(es) /\ n + 1 # 0 /\ (n + 1) - 1 = n
    BY <1>8
  <2> QED
    BY <1>7, <2>1
<1> QED
  BY <1>9, <1>10

\* A stream that goes on replays to the same tasks up to where it was.
LEMMA ReplayGrows ==
  ASSUME NEW es \in Seq(Event), NEW e \in Event
  PROVE  \A n \in 0 .. Len(es) : Replayed(es \o <<e>>)[n] = Replayed(es)[n]
<1> DEFINE fs == es \o <<e>>
           S == {n \in Nat : n <= Len(es) => Replayed(fs)[n] = Replayed(es)[n]}
<1>1. /\ fs \in Seq(Event) /\ Len(fs) = Len(es) + 1 /\ Len(es) \in Nat
      /\ \A i \in 1 .. Len(es) : fs[i] = es[i]
  OBVIOUS
<1> HIDE DEF fs
<1>2. 0 \in S
  BY <1>1, ReplayRounds
<1>3. ASSUME NEW n \in S PROVE n + 1 \in S
  <2> SUFFICES ASSUME n + 1 <= Len(es) PROVE Replayed(fs)[n + 1] = Replayed(es)[n + 1]
    OBVIOUS
  <2>1. /\ n \in 0 .. Len(es) - 1 /\ n \in 0 .. Len(fs) - 1
        /\ Replayed(fs)[n] = Replayed(es)[n] /\ fs[n + 1] = es[n + 1]
    BY <1>1
  <2>2. /\ Replayed(es)[n + 1] = ApplyEvent(Replayed(es)[n], es[n + 1])
        /\ Replayed(fs)[n + 1] = ApplyEvent(Replayed(fs)[n], fs[n + 1])
    BY <1>1, <2>1, ReplayRounds
  <2> QED
    BY <2>1, <2>2
<1>4. S \in SUBSET Nat
  OBVIOUS
<1> HIDE DEF S
<1>5. \A n \in Nat : n \in S
  BY <1>2, <1>3, <1>4, Induction
<1> QED
  BY <1>1, <1>5 DEF S, fs

\* upsertArtifact keeps artifact IDs apart.
LEMMA UpsertUnique ==
  ASSUME NEW arts \in Seq(Artifacts), NEW a \in Artifacts, UniqueIDs(arts)
  PROVE  UniqueIDs(UpsertedArtifacts(arts, a))
<1> DEFINE same == {i \in DOMAIN arts : ArtifactID[arts[i]] = ArtifactID[a]}
           new == [i \in DOMAIN arts |->
                     IF i \in same /\ \A j \in same : i <= j THEN a ELSE arts[i]]
<1>1. DOMAIN arts = 1 .. Len(arts) /\ Len(arts) \in Nat
  OBVIOUS
<1>2. CASE same = {}
  <2>1. /\ DOMAIN Append(arts, a) = 1 .. Len(arts) + 1
        /\ Append(arts, a)[Len(arts) + 1] = a
        /\ \A i \in 1 .. Len(arts) : Append(arts, a)[i] = arts[i]
    OBVIOUS
  <2>2. \A i \in 1 .. Len(arts) : ArtifactID[arts[i]] # ArtifactID[a]
    BY <1>1, <1>2
  <2>3. UniqueIDs(Append(arts, a))
    BY <1>1, <2>1, <2>2 DEF UniqueIDs
  <2> QED
    BY <1>2, <2>3 DEF UpsertedArtifacts
<1>3. CASE same # {}
  <2>1. DOMAIN new = DOMAIN arts /\ \A i \in DOMAIN arts : ArtifactID[new[i]] = ArtifactID[arts[i]]
    OBVIOUS
  <2>2. UpsertedArtifacts(arts, a) = new
    BY <1>3 DEF UpsertedArtifacts
  <2> HIDE DEF new, same
  <2>3. UniqueIDs(new)
    BY <2>1 DEF UniqueIDs
  <2> QED
    BY <2>2, <2>3
<1> QED
  BY <1>2, <1>3

\* So does every event.
LEMMA ApplyUnique ==
  ASSUME NEW task \in TaskValue, NEW e \in Event, UniqueIDs(task.artifacts)
  PROVE  UniqueIDs(ApplyEvent(task, e).artifacts)
<1>1. CASE e \in [kind : {"task"}, val : Messages]
  <2>1. ApplyEvent(task, e).artifacts = <<>>
    BY <1>1 DEF ApplyEvent, CreatedTask
  <2> QED
    BY <2>1 DEF UniqueIDs
<1>2. CASE e \in [kind : {"message"}, val : Messages]
  <2>1. ApplyEvent(task, e).artifacts = task.artifacts
    BY <1>2 DEF ApplyEvent, TaskValue
  <2> QED
    BY <2>1
<1>3. CASE e \in [kind : {"status"}, val : TaskStates]
  <2>1. ApplyEvent(task, e).artifacts = task.artifacts
    BY <1>3 DEF ApplyEvent, TaskValue
  <2> QED
    BY <2>1
<1>4. CASE e \in [kind : {"artifact"}, val : Artifacts]
  <2>1. ApplyEvent(task, e).artifacts = UpsertedArtifacts(task.artifacts, e.val)
    BY <1>4 DEF ApplyEvent, TaskValue
  <2>2. task.artifacts \in Seq(Artifacts) /\ e.val \in Artifacts
    BY <1>4 DEF TaskValue
  <2> QED
    BY <2>1, <2>2, UpsertUnique
<1> QED
  BY <1>1, <1>2, <1>3, <1>4 DEF Event

\* What a creation makes of a task does not depend on the task.
LEMMA CreationAlone ==
  ASSUME NEW task, NEW e \in [kind : {"task"}, val : Messages]
  PROVE  ApplyEvent(task, e) = CreatedTask(e.val)
BY DEF ApplyEvent

\* What an update works on is a new task, a snapshot, or what it has worked on before.
LEMMA WorkedOn ==
  ASSUME TypeOK, [Next]_vars, NEW p \in Procs, upd'[p].phase \in {"append", "save"}
  PROVE  \/ upd[p].phase \in {"append", "save"} /\ upd'[p].base = upd[p].base
         \/ upd'[p].base = BlankTask
         \/ \E t \in Tasks : tasks[t].file = "intact" /\ upd'[p].base = tasks[t].task
<1> DEFINE Known(u) == \/ upd[p].phase \in {"append", "save"} /\ u.base = upd[p].base
                       \/ u.base = BlankTask
                       \/ \E t \in Tasks : tasks[t].file = "intact" /\ u.base = tasks[t].task
<1>0. upd \in [Procs -> Update] /\ upd[p] \in Update
  BY DEF TypeOK
<1>1. CASE upd'[p] = upd[p]
  BY <1>1
<1>2. ASSUME NEW q \in Procs, q # p, upd' = [upd EXCEPT ![q] = upd'[q]]
      PROVE  upd'[p] = upd[p]
  BY <1>0, <1>2
<1>3. ASSUME NEW q \in Procs, NEW t \in Tasks, NEW m \in Messages, BeginCreate(q, t, m)
      PROVE  Known(upd'[p])
  BY <1>0, <1>1, <1>3 DEF BeginCreate, IdleUpdate
<1>4. ASSUME NEW q \in Procs, NEW t \in Tasks, NEW e \in Updates, BeginUpdate(q, t, e)
      PROVE  Known(upd'[p])
  BY <1>0, <1>1, <1>4 DEF BeginUpdate, ReadTask, ReadFails, IdleUpdate, GetTaskSucceeds
<1>5. ASSUME NEW q \in Procs, NEW success, Return(q, success)
      PROVE  Known(upd'[p])
  BY <1>0, <1>1, <1>5 DEF Return, Update
<1>6. ASSUME NEW q \in Procs, AppendEvents(q)
      PROVE  Known(upd'[p])
  <2>1. CASE upd' = [upd EXCEPT ![q].phase = "save"]
    BY <1>0, <1>1, <1>6, <2>1 DEF AppendEvents, Update
  <2> QED
    BY <1>5, <1>6, <2>1 DEF AppendEvents
<1>7. ASSUME NEW q \in Procs, SaveSnapshot(q)
      PROVE  Known(upd'[p])
  <2>1. CASE upd' = [upd EXCEPT ![q] = AfterSave(upd[q])]
    BY <1>0, <1>1, <2>1 DEF AfterSave, Update
  <2> QED
    BY <1>5, <1>7, <2>1 DEF SaveSnapshot
<1>8. ASSUME NEW q \in Procs, NEW c \in Configs, upd[q].phase = "notify", NextEndpoint(q, c)
      PROVE  Known(upd'[p])
  BY <1>0, <1>1, <1>8 DEF NextEndpoint, Update
<1>9. ASSUME NEW q \in Procs, ListConfigs(q) \/ Finish(q)
      PROVE  Known(upd'[p])
  <2>1. CASE ListConfigs(q)
    BY <1>0, <1>1, <2>1 DEF ListConfigs, Update
  <2>2. CASE Finish(q)
    BY <1>0, <1>1, <2>2 DEF Finish, IdleUpdate
  <2> QED
    BY <1>9, <2>1, <2>2
<1>10. ASSUME NEW q \in Procs, Failure(q)
       PROVE  Known(upd'[p])
  BY <1>5, <1>8, <1>10 DEF Failure, AppendFails, SaveFails, ListFails, NotifyFails
<1>11. CASE Crash
  BY <1>11 DEF Crash, IdleUpdate
<1>12. CASE Configure \/ UNCHANGED vars
  BY <1>1, <1>12 DEF Configure, SetTaskPushNotificationConfig, DeleteTaskPushNotificationConfig,
                     updaterVars, vars
<1> QED
  BY <1>3, <1>4, <1>6, <1>7, <1>8, <1>9, <1>10, <1>11, <1>12 DEF Next, Progress, Notify

\* Saving stores the replay of the stream up to its last event.
LEMMA SaveReplays ==
  ASSUME TypeOK, UpdateInv, ReplayInv, NEW p \in Procs, upd[p].phase = "save"
  PROVE  LET u == upd[p]
             saved == ApplyEvent(u.base, u.event)
         IN  saved = Replayed(streams[u.task].events)[SavedVersion(u)] /\ UniqueIDs(saved.artifacts)
<1> DEFINE u == upd[p]
           es == streams[u.task].events
           saved == ApplyEvent(u.base, u.event)
<1>1. u \in Update /\ u.base \in TaskValue /\ u.version \in Nat
  BY DEF TypeOK, Update
<1>2. u.task \in Tasks /\ u.event \in Event
  BY ActiveEvent
<1>3. es \in Seq(Event)
  BY <1>2 DEF TypeOK, StorageTypeOK, StreamFile
<1>4. /\ streams[u.task].file = "intact" /\ Len(es) = u.version + 1 /\ es[u.version + 1] = u.event
      /\ \/ Creating(p, u.task)
         \/ /\ Updating(p, u.task) /\ tasks[u.task].file = "intact"
            /\ tasks[u.task].version = u.version
  BY DEF UpdateInv, SaveReady
<1>5. UniqueIDs(saved.artifacts)
  BY <1>1, <1>2, ApplyUnique DEF ReplayInv
<1>6. Replayed(es)[u.version + 1] = ApplyEvent(Replayed(es)[u.version], es[u.version + 1])
  BY <1>1, <1>3, <1>4, ReplayRounds
<1>7. CASE Creating(p, u.task)
  <2>1. u.event \in [kind : {"task"}, val : Messages]
    BY <1>7 DEF Creating
  <2> QED
    BY <1>4, <1>5, <1>6, <2>1, CreationAlone DEF SavedVersion
<1>8. CASE /\ Updating(p, u.task) /\ tasks[u.task].file = "intact"
           /\ tasks[u.task].version = u.version
  <2>1. u.base = tasks[u.task].task
    BY <1>8 DEF Updating
  <2>2. u.base = Replayed(es)[u.version]
    BY <1>2, <1>4, <1>8, <2>1 DEF ReplayInv, SnapshotReplays
  <2> QED
    BY <1>4, <1>5, <1>6, <2>2 DEF SavedVersion
<1> QED
  BY <1>4, <1>7, <1>8

\* The invariant of event sourcing holds initially.
LEMMA ReplayInit == Init => ReplayInv
<1> SUFFICES ASSUME Init PROVE ReplayInv
  OBVIOUS
<1>1. \A t \in Tasks : tasks[t].file = "absent"
  BY DEF Init, StorageInit, NoSnapshot
<1>2. \A p \in Procs : upd[p].phase = "idle"
  BY DEF Init, IdleUpdate
<1> QED
  BY <1>1, <1>2 DEF ReplayInv, SnapshotReplays

\* Every step keeps it.
LEMMA ReplayStep ==
  ASSUME TypeOK, UpdateInv, ReplayInv, [Next]_vars
  PROVE  ReplayInv'
<1> USE DEF TypeOK, StorageTypeOK
<1>1. \A p \in Procs : upd'[p].phase \in {"append", "save"} => UniqueIDs(upd'[p].base.artifacts)
  <2>1. UniqueIDs(BlankTask.artifacts)
    BY DEF UniqueIDs, BlankTask
  <2> QED
    BY <2>1, WorkedOn DEF ReplayInv
<1> DEFINE Replays(t) == tasks'[t].file = "intact" =>
                           /\ UniqueIDs(tasks'[t].task.artifacts)
                           /\ streams'[t].file = "intact" =>
                                tasks'[t].task = Replayed(streams'[t].events)[tasks'[t].version]
<1>2. ASSUME NEW t \in Tasks, tasks'[t] = tasks[t], streams'[t] = streams[t]
      PROVE  Replays(t)
  BY <1>2 DEF ReplayInv, SnapshotReplays
<1>3. ASSUME NEW p \in Procs, Appends(p), NEW t \in Tasks
      PROVE  Replays(t)
  <2> DEFINE u == upd[p]
             es == streams[t].events
  <2>1. u.task \in Tasks /\ u.event \in Event
    BY <1>3, ActiveEvent DEF Appends
  <2>2. CASE u.task # t
    BY <1>2, <1>3, <2>2 DEF Appends, Appended
  <2>3. CASE u.task = t
    <3>1. streams'[t].events = es \o <<u.event>> /\ tasks'[t] = tasks[t]
      BY <1>3, <2>1, <2>3 DEF Appends, Appended
    <3>2. tasks[t].file = "intact" => streams[t].file = "intact"
      BY <1>3, <2>1, <2>3 DEF UpdateInv, AppendReady, Creating, Updating, AppendAccepts, Appends
    <3>3. tasks[t].file = "intact" =>
            UniqueIDs(tasks[t].task.artifacts) /\ tasks[t].task = Replayed(es)[tasks[t].version]
      BY <3>2 DEF ReplayInv, SnapshotReplays
    <3>4. es \in Seq(Event) /\ Len(es) \in Nat /\ tasks[t].version \in Nat
      BY DEF StreamFile, SnapshotFile
    <3>5. tasks[t].file = "intact" => tasks[t].version \in 0 .. Len(es)
      BY <3>2, <3>4 DEF UpdateInv, SnapshotShape
    <3> QED
      BY <2>1, <3>1, <3>3, <3>4, <3>5, ReplayGrows
  <2> QED
    BY <2>2, <2>3
<1>4. ASSUME NEW p \in Procs, Saves(p), NEW t \in Tasks
      PROVE  Replays(t)
  <2> DEFINE u == upd[p]
  <2>1. u.task \in Tasks
    BY <1>4, ActiveEvent DEF Saves
  <2>2. CASE u.task # t
    BY <1>2, <1>4, <2>2 DEF Saves, SavedTask
  <2>3. CASE u.task = t
    <3>1. /\ tasks'[t].task = ApplyEvent(u.base, u.event) /\ tasks'[t].version = SavedVersion(u)
          /\ streams'[t] = streams[t]
      BY <1>4, <2>1, <2>3 DEF Saves, SavedTask
    <3> QED
      BY <1>4, <2>3, <3>1, SaveReplays DEF Saves
  <2> QED
    BY <2>2, <2>3
<1>5. ASSUME NEW p \in Procs, TearsStream(p), NEW t \in Tasks
      PROVE  Replays(t)
  <2>1. upd[p].task \in Tasks
    BY <1>5, ActiveEvent DEF TearsStream
  <2>2. CASE upd[p].task # t
    BY <1>2, <1>5, <2>2 DEF TearsStream, TornStream
  <2>3. CASE upd[p].task = t
    <3>1. streams'[t].file = "torn" /\ tasks'[t] = tasks[t]
      BY <1>5, <2>1, <2>3 DEF TearsStream, TornStream, Torn, NoStream
    <3> QED
      BY <3>1 DEF ReplayInv
  <2> QED
    BY <2>2, <2>3
<1>6. ASSUME NEW p \in Procs, TearsTask(p), NEW t \in Tasks
      PROVE  Replays(t)
  <2>1. upd[p].task \in Tasks
    BY <1>6, ActiveEvent DEF TearsTask
  <2>2. CASE upd[p].task # t
    BY <1>2, <1>6, <2>2 DEF TearsTask, TornTask
  <2>3. CASE upd[p].task = t
    BY <1>6, <2>1, <2>3 DEF TearsTask, TornTask, Torn, NoSnapshot
  <2> QED
    BY <2>2, <2>3
<1>7. \A t \in Tasks : Replays(t)
  BY <1>2, <1>3, <1>4, <1>5, <1>6, FileSteps
<1> QED
  BY <1>1, <1>7 DEF ReplayInv, SnapshotReplays

(***************************************************************************)
(* Event sourcing, for streams of any length: whichever updates raced,     *)
(* failed or were cut off, a readable snapshot is the replay of its        *)
(* stream up to its version, with no artifact ID twice.                    *)
(***************************************************************************)
THEOREM SnapshotsReplay == Spec => []SnapshotReplays
<1>1. Init => TypeOK /\ UpdateInv /\ ReplayInv
  BY InitInv, ReplayInit
<1>2. TypeOK /\ UpdateInv /\ ReplayInv /\ [Next]_vars => TypeOK' /\ UpdateInv' /\ ReplayInv'
  BY TypeStep, InvStep, ReplayStep
<1>3. ReplayInv => SnapshotReplays
  BY DEF ReplayInv
<1> QED
  BY <1>1, <1>2, <1>3, PTL DEF Spec

-----------------------------------------------------------------------------
(* Action properties. *)

\* No step takes a canceled snapshot back.
LEMMA CanceledKept ==
  ASSUME TypeOK, UpdateInv, [Next]_vars,
         NEW t \in Tasks, tasks[t].file = "intact", tasks[t].task.state = "canceled"
  PROVE  tasks'[t].file = "torn" \/ tasks'[t].task.state = "canceled"
<1>1. CASE tasks'[t] = tasks[t] BY <1>1
<1>2. ASSUME NEW p \in Procs, Saves(p), upd[p].task = t
      PROVE  tasks'[t].task.state = "canceled"
  <2>1. /\ Updating(p, t) /\ tasks[t].version = upd[p].version
        /\ upd[p].base \in TaskValue
    BY <1>2 DEF Saves, UpdateInv, SaveReady, Creating, TypeOK, Update
  <2>2. /\ upd[p].event \in Updates /\ upd[p].base.state = "canceled"
        /\ upd[p].event.kind # "status"
    BY <2>1 DEF Updating, Refused
  <2>3. ApplyEvent(upd[p].base, upd[p].event).state = "canceled"
    BY <2>1, <2>2, ApplyEventState
  <2>4. tasks'[t].task = ApplyEvent(upd[p].base, upd[p].event)
    BY <1>2 DEF Saves, SavedTask, TypeOK, StorageTypeOK
  <2> QED BY <2>3, <2>4
<1>3. ASSUME NEW p \in Procs, TearsTask(p), upd[p].task = t PROVE tasks'[t].file = "torn"
  BY <1>3 DEF TearsTask, TornTask, Torn, NoSnapshot, TypeOK, StorageTypeOK
<1>4. ASSUME NEW p \in Procs, Saves(p) \/ TearsTask(p), upd[p].task # t
      PROVE  tasks'[t] = tasks[t]
  BY <1>4 DEF Saves, TearsTask, SavedTask, TornTask, TypeOK, StorageTypeOK
<1> QED BY <1>1, <1>2, <1>3, <1>4, FileSteps DEF Appends, TearsStream

(***************************************************************************)
(* A canceled snapshot stays canceled: updateStatus refuses a canceled     *)
(* task, and a goroutine that read the task before it was canceled loses   *)
(* its Append.                                                             *)
(***************************************************************************)
THEOREM CanceledStays == Spec => CanceledIsFinal
<1>1. TypeOK /\ UpdateInv /\ [Next]_vars =>
        [\A t \in Tasks :
           tasks[t].file = "intact" /\ tasks[t].task.state = "canceled" =>
             tasks'[t].file = "torn" \/ tasks'[t].task.state = "canceled"]_vars
  BY CanceledKept
<1> QED BY <1>1, UpdaterInvariant, PTL DEF Spec, CanceledIsFinal

\* No step writes a task that is out of step.
LEMMA WedgedKept ==
  ASSUME TypeOK, UpdateInv, [Next]_vars, NEW t \in Tasks, Wedged(t)
  PROVE  tasks'[t] = tasks[t] /\ streams'[t] = streams[t]
<1>1. ASSUME NEW p \in Procs, upd[p].phase = "append", upd[p].task = t,
             AppendAccepts(upd[p].task, upd[p].version)
      PROVE  FALSE
  <2>1. ~Creating(p, t) BY <1>1 DEF Wedged, Creating
  <2>2. /\ streams[t].file = "intact" /\ tasks[t].file = "intact"
        /\ tasks[t].version = Len(streams[t].events)
    BY <1>1, <2>1, AcceptedAppend
  <2>3. streams[t].version = Len(streams[t].events) BY DEF UpdateInv, StreamShape
  <2> QED BY <2>2, <2>3 DEF Wedged
<1>2. ASSUME NEW p \in Procs, upd[p].phase = "save" PROVE upd[p].task # t
  BY <1>2 DEF Wedged
<1>3. ASSUME NEW p \in Procs, Appends(p) PROVE tasks'[t] = tasks[t] /\ streams'[t] = streams[t]
  BY <1>1, <1>3 DEF Appends, Appended, TypeOK, StorageTypeOK
<1>4. ASSUME NEW p \in Procs, TearsStream(p)
      PROVE  tasks'[t] = tasks[t] /\ streams'[t] = streams[t]
  BY <1>1, <1>4 DEF TearsStream, TornStream, TypeOK, StorageTypeOK
<1>5. ASSUME NEW p \in Procs, Saves(p) PROVE tasks'[t] = tasks[t] /\ streams'[t] = streams[t]
  BY <1>2, <1>5 DEF Saves, SavedTask, TypeOK, StorageTypeOK
<1>6. ASSUME NEW p \in Procs, TearsTask(p)
      PROVE  tasks'[t] = tasks[t] /\ streams'[t] = streams[t]
  BY <1>2, <1>6 DEF TearsTask, TornTask, TypeOK, StorageTypeOK
<1> QED BY <1>3, <1>4, <1>5, <1>6, FileSteps

(***************************************************************************)
(* A task whose last writer left its two files out of step is never        *)
(* written again: Append refuses every version that can be read.           *)
(***************************************************************************)
THEOREM WedgedStays == Spec => WedgedForever
<1>1. TypeOK /\ UpdateInv /\ [Next]_vars =>
        [\A t \in Tasks : Wedged(t) => tasks'[t] = tasks[t] /\ streams'[t] = streams[t]]_vars
  BY WedgedKept
<1> QED BY <1>1, UpdaterInvariant, PTL DEF Spec, WedgedForever

-----------------------------------------------------------------------------
(* Refinement. *)

\* One more event on a readable stream is a step of the ledger, if it is the event that
\* creates the task or one that the history allows.
LEMMA LedgerTakes ==
  ASSUME streams \in [Tasks -> StreamFile], NEW t \in Tasks, NEW e \in Event,
         streams[t].file # "torn", streams'[t].file = "intact",
         streams'[t].events = Append(streams[t].events, e),
         \A s \in Tasks : s # t => streams'[s] = streams[s],
         \/ e \in [kind : {"task"}, val : Messages] /\ streams[t].events = <<>>
         \/ /\ e \in Updates /\ streams[t].events # <<>>
            /\ e.kind = "status" => ~CanceledWithin(streams[t].events, Len(streams[t].events))
  PROVE  Ledger!Next
<1> DEFINE es == streams[t].events
           ledger == [s \in Tasks |-> streams[s].events]
           lost == {s \in Tasks : streams[s].file = "torn"}
<1>1. t \notin lost /\ {s \in Tasks : streams'[s].file = "torn"} = lost OBVIOUS
<1>2. es \in Seq(Event) /\ ledger[t] = es BY DEF StreamFile
<1>3. [s \in Tasks |-> streams'[s].events] = [ledger EXCEPT ![t] = Append(ledger[t], e)]
  BY <1>2
<1>4. CASE e \in [kind : {"task"}, val : Messages] /\ es = <<>>
  <2>1. PICK m \in Messages : e = [kind |-> "task", val |-> m] BY <1>4
  <2>2. Append(es, e) = <<e>> BY <1>4
  <2>3. [s \in Tasks |-> streams'[s].events] = [ledger EXCEPT ![t] = <<e>>]
    BY <1>2, <1>3, <2>2
  <2>4. Ledger!Create(t, m) BY <1>1, <1>2, <1>4, <2>1, <2>3 DEF Ledger!Create
  <2> QED BY <2>4 DEF Ledger!Next
<1>5. CASE /\ e \in Updates /\ es # <<>>
           /\ e.kind = "status" => ~CanceledWithin(es, Len(es))
  <2>1. e.kind = "status" => ~Ledger!IsCanceled(ledger[t])
    BY <1>2, <1>5 DEF Ledger!IsCanceled, Ledger!CanceledEvent, CanceledWithin
  <2>2. e \in Ledger!Updates BY <1>5 DEF Ledger!Updates, Updates
  <2>3. Ledger!Record(t, e) BY <1>1, <1>2, <1>3, <1>5, <2>1 DEF Ledger!Record
  <2> QED BY <2>2, <2>3 DEF Ledger!Next
<1> QED BY <1>4, <1>5

\* An accepted Append is a step of the ledger.
LEMMA AppendRefines ==
  ASSUME TypeOK, UpdateInv, NEW p \in Procs, Appends(p)
  PROVE  Ledger!Next
<1>0. PICK t \in Tasks : t = upd[p].task BY ActiveEvent DEF Appends
<1> DEFINE u == upd[p]
           es == streams[t].events
<1>1. /\ Len(es) = u.version
      /\ \/ Creating(p, t) /\ streams[t].file = "absent" /\ es = <<>>
         \/ /\ Updating(p, t) /\ streams[t].file = "intact"
            /\ tasks[t].file = "intact" /\ tasks[t].version = u.version
  BY <1>0, AcceptedAppend DEF Appends
<1>2. es \in Seq(Event) /\ u.event \in Event /\ streams \in [Tasks -> StreamFile]
  BY ActiveEvent DEF Appends, TypeOK, StorageTypeOK, StreamFile
<1>3. es \o <<u.event>> = Append(es, u.event) BY <1>2
<1>4. /\ streams'[t].file = "intact" /\ streams'[t].events = Append(es, u.event)
      /\ \A s \in Tasks : s # t => streams'[s] = streams[s]
  BY <1>0, <1>3 DEF Appends, Appended, TypeOK, StorageTypeOK
<1>5. CASE Creating(p, t) /\ streams[t].file = "absent" /\ es = <<>>
  <2>1. u.event \in [kind : {"task"}, val : Messages] BY <1>5 DEF Creating
  <2> QED BY <1>2, <1>4, <1>5, <2>1, LedgerTakes
<1>6. CASE Updating(p, t) /\ streams[t].file = "intact" /\ tasks[t].file = "intact" /\ tasks[t].version = u.version
  <2>1. u.event \in Updates /\ ~Refused(tasks[t].task, u.event) /\ u.version >= 1
    BY <1>6 DEF Updating
  <2>2. es # <<>> BY <1>1, <1>2, <2>1
  <2>3. CanceledWithin(es, Len(es)) => tasks[t].task.state = "canceled"
    BY <1>1, <1>6 DEF UpdateInv, SnapshotShape
  <2>4. u.event.kind = "status" => ~CanceledWithin(es, Len(es)) BY <2>1, <2>3 DEF Refused
  <2> QED BY <1>2, <1>4, <1>6, <2>1, <2>2, <2>4, LedgerTakes
<1> QED BY <1>1, <1>5, <1>6

\* A step of the protocol is a step of the ledger or leaves it alone.
LEMMA LedgerStep ==
  ASSUME TypeOK, UpdateInv, [Next]_vars
  PROVE  \/ Ledger!Next
         \/ UNCHANGED <<[t \in Tasks |-> streams[t].events], {t \in Tasks : streams[t].file = "torn"}>>
<1> DEFINE ledger == [t \in Tasks |-> streams[t].events]
           lost == {t \in Tasks : streams[t].file = "torn"}
<1>1. CASE UNCHANGED streams BY <1>1
<1>2. ASSUME NEW p \in Procs, TearsStream(p) PROVE Ledger!Next
  <2>1. PICK t \in Tasks : t = upd[p].task BY <1>2, ActiveEvent DEF TearsStream
  <2>2. /\ streams'[t].file = "torn" /\ streams'[t].events = <<>>
        /\ \A s \in Tasks : s # t => streams'[s] = streams[s]
    BY <1>2, <2>1 DEF TearsStream, TornStream, Torn, NoStream, TypeOK, StorageTypeOK
  <2>3. ledger' = [ledger EXCEPT ![t] = <<>>] BY <2>2
  <2>4. lost' = lost \cup {t} BY <2>2
  <2>5. Ledger!Lose(t) BY <2>3, <2>4 DEF Ledger!Lose
  <2> QED BY <2>5 DEF Ledger!Next
<1> QED BY <1>1, <1>2, AppendRefines, FileSteps DEF Saves, TearsTask

(***************************************************************************)
(* The update protocol implements the ledger: the event streams are a      *)
(* history that only grows, one event at a time, is lost only as a whole,  *)
(* and takes no status after a cancellation.                               *)
(***************************************************************************)
THEOREM LedgerRefinement == Spec => ImplementsLedger
<1>1. Init => Ledger!Init
  BY DEF Init, StorageInit, NoStream, Ledger!Init
<1>2. TypeOK /\ UpdateInv /\ [Next]_vars =>
        [Ledger!Next]_<<[t \in Tasks |-> streams[t].events], {t \in Tasks : streams[t].file = "torn"}>>
  BY LedgerStep
<1> QED BY <1>1, <1>2, UpdaterInvariant, PTL DEF Spec, ImplementsLedger, Ledger!Spec

=============================================================================
