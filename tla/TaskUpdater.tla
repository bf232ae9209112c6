---------------------------- MODULE TaskUpdater ----------------------------
(***************************************************************************)
(* How a task changes (task_updater.go): createNewTask, addMessage,        *)
(* updateStatus and upsertArtifact, each of which reads the snapshot,      *)
(* applies one event to a copy, appends the event to the stream, saves the *)
(* new snapshot and sends push notifications.  The four storage calls and  *)
(* every notification are separate steps, so the updates of concurrent     *)
(* requests, workers and agents interleave between them; the process may   *)
(* stop, and a storage call may fail, at each of them.                     *)
(***************************************************************************)
EXTENDS TaskStorage

CONSTANTS Procs,         \* goroutines that update tasks
          UpdateStates,  \* the states the callers of updateStatus ask for
          PushEnabled,   \* pushNotificationsEnabled()
          NoTask,        \* the task of a goroutine that updates none
          MaxVersion,    \* bound: length of an event stream
          FaultKinds,    \* the failures that may happen
          MaxFaults      \* bound: crashes and failed calls in a behaviour

ASSUME UpdaterAssumption ==
  /\ UpdateStates \subseteq TaskStates
  /\ PushEnabled \in BOOLEAN
  /\ NoTask \notin Tasks
  /\ FaultKinds \subseteq {"crash", "storage", "notify", "queue", "visibility"}
  /\ MaxVersion \in Nat
  /\ MaxFaults \in Nat

VARIABLES issued,  \* IDs handed out by the ID generator
          upd,     \* upd[p]: the update goroutine p is executing
          pushes,  \* <<t, n, c>>: endpoint c has accepted event n of task t
          faults   \* crashes and failures so far

updaterVars == <<issued, upd, pushes, faults>>

vars == <<storageVars, updaterVars>>

Phases == {"idle", "append", "save", "list", "notify", "done"}

NoEvent == [kind |-> "none", val |-> "unknown"]

(***************************************************************************)
(* A running update: base is the task the updater works on and version its *)
(* initialVersion; todo holds the endpoints still to be notified; ok says  *)
(* whether the finished call returned without an error.                    *)
(***************************************************************************)
IdleUpdate ==
  [phase |-> "idle", task |-> NoTask, event |-> NoEvent, base |-> BlankTask,
   version |-> 0, todo |-> {}, ok |-> FALSE]

Update ==
  [phase : Phases, task : Tasks \cup {NoTask}, event : Event \cup {NoEvent},
   base : TaskValue, version : Nat, todo : SUBSET Configs, ok : BOOLEAN]

-----------------------------------------------------------------------------
(* What an event does to a task: the TaskUpdater methods.  The copy of a    *)
(* message in its event carries the IDs of task and context, the copy in    *)
(* the history does not; both are one message value here.                   *)

CreatedTaskWithoutStatus(m) == [state |-> "", history |-> <<m>>, artifacts |-> <<>>]

CreatedTask(m) == [state |-> "submitted", history |-> <<m>>, artifacts |-> <<>>]

UpsertAppends(arts, a) == Append(arts, a)

UpsertedArtifacts(arts, a) ==
  LET same == {i \in DOMAIN arts : ArtifactID[arts[i]] = ArtifactID[a]}
  IN  IF same = {} THEN Append(arts, a)
      ELSE [i \in DOMAIN arts |->
             IF i \in same /\ \A j \in same : i <= j THEN a ELSE arts[i]]

ApplyEvent(task, e) ==
  CASE e.kind = "task" -> CreatedTask(e.val)
    [] e.kind = "message" -> [task EXCEPT !.history = Append(@, e.val)]
    [] e.kind = "status" -> [task EXCEPT !.state = e.val]
    [] e.kind = "artifact" -> [task EXCEPT !.artifacts = UpsertedArtifacts(@, e.val)]
    [] OTHER -> task

NeverRefused(task, e) == FALSE

\* updateStatus refuses a canceled task, and nothing else.
Refused(task, e) == e.kind = "status" /\ task.state = "canceled"

IsFinal(e) == e.kind = "status" /\ IsTerminal(e.val)

-----------------------------------------------------------------------------
(* The update protocol. *)

\* One of the failures the run allows happens.
Fault(kind) ==
  /\ kind \in FaultKinds
  /\ faults < MaxFaults
  /\ faults' = faults + 1

\* The call of goroutine p returns.
Return(p, success) == upd' = [upd EXCEPT ![p].phase = "done", ![p].ok = success]

\* createNewTask: version 0 and the single event that holds the new task.
BeginCreate(p, t, m) ==
  /\ upd[p].phase = "idle"
  /\ t \notin issued
  /\ MaxVersion > 0
  /\ issued' = issued \cup {t}
  /\ upd' = [upd EXCEPT ![p] = [IdleUpdate EXCEPT !.phase = "append", !.task = t,
                                  !.event = [kind |-> "task", val |-> m]]]
  /\ UNCHANGED <<storageVars, pushes, faults>>

(***************************************************************************)
(* addMessage, updateStatus, upsertArtifact: GetTask, the check on the     *)
(* state, NewTaskUpdater on a copy of the snapshot.                        *)
(***************************************************************************)
ReadTask(p, t, e) ==
  /\ upd[p].phase = "idle"
  /\ tasks[t].version < MaxVersion
  /\ upd' = [upd EXCEPT ![p] =
       IF GetTaskSucceeds(t) /\ ~Refused(tasks[t].task, e)
       THEN [IdleUpdate EXCEPT !.phase = "append", !.task = t, !.event = e,
               !.base = tasks[t].task, !.version = tasks[t].version]
       ELSE [IdleUpdate EXCEPT !.phase = "done", !.task = t, !.event = e]]
  /\ UNCHANGED <<storageVars, issued, pushes, faults>>

\* GetTask fails for another reason than a missing task.
ReadFails(p, t, e) ==
  /\ Fault("storage")
  /\ upd[p].phase = "idle"
  /\ upd' = [upd EXCEPT ![p] = [IdleUpdate EXCEPT !.phase = "done", !.task = t, !.event = e]]
  /\ UNCHANGED <<storageVars, issued, pushes>>

BeginUpdate(p, t, e) == ReadTask(p, t, e) \/ ReadFails(p, t, e)

\* Storage.Append with the version that was read; a mismatch ends the update.
AppendEvents(p) ==
  LET u == upd[p] IN
  /\ u.phase = "append"
  /\ \/ /\ AppendAccepts(u.task, u.version)
        /\ streams' = Appended(u.task, <<u.event>>)
        /\ upd' = [upd EXCEPT ![p].phase = "save"]
     \/ /\ ~AppendAccepts(u.task, u.version)
        /\ Return(p, FALSE)
        /\ UNCHANGED streams
  /\ UNCHANGED <<tasks, pushConfigs, issued, pushes, faults>>

SavedVersionUnchanged(u) == u.version

\* The version Append returned.
SavedVersion(u) == u.version + 1

\* Where applyTaskUpdates goes on after SaveTask.
AfterSave(u) ==
  IF PushEnabled THEN [u EXCEPT !.phase = "list"]
                 ELSE [u EXCEPT !.phase = "done", !.ok = TRUE]

\* Storage.SaveTask(expected = the version read, new = the version Append returned).
SaveSnapshot(p) ==
  LET u == upd[p] IN
  /\ u.phase = "save"
  /\ IF SaveAccepts(u.task, u.version)
     THEN /\ tasks' = SavedTask(u.task, ApplyEvent(u.base, u.event), SavedVersion(u))
          /\ upd' = [upd EXCEPT ![p] = AfterSave(u)]
     ELSE Return(p, FALSE) /\ UNCHANGED tasks
  /\ UNCHANGED <<streams, pushConfigs, issued, pushes, faults>>

\* sendPushNotifications: the endpoints are those configured at this moment.
ListConfigs(p) ==
  LET u == upd[p]
      configs == ListTaskPushNotificationConfig(u.task) IN
  /\ u.phase = "list"
  /\ upd' = [upd EXCEPT ![p] = IF configs = {}
                                THEN [u EXCEPT !.phase = "done", !.ok = TRUE]
                                ELSE [u EXCEPT !.phase = "notify", !.todo = configs]]
  /\ UNCHANGED <<storageVars, issued, pushes, faults>>

\* The loop goes on to the next endpoint whether or not c was reached.
NextEndpoint(p, c) ==
  LET u == upd[p] IN
  upd' = [upd EXCEPT ![p] = IF u.todo = {c}
                             THEN [u EXCEPT !.phase = "done", !.ok = TRUE, !.todo = {}]
                             ELSE [u EXCEPT !.todo = @ \ {c}]]

Notify(p, c) ==
  LET u == upd[p] IN
  /\ u.phase = "notify"
  /\ c \in u.todo
  /\ pushes' = pushes \cup {<<u.task, SavedVersion(u), c>>}
  /\ NextEndpoint(p, c)
  /\ UNCHANGED <<storageVars, issued, faults>>

\* The caller takes the result.
Finish(p) ==
  /\ upd[p].phase = "done"
  /\ upd' = [upd EXCEPT ![p] = IdleUpdate]
  /\ UNCHANGED <<storageVars, issued, pushes, faults>>

-----------------------------------------------------------------------------
(* Failures.  A failed WriteFile may leave the file torn; it is only reached *)
(* when the version check passed.                                            *)

StreamAfterFailedAppend(p) ==
  \/ UNCHANGED streams
  \/ AppendAccepts(upd[p].task, upd[p].version) /\ streams' = TornStream(upd[p].task)

TasksAfterFailedSave(p) ==
  \/ UNCHANGED tasks
  \/ SaveAccepts(upd[p].task, upd[p].version) /\ tasks' = TornTask(upd[p].task)

AppendFails(p) ==
  /\ Fault("storage")
  /\ upd[p].phase = "append"
  /\ StreamAfterFailedAppend(p)
  /\ Return(p, FALSE)
  /\ UNCHANGED <<tasks, pushConfigs, issued, pushes>>

SaveFails(p) ==
  /\ Fault("storage")
  /\ upd[p].phase = "save"
  /\ TasksAfterFailedSave(p)
  /\ Return(p, FALSE)
  /\ UNCHANGED <<streams, pushConfigs, issued, pushes>>

\* The directory of configurations cannot be read: logged, and the update succeeds.
ListFails(p) ==
  /\ Fault("storage")
  /\ upd[p].phase = "list"
  /\ Return(p, TRUE)
  /\ UNCHANGED <<storageVars, issued, pushes>>

\* The endpoint did not answer with a 2xx status: logged, never retried.
NotifyFails(p, c) ==
  /\ Fault("notify")
  /\ upd[p].phase = "notify"
  /\ c \in upd[p].todo
  /\ NextEndpoint(p, c)
  /\ UNCHANGED <<storageVars, issued, pushes>>

\* The process stops; the file it was writing, if any, may be torn.
Crash ==
  /\ Fault("crash")
  /\ upd' = [p \in Procs |-> IdleUpdate]
  /\ \/ UNCHANGED <<streams, tasks>>
     \/ \E p \in Procs : /\ upd[p].phase = "append"
                         /\ StreamAfterFailedAppend(p)
                         /\ UNCHANGED tasks
     \/ \E p \in Procs : /\ upd[p].phase = "save"
                         /\ TasksAfterFailedSave(p)
                         /\ UNCHANGED streams
  /\ UNCHANGED <<pushConfigs, issued, pushes>>

-----------------------------------------------------------------------------
(* SetTaskPushNotificationConfig generates the ID of the configuration. *)
SetTaskPushNotificationConfig(t, c) ==
  /\ PushEnabled
  /\ c \notin issued
  /\ issued' = issued \cup {c}
  /\ pushConfigs' = SavedConfig(t, c)
  /\ UNCHANGED <<tasks, streams, upd, pushes, faults>>

DeleteTaskPushNotificationConfig(t, c) ==
  /\ PushEnabled
  /\ c \in pushConfigs[t]
  /\ pushConfigs' = DeletedConfig(t, c)
  /\ UNCHANGED <<tasks, streams, updaterVars>>

-----------------------------------------------------------------------------
Updates ==
  [kind : {"message"}, val : Messages]
    \cup [kind : {"status"}, val : UpdateStates]
    \cup [kind : {"artifact"}, val : Artifacts]

Init ==
  /\ StorageInit
  /\ issued = {}
  /\ upd = [p \in Procs |-> IdleUpdate]
  /\ pushes = {}
  /\ faults = 0

\* The steps a running update takes by itself.
Progress(p) ==
  \/ AppendEvents(p)
  \/ SaveSnapshot(p)
  \/ ListConfigs(p)
  \/ \E c \in Configs : Notify(p, c)

Failure(p) ==
  \/ AppendFails(p)
  \/ SaveFails(p)
  \/ ListFails(p)
  \/ \E c \in Configs : NotifyFails(p, c)

Configure ==
  \E t \in Tasks, c \in Configs :
    \/ SetTaskPushNotificationConfig(t, c)
    \/ DeleteTaskPushNotificationConfig(t, c)

Next ==
  \/ \E p \in Procs : \/ \E t \in Tasks, m \in Messages : BeginCreate(p, t, m)
                      \/ \E t \in Tasks, e \in Updates : BeginUpdate(p, t, e)
                      \/ Progress(p)
                      \/ Finish(p)
                      \/ Failure(p)
  \/ Crash
  \/ Configure

Spec == Init /\ [][Next]_vars

-----------------------------------------------------------------------------
(* Properties. *)

\* The variables keep their types.
TypeOK ==
  /\ StorageTypeOK
  /\ issued \subseteq Tasks \cup Configs
  /\ upd \in [Procs -> Update]
  /\ pushes \subseteq Tasks \X Nat \X Configs
  /\ faults \in 0 .. MaxFaults

Committing(p, t) == upd[p].phase = "save" /\ upd[p].task = t

(***************************************************************************)
(* The stream is the lock: the goroutine whose Append succeeded is the     *)
(* only one that is about to save this task, it is exactly one event       *)
(* ahead of the snapshot, and the version check of SaveTask cannot refuse  *)
(* it (the check of applyTaskUpdates' second write never fires).           *)
(***************************************************************************)
SaveNeverConflicts ==
  \A p \in Procs : upd[p].phase = "save" =>
    LET u == upd[p] IN
    /\ SaveAccepts(u.task, u.version)
    /\ streams[u.task].file = "intact"
    /\ streams[u.task].version = u.version + 1
    /\ \A q \in Procs : Committing(q, u.task) => q = p

(***************************************************************************)
(* The stream and the snapshot stay in step: a readable stream holds one   *)
(* event per version, starts with the event that created the task and has  *)
(* no other, and a readable snapshot is at most one event behind it.       *)
(***************************************************************************)
SnapshotInStep ==
  \A t \in Tasks : streams[t].file = "intact" =>
    LET es == streams[t].events IN
    /\ streams[t].version = Len(es)
    /\ \A i \in 1 .. Len(es) : (es[i].kind = "task") <=> (i = 1)
    /\ tasks[t].file = "intact" => tasks[t].version \in {Len(es) - 1, Len(es)} \ {0}

\* An endpoint is told of an event only after the snapshot that includes it was saved.
PushedIsSaved ==
  \A push \in pushes :
    /\ tasks[push[1]].file # "absent"
    /\ tasks[push[1]].file = "intact" => tasks[push[1]].version >= push[2]

(***************************************************************************)
(* The one state updateStatus protects: a canceled snapshot stays          *)
(* canceled, however the updates of other goroutines interleave with the   *)
(* check in updateStatus (the file may only become unreadable).            *)
(***************************************************************************)
CanceledIsFinal ==
  [][\A t \in Tasks :
       tasks[t].file = "intact" /\ tasks[t].task.state = "canceled" =>
         tasks'[t].file = "torn" \/ tasks'[t].task.state = "canceled"]_vars

\* The last goroutine that worked on t left its stream and its snapshot out of step.
Wedged(t) ==
  /\ t \in issued
  /\ \A p \in Procs : upd[p].task = t => upd[p].phase # "save"
  /\ \A p \in Procs : upd[p].task = t /\ upd[p].phase = "append" => upd[p].event.kind # "task"
  /\ \/ streams[t].file # "intact"
     \/ tasks[t].file # "intact"
     \/ tasks[t].version # streams[t].version

(***************************************************************************)
(* Append and SaveTask are two writes: once a crash or a failed write has  *)
(* come between them, no later update changes either file again; the task  *)
(* keeps the state it had and Append refuses everybody.                    *)
(***************************************************************************)
WedgedForever ==
  [][\A t \in Tasks : Wedged(t) => tasks'[t] = tasks[t] /\ streams'[t] = streams[t]]_vars

\* What a reader who applies the events of a stream one after another has after n of them.
Replayed(events) ==
  LET task[n \in 0 .. Len(events)] ==
        IF n = 0 THEN BlankTask ELSE ApplyEvent(task[n - 1], events[n])
  IN  task

UniqueIDs(arts) ==
  \A i, j \in DOMAIN arts : ArtifactID[arts[i]] = ArtifactID[arts[j]] => i = j

(***************************************************************************)
(* Event sourcing: the snapshot a reader gets is what replaying the first  *)
(* `version' events of the stream computes, and no two artifacts of it     *)
(* have the same ID.                                                       *)
(***************************************************************************)
SnapshotReplays ==
  \A t \in Tasks :
    tasks[t].file = "intact" /\ streams[t].file = "intact" =>
      /\ tasks[t].task = Replayed(streams[t].events)[tasks[t].version]
      /\ UniqueIDs(tasks[t].task.artifacts)

-----------------------------------------------------------------------------
(***************************************************************************)
(* The inductive invariant behind these properties: what the two files of  *)
(* a task say about each other, and what a goroutine in the middle of an   *)
(* update may rely on.                                                     *)
(***************************************************************************)
CanceledWithin(es, n) == \E i \in 1 .. n : es[i] = [kind |-> "status", val |-> "canceled"]

StreamShape(t) ==
  LET es == streams[t].events IN
  /\ streams[t].version = Len(es)
  /\ IF streams[t].file = "intact" THEN Len(es) >= 1 ELSE es = <<>>
  /\ \A i \in 1 .. Len(es) : (es[i].kind = "task") <=> (i = 1)
  /\ t \notin issued => streams[t].file = "absent"
  /\ streams[t].file = "absent" => tasks[t].file = "absent"

SnapshotShape(t) ==
  LET es == streams[t].events IN
  /\ tasks[t].file = "intact" => tasks[t].version >= 1
  /\ tasks[t].file = "intact" /\ streams[t].file = "intact" =>
       /\ tasks[t].version \in {Len(es) - 1, Len(es)}
       /\ CanceledWithin(es, tasks[t].version) => tasks[t].task.state = "canceled"

\* The snapshot of t does not include the last event of the stream.
Ahead(t) ==
  /\ streams[t].file = "intact"
  /\ ~(tasks[t].file = "intact" /\ tasks[t].version = Len(streams[t].events))

\* p creates t, and nobody else knows t.
Creating(p, t) ==
  /\ upd[p].event \in [kind : {"task"}, val : Messages]
  /\ upd[p].version = 0
  /\ tasks[t].file = "absent"
  /\ \A q \in Procs : upd[q].task = t /\ upd[q].phase \in {"append", "save"} => q = p

\* p read version upd[p].version of t; if that is still the snapshot, base is its task.
Updating(p, t) ==
  LET u == upd[p] IN
  /\ u.event \in Updates
  /\ u.version >= 1
  /\ ~Refused(u.base, u.event)
  /\ tasks[t].file = "intact" /\ tasks[t].version = u.version => u.base = tasks[t].task

AppendReady(p) ==
  LET u == upd[p]
      t == u.task
      es == streams[t].events IN
  u.phase = "append" =>
    /\ t \in Tasks \cap issued
    /\ \/ Creating(p, t) /\ streams[t].file = "absent"
       \/ /\ Updating(p, t)
          /\ streams[t].file # "absent"
          /\ streams[t].file = "intact" =>
               u.version <= Len(es) /\ (Ahead(t) => u.version < Len(es))

SaveReady(p) ==
  LET u == upd[p]
      t == u.task
      es == streams[t].events IN
  u.phase = "save" =>
    /\ t \in Tasks \cap issued
    /\ streams[t].file = "intact"
    /\ Len(es) = u.version + 1
    /\ es[u.version + 1] = u.event
    /\ \/ Creating(p, t)
       \/ Updating(p, t) /\ tasks[t].file = "intact" /\ tasks[t].version = u.version
    /\ \A q \in Procs : Committing(q, t) => q = p

NotifyReady(p) ==
  LET u == upd[p] IN
  u.phase \in {"list", "notify"} =>
    /\ u.task \in Tasks
    /\ tasks[u.task].file # "absent"
    /\ tasks[u.task].file = "intact" => tasks[u.task].version > u.version

\* The inductive invariant, beside TypeOK.
UpdateInv ==
  /\ \A t \in Tasks : StreamShape(t) /\ SnapshotShape(t)
  /\ \A p \in Procs : AppendReady(p) /\ SaveReady(p) /\ NotifyReady(p)
  /\ PushedIsSaved

-----------------------------------------------------------------------------
(* The event streams are the ledger. *)

Ledger == INSTANCE TaskLedger WITH
  ledger <- [t \in Tasks |-> streams[t].events],
  lost   <- {t \in Tasks : streams[t].file = "torn"},
  States <- UpdateStates

(***************************************************************************)
(* The protocol implements the ledger: under any interleaving and any      *)
(* crash the streams grow by one whole event at a time, never lose one but *)
(* by a torn file, and hold no status after a cancellation, although       *)
(* updateStatus checks a snapshot that may be stale.                       *)
(***************************************************************************)
ImplementsLedger == Ledger!Spec

=============================================================================
