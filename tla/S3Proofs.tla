------------------------------ MODULE S3Proofs ------------------------------
(***************************************************************************)
(* What S3Storage keeps without a lock, for any number of processes, tasks *)
(* and failures: where no put lands on an object that changed after the    *)
(* get it was checked against, stream and snapshot are in step as in the   *)
(* file store; and an update that was reported is found again, raced or    *)
(* not.  And what its files keep: readers see the object, writers store    *)
(* all they wrote.                                                         *)
(***************************************************************************)
EXTENDS S3Storage, S3File, TaskUpdaterProofs, Integers

Call ==
  [at : {"none", "put", "index", "get"}, stream : StreamFile, snapshot : SnapshotFile,
   keys : SUBSET Configs]

\* The types of the objects, of the updates and of the storage calls under way.
S3TypeOK ==
  /\ TypeOK
  /\ call \in [Procs -> Call]
  /\ index \in SUBSET Tasks
  /\ raced \in SUBSET Tasks

-----------------------------------------------------------------------------
(* What holds of every task, raced or not. *)

\* A stream object: one event per version, its creation first and only there.
Shaped(f) ==
  /\ f.file \in {"absent", "intact"}
  /\ f.version = Len(f.events)
  /\ f.file = "intact" => Len(f.events) >= 1
  /\ f.file = "absent" => f.events = <<>>
  /\ \A i \in 1 .. Len(f.events) : (f.events[i].kind = "task") <=> (i = 1)

ObjectsInv(t) ==
  /\ Shaped(streams[t])
  /\ tasks[t].file \in {"absent", "intact"}
  /\ tasks[t].file = "intact" => tasks[t].version >= 1
  /\ t \notin issued => streams[t].file = "absent"
  /\ streams[t].file = "absent" => tasks[t].file = "absent"

Creates(u) == u.event \in [kind : {"task"}, val : Messages] /\ u.version = 0

Changes(u) == u.event \in Updates /\ u.version >= 1 /\ ~Refused(u.base, u.event)

\* p is between the start of its update and the put of its snapshot.
Unsaved(p) ==
  \/ upd[p].phase = "append"
  \/ upd[p].phase = "save" /\ call[p].at \in {"none", "put"}

\* Which storage call belongs to which phase of an update.
CallShape(p) ==
  /\ upd[p].phase \in {"idle", "notify", "done"} => call[p].at = "none"
  /\ upd[p].phase = "append" => call[p].at \in {"none", "put"}
  /\ upd[p].phase = "save" => call[p].at \in {"none", "put", "index"}
  /\ upd[p].phase = "list" => call[p].at \in {"none", "get"}
  /\ upd[p].phase = "append" /\ call[p].at = "put" =>
       Shaped(call[p].stream) /\ call[p].stream.version = upd[p].version

\* What p has read and what it has put so far; who creates a task is alone with it.
WorkInv(p) ==
  LET u == upd[p]
      t == u.task IN
  u.phase \in {"append", "save"} =>
    /\ t \in Tasks /\ t \in issued
    /\ \/ Creates(u)
       \/ Changes(u) /\ streams[t].file = "intact"
    /\ Creates(u) /\ u.phase = "append" => streams[t].file = "absent"
    /\ Creates(u) /\ Unsaved(p) =>
         /\ tasks[t].file = "absent"
         /\ \A q \in Procs : upd[q].phase \in {"append", "save"} /\ upd[q].task = t => q = p
    /\ u.phase = "save" => streams[t].file = "intact"
    /\ u.phase = "save" /\ call[p].at = "index" => tasks[t].file = "intact"

\* p has put all there is to put for its update.
SavedBy(p) ==
  \/ upd[p].phase \in {"list", "notify"}
  \/ upd[p].phase = "done" /\ upd[p].ok

SavedInv(p) ==
  LET t == upd[p].task IN
  SavedBy(p) => /\ t \in Tasks /\ t \in index
                /\ tasks[t].file = "intact" /\ streams[t].file = "intact"

-----------------------------------------------------------------------------
(* What holds of a task as long as it is not raced. *)

InStepInv(t) ==
  LET es == streams[t].events IN
  tasks[t].file = "intact" /\ streams[t].file = "intact" =>
    /\ tasks[t].version \in {Len(es) - 1, Len(es)}
    /\ CanceledWithin(es, tasks[t].version) => tasks[t].task.state = "canceled"

\* An update that has not appended yet: behind the stream if that is ahead of the snapshot.
AppendInv(p, t) ==
  LET u == upd[p] IN
  upd[p].task = t /\ u.phase = "append" /\ Changes(u) =>
    /\ u.version <= Len(streams[t].events)
    /\ Ahead(t) => u.version < Len(streams[t].events)
    /\ tasks[t].file = "intact" /\ tasks[t].version = u.version => u.base = tasks[t].task

Commits(p, t) == upd[p].task = t /\ upd[p].phase = "save" /\ call[p].at \in {"none", "put"}

\* An update that has appended and not saved yet is the only one.
CommitInv(p, t) ==
  LET u == upd[p]
      es == streams[t].events IN
  Commits(p, t) =>
    /\ Len(es) = u.version + 1 /\ es[u.version + 1] = u.event
    /\ \/ Creates(u)
       \/ /\ tasks[t].file = "intact" /\ tasks[t].version = u.version
          /\ u.base = tasks[t].task
    /\ \A q \in Procs : Commits(q, t) => q = p

UnracedInv(t) ==
  t \notin raced =>
    /\ InStepInv(t)
    /\ \A p \in Procs : AppendInv(p, t) /\ CommitInv(p, t)

S3Inv ==
  /\ S3TypeOK
  /\ \A t \in Tasks : ObjectsInv(t)
  /\ \A p \in Procs : CallShape(p) /\ WorkInv(p) /\ SavedInv(p)
  /\ \A t \in Tasks : UnracedInv(t)

-----------------------------------------------------------------------------
(* The forms a step takes. *)

OthersSame(p) == \A q \in Procs : q # p => upd'[q] = upd[q] /\ call'[q] = call[q]

\* No object of a task is put.
NoPut(p) ==
  /\ UNCHANGED <<tasks, streams, raced>>
  /\ index \subseteq index' /\ issued \subseteq issued'
  /\ OthersSame(p)

GivesUp(p) ==
  /\ NoPut(p)
  /\ upd'[p].phase \in {"idle", "done"} /\ upd'[p].ok = FALSE /\ call'[p].at = "none"

Opens(p, t) ==
  /\ NoPut(p)
  /\ upd[p].phase = "idle"
  /\ upd'[p].phase = "append" /\ upd'[p].task = t /\ call'[p] = call[p]
  /\ \/ t \notin issued /\ t \in issued' /\ Creates(upd'[p])
     \/ /\ tasks[t].file = "intact" /\ upd'[p].event \in Updates
        /\ ~Refused(upd'[p].base, upd'[p].event)
        /\ upd'[p].base = tasks[t].task /\ upd'[p].version = tasks[t].version

Gets(p) ==
  /\ NoPut(p)
  /\ upd'[p] = upd[p] /\ upd[p].phase \in {"append", "save"}
  /\ call[p].at = "none" /\ call'[p].at = "put"
  /\ upd[p].phase = "append" =>
       call'[p].stream = streams[upd[p].task] /\ upd[p].version = streams[upd[p].task].version

Stores(p) ==
  /\ NoPut(p)
  /\ upd'[p].task = upd[p].task /\ upd'[p].phase \in {"list", "notify", "done"}
  /\ call'[p].at = "none" \/ (upd'[p].phase = "list" /\ call'[p].at = "get")
  /\ \/ upd[p].phase \in {"list", "notify"}
     \/ upd[p].phase = "save" /\ call[p].at = "index" /\ upd[p].task \in index'

PutsStream(p) ==
  /\ upd[p].phase = "append" /\ call[p].at = "put" /\ StreamPut(p)
  /\ UNCHANGED <<tasks, issued, index>> /\ OthersSame(p)
  /\ call'[p].at = "none"
  /\ \/ upd'[p] = [upd[p] EXCEPT !.phase = "save"]
     \/ upd'[p].phase = "done" /\ upd'[p].ok = FALSE

PutsSnapshot(p) ==
  /\ upd[p].phase = "save" /\ call[p].at = "put" /\ SnapshotPut(p)
  /\ UNCHANGED <<streams, issued, index>> /\ OthersSame(p)
  /\ \/ upd'[p] = upd[p] /\ call'[p].at = "index"
     \/ upd'[p].phase = "done" /\ upd'[p].ok = FALSE /\ call'[p].at = "none"

Still == UNCHANGED <<tasks, streams, raced, index, upd, call>> /\ issued \subseteq issued'

\* The end of a call without success.
LEMMA ReturnsFailed ==
  ASSUME TypeOK, NEW p \in Procs, Return(p, FALSE)
  PROVE  /\ upd'[p].phase = "done" /\ upd'[p].ok = FALSE
         /\ \A q \in Procs : q # p => upd'[q] = upd[q]
BY DEF Return, TypeOK, Update

\* Every step has one of the forms.
LEMMA S3Forms ==
  ASSUME S3TypeOK, \A p \in Procs : CallShape(p), [S3Next]_s3Vars
  PROVE  \/ Still
         \/ \E p \in Procs : \/ GivesUp(p) \/ Gets(p) \/ Stores(p) \/ PutsStream(p) \/ PutsSnapshot(p)
                             \/ \E t \in Tasks : Opens(p, t)
<1>. USE DEF storageVars, updaterVars, Unwritten
<1>t. /\ upd \in [Procs -> Update] /\ call \in [Procs -> Call] /\ TypeOK
      /\ NoCall.at = "none" /\ IdleUpdate.phase = "idle" /\ IdleUpdate.ok = FALSE
  BY DEF S3TypeOK, TypeOK, NoCall, IdleUpdate
<1>1. ASSUME NEW p \in Procs, NEW t \in Tasks, NEW m \in Messages, BeginCreate(p, t, m), Unwritten
      PROVE  Opens(p, t)
  BY <1>1, <1>t DEF BeginCreate, IdleUpdate, Opens, NoPut, OthersSame, Creates
<1>2. ASSUME NEW p \in Procs, NEW t \in Tasks, NEW e \in Updates, BeginUpdate(p, t, e), Unwritten
      PROVE  GivesUp(p) \/ Opens(p, t)
  <2>1. upd[p].phase = "idle" /\ call[p].at = "none" /\ NoPut(p)
    BY <1>2, <1>t DEF BeginUpdate, ReadTask, ReadFails, CallShape, NoPut, OthersSame
  <2>2. \/ upd'[p] = [IdleUpdate EXCEPT !.phase = "done", !.task = t, !.event = e]
        \/ /\ tasks[t].file = "intact" /\ ~Refused(tasks[t].task, e) /\ issued' = issued
           /\ upd'[p] = [IdleUpdate EXCEPT !.phase = "append", !.task = t, !.event = e,
                           !.base = tasks[t].task, !.version = tasks[t].version]
    BY <1>2, <1>t DEF BeginUpdate, ReadTask, ReadFails, GetTaskSucceeds
  <2>3. CASE upd'[p] = [IdleUpdate EXCEPT !.phase = "done", !.task = t, !.event = e]
    BY <1>2, <2>1, <2>3 DEF GivesUp, IdleUpdate
  <2>4. CASE /\ tasks[t].file = "intact" /\ ~Refused(tasks[t].task, e) /\ issued' = issued
             /\ upd'[p] = [IdleUpdate EXCEPT !.phase = "append", !.task = t, !.event = e,
                           !.base = tasks[t].task, !.version = tasks[t].version]
    <3>1. /\ upd'[p].phase = "append" /\ upd'[p].task = t /\ upd'[p].event = e
          /\ upd'[p].base = tasks[t].task /\ upd'[p].version = tasks[t].version
      BY <2>4 DEF IdleUpdate
    <3>. QED
      BY <1>2, <2>1, <2>4, <3>1 DEF Opens
  <2>. QED
    BY <2>2, <2>3, <2>4
<1>3. ASSUME NEW p \in Procs, AppendGet(p)
      PROVE  Gets(p) \/ GivesUp(p)
  BY <1>3, <1>t, ReturnsFailed DEF AppendGet, S3AppendAccepts, NoCall, Gets, GivesUp, NoPut, OthersSame
<1>4. ASSUME NEW p \in Procs, AppendPut(p)
      PROVE  PutsStream(p)
  BY <1>4, <1>t DEF AppendPut, PutsStream, OthersSame
<1>5. ASSUME NEW p \in Procs, SaveGet(p)
      PROVE  Gets(p) \/ GivesUp(p)
  BY <1>5, <1>t, ReturnsFailed DEF SaveGet, NoCall, Gets, GivesUp, NoPut, OthersSame
<1>6. ASSUME NEW p \in Procs, SavePut(p)
      PROVE  PutsSnapshot(p)
  BY <1>6, <1>t DEF SavePut, PutsSnapshot, NoCall, OthersSame
<1>7. ASSUME NEW p \in Procs, IndexPut(p)
      PROVE  Stores(p)
  <2>1. AfterSave(upd[p]).phase \in {"list", "done"} /\ AfterSave(upd[p]).task = upd[p].task
    BY <1>t DEF AfterSave, Update
  <2>. QED
    <3>1. upd'[p] = AfterSave(upd[p]) /\ call'[p].at = "none" /\ OthersSame(p)
      BY <1>7, <1>t DEF IndexPut, OthersSame
    <3>2. index' = index \cup {upd[p].task}
      BY <1>7 DEF IndexPut, IndexEntry
    <3>9. NoPut(p)
      BY <1>7, <2>1, <3>1, <3>2 DEF IndexPut, NoPut
    <3>. QED
      BY <1>7, <2>1, <3>1, <3>2, <3>9 DEF IndexPut, Stores
<1>8. ASSUME NEW p \in Procs, ListKeys(p)
      PROVE  Stores(p)
  BY <1>8, <1>t DEF ListKeys, vars, NoCall, Stores, NoPut, OthersSame
<1>9. ASSUME NEW p \in Procs, GetConfigs(p)
      PROVE  Stores(p)
  <2>1. call'[p].at = "none" /\ OthersSame(p)
    BY <1>9, <1>t DEF GetConfigs, OthersSame
  <2>2. upd'[p].task = upd[p].task /\ upd'[p].phase \in {"list", "notify", "done"}
    BY <1>9, <1>t DEF GetConfigs, Update
  <2>9. NoPut(p)
    BY <1>9, <2>1, <2>2 DEF GetConfigs, NoPut
  <2>. QED
    BY <1>9, <2>1, <2>2, <2>9 DEF GetConfigs, Stores
<1>10. ASSUME NEW p \in Procs, NEW c \in Configs, Notify(p, c), Unwritten
       PROVE  Stores(p)
  <2>1. call'[p].at = "none" /\ OthersSame(p)
    BY <1>10, <1>t DEF Notify, NextEndpoint, CallShape, OthersSame
  <2>2. upd'[p].task = upd[p].task /\ upd'[p].phase \in {"list", "notify", "done"}
    BY <1>10, <1>t DEF Notify, NextEndpoint, Update
  <2>9. NoPut(p)
    BY <1>10, <2>1, <2>2 DEF Notify, NoPut
  <2>. QED
    BY <1>10, <2>1, <2>2, <2>9 DEF Notify, Stores
<1>11. ASSUME NEW p \in Procs, Finish(p), Unwritten
       PROVE  GivesUp(p)
  BY <1>11, <1>t DEF Finish, CallShape, GivesUp, NoPut, OthersSame
<1>12. ASSUME NEW p \in Procs, CallFails(p)
       PROVE  GivesUp(p) \/ PutsStream(p) \/ PutsSnapshot(p)
  <2>1. upd'[p].phase = "done" /\ upd'[p].ok = FALSE /\ call'[p].at = "none" /\ OthersSame(p)
    BY <1>12, <1>t, ReturnsFailed DEF CallFails, OthersSame
  <2>. QED
    BY <1>12, <2>1 DEF CallFails, IndexEntry, GivesUp, NoPut, PutsStream, PutsSnapshot
<1>13. ASSUME NEW p \in Procs, ListKeysFails(p)
       PROVE  Stores(p)
  <2>1. upd'[p].task = upd[p].task /\ upd'[p].phase = "done" /\ OthersSame(p)
    BY <1>13, <1>t DEF ListKeysFails, Return, Update, OthersSame
  <2>9. NoPut(p)
    BY <1>13, <2>1 DEF ListKeysFails, NoPut
  <2>. QED
    BY <1>13, <2>1, <2>9 DEF ListKeysFails, Stores
<1>14. ASSUME NEW p \in Procs, ProcessStops(p)
       PROVE  GivesUp(p)
  BY <1>14, <1>t DEF ProcessStops, GivesUp, NoPut, OthersSame
<1>15. ASSUME NEW t \in Tasks, NEW c \in Configs,
              (SetTaskPushNotificationConfig(t, c) /\ Unwritten) \/ DeleteConfig(t, c)
       PROVE  Still
  BY <1>15 DEF SetTaskPushNotificationConfig, DeleteConfig, Still
<1>16. CASE UNCHANGED s3Vars
  BY <1>16 DEF s3Vars, vars, Still
<1>. QED
  BY <1>1, <1>2, <1>3, <1>4, <1>5, <1>6, <1>7, <1>8, <1>9, <1>10, <1>11, <1>12, <1>13, <1>14, <1>15, <1>16
  DEF S3Next, S3Progress

-----------------------------------------------------------------------------
(* The types are kept. *)

\* A put of the stream keeps the type of the objects.
LEMMA StreamPutType ==
  ASSUME S3TypeOK, NEW p \in Procs, upd[p].task \in Tasks, upd[p].event \in Event, StreamPut(p)
  PROVE  streams' \in [Tasks -> StreamFile] /\ raced' \in SUBSET Tasks
<1>1. call[p].stream \in StreamFile /\ streams \in [Tasks -> StreamFile]
  BY DEF S3TypeOK, Call, TypeOK, StorageTypeOK
<1>2. /\ Append(call[p].stream.events, upd[p].event) \in Seq(Event)
      /\ call[p].stream.version + 1 \in Nat
  BY <1>1 DEF StreamFile
<1>3. [file |-> "intact", events |-> Append(call[p].stream.events, upd[p].event),
       version |-> call[p].stream.version + 1] \in StreamFile
  BY <1>2 DEF StreamFile, FileStates
<1>4. streams' \in [Tasks -> StreamFile]
  BY <1>1, <1>3 DEF StreamPut, PutStream
<1>. QED
  BY <1>4 DEF StreamPut, RacedBy, S3TypeOK

\* A put of the snapshot keeps the type of the objects.
LEMMA SnapshotPutType ==
  ASSUME S3TypeOK, NEW p \in Procs, upd[p].task \in Tasks, upd[p].event \in Event, SnapshotPut(p)
  PROVE  tasks' \in [Tasks -> SnapshotFile] /\ raced' \in SUBSET Tasks
<1>1. upd[p] \in Update /\ tasks \in [Tasks -> SnapshotFile]
  BY DEF S3TypeOK, TypeOK, StorageTypeOK
<1>2. ApplyEvent(upd[p].base, upd[p].event) \in TaskValue /\ upd[p].version + 1 \in Nat
  BY <1>1, ApplyEventType DEF Update
<1>3. tasks' \in [Tasks -> SnapshotFile]
  BY <1>1, <1>2 DEF SnapshotPut, SavedTask, SavedVersion, SnapshotFile, FileStates
<1>. QED
  BY <1>3 DEF SnapshotPut, RacedBy, S3TypeOK

\* A goroutine between its start and its last put has an event for a task.
LEMMA WorkEvent ==
  ASSUME S3Inv, NEW p \in Procs, upd[p].phase \in {"append", "save"}
  PROVE  upd[p].task \in Tasks /\ upd[p].event \in Event
BY EventTypes DEF S3Inv, WorkInv, Creates, Changes

\* Every step keeps the types.
LEMMA S3TypeStep ==
  ASSUME S3Inv, [S3Next]_s3Vars
  PROVE  S3TypeOK'
<1>. USE DEF storageVars, updaterVars, Unwritten
<1>t. /\ S3TypeOK /\ TypeOK /\ upd \in [Procs -> Update] /\ call \in [Procs -> Call]
      /\ index \in SUBSET Tasks /\ raced \in SUBSET Tasks
      /\ pushConfigs \in [Tasks -> SUBSET Configs]
  BY DEF S3Inv, S3TypeOK, TypeOK, StorageTypeOK
<1>c. NoCall \in Call
  BY StartTypes DEF NoCall, Call
<1>f. ASSUME NEW k, Fault(k)
      PROVE  faults' \in 0 .. MaxFaults
  BY <1>f, <1>t, UpdaterAssumption DEF Fault, TypeOK
<1>r. ASSUME NEW p \in Procs, NEW b \in BOOLEAN, Return(p, b)
      PROVE  upd' \in [Procs -> Update]
  BY <1>r, <1>t, ReturnType
<1>1. ASSUME NEW p \in Procs,
             \/ \E t \in Tasks, m \in Messages : BeginCreate(p, t, m)
             \/ \E t \in Tasks, e \in Updates : BeginUpdate(p, t, e)
             \/ Finish(p),
             Unwritten
      PROVE  S3TypeOK'
  BY <1>1, <1>t, BeginType DEF S3TypeOK
<1>3. ASSUME NEW p \in Procs, AppendGet(p)
      PROVE  S3TypeOK'
  <2>1. upd[p].task \in Tasks
    BY <1>3, WorkEvent DEF AppendGet
  <2>2. [NoCall EXCEPT !.at = "put", !.stream = streams[upd[p].task]] \in Call
    BY <1>c, <1>t, <2>1 DEF Call, TypeOK, StorageTypeOK
  <2>3. upd' \in [Procs -> Update] /\ call' \in [Procs -> Call]
    BY <1>3, <1>t, <1>r, <2>2 DEF AppendGet
  <2>. QED
    BY <1>3, <1>t, <2>3 DEF AppendGet, S3TypeOK, TypeOK, StorageTypeOK
<1>4. ASSUME NEW p \in Procs, AppendPut(p)
      PROVE  S3TypeOK'
  <2>1. streams' \in [Tasks -> StreamFile] /\ raced' \in SUBSET Tasks
    BY <1>4, <1>t, WorkEvent, StreamPutType DEF AppendPut
  <2>2. upd' \in [Procs -> Update] /\ call' \in [Procs -> Call]
    BY <1>4, <1>t, <1>c DEF AppendPut, Update, Phases
  <2>. QED
    BY <1>4, <1>t, <2>1, <2>2 DEF AppendPut, S3TypeOK, TypeOK, StorageTypeOK
<1>5. ASSUME NEW p \in Procs, SaveGet(p)
      PROVE  S3TypeOK'
  <2>1. upd[p].task \in Tasks
    BY <1>5, WorkEvent DEF SaveGet
  <2>2. [NoCall EXCEPT !.at = "put", !.snapshot = tasks[upd[p].task]] \in Call
    BY <1>c, <1>t, <2>1 DEF Call, TypeOK, StorageTypeOK
  <2>3. upd' \in [Procs -> Update] /\ call' \in [Procs -> Call]
    BY <1>5, <1>t, <1>r, <2>2 DEF SaveGet
  <2>. QED
    BY <1>5, <1>t, <2>3 DEF SaveGet, S3TypeOK, TypeOK, StorageTypeOK
<1>6. ASSUME NEW p \in Procs, SavePut(p)
      PROVE  S3TypeOK'
  <2>1. tasks' \in [Tasks -> SnapshotFile] /\ raced' \in SUBSET Tasks
    BY <1>6, <1>t, WorkEvent, SnapshotPutType DEF SavePut
  <2>2. call' \in [Procs -> Call]
    BY <1>6, <1>t, <1>c DEF SavePut, Call
  <2>. QED
    BY <1>6, <1>t, <2>1, <2>2 DEF SavePut, S3TypeOK, TypeOK, StorageTypeOK
<1>7. ASSUME NEW p \in Procs, IndexPut(p)
      PROVE  S3TypeOK'
  <2>1. AfterSave(upd[p]) \in Update
    BY <1>t DEF AfterSave, Update, Phases
  <2>2. upd' \in [Procs -> Update] /\ call' \in [Procs -> Call]
    BY <1>7, <1>t, <1>c, <2>1 DEF IndexPut
  <2>3. index' \in SUBSET Tasks
    BY <1>7, <1>t, WorkEvent DEF IndexPut, IndexEntry
  <2>. QED
    BY <1>7, <1>t, <2>2, <2>3 DEF IndexPut, S3TypeOK, TypeOK, StorageTypeOK
<1>8. ASSUME NEW p \in Procs, ListKeys(p) \/ GetConfigs(p)
      PROVE  S3TypeOK'
  <2>1. upd[p].task \in Tasks /\ pushConfigs[upd[p].task] \in SUBSET Configs
    BY <1>8, <1>t DEF ListKeys, GetConfigs, S3Inv, SavedInv, SavedBy
  <2>2. CASE ListKeys(p)
    <3>1. [NoCall EXCEPT !.at = "get", !.keys = pushConfigs[upd[p].task]] \in Call
      BY <1>c, <2>1 DEF Call
    <3>2. call' \in [Procs -> Call]
      BY <2>2, <1>t, <3>1 DEF ListKeys
    <3>. QED
      BY <2>2, <1>t, <3>2 DEF ListKeys, vars, S3TypeOK, TypeOK, StorageTypeOK
  <2>3. CASE GetConfigs(p)
    <3>1. FoundConfigs(p) \in SUBSET Configs
      BY <2>1 DEF FoundConfigs
    <3>2. /\ [upd[p] EXCEPT !.phase = "done", !.ok = TRUE] \in Update
          /\ [upd[p] EXCEPT !.phase = "notify", !.todo = FoundConfigs(p)] \in Update
      BY <1>t, <3>1 DEF Update, Phases
    <3>3. upd' \in [Procs -> Update] /\ call' \in [Procs -> Call]
      BY <2>3, <1>t, <1>c, <3>2 DEF GetConfigs
    <3>. QED
      BY <2>3, <1>t, <3>3 DEF GetConfigs, S3TypeOK, TypeOK, StorageTypeOK
  <2>. QED
    BY <1>8, <2>2, <2>3
<1>9. ASSUME NEW p \in Procs, NEW c \in Configs, Notify(p, c), Unwritten
      PROVE  S3TypeOK'
  <2>1. upd[p].task \in Tasks /\ SavedVersion(upd[p]) \in Nat
    BY <1>9, <1>t DEF Notify, S3Inv, SavedInv, SavedBy, SavedVersion, Update
  <2>2. upd' \in [Procs -> Update]
    BY <1>9, <1>t, EndpointType DEF Notify
  <2>. QED
    BY <1>9, <1>t, <2>1, <2>2 DEF Notify, S3TypeOK, TypeOK, StorageTypeOK
<1>10. ASSUME NEW p \in Procs, CallFails(p)
       PROVE  S3TypeOK'
  <2>1. upd[p].task \in Tasks /\ upd[p].event \in Event
    BY <1>10, WorkEvent DEF CallFails
  <2>2. upd' \in [Procs -> Update] /\ call' \in [Procs -> Call] /\ faults' \in 0 .. MaxFaults
    BY <1>10, <1>t, <1>c, <1>r, <1>f DEF CallFails
  <2>3. /\ streams' \in [Tasks -> StreamFile] /\ tasks' \in [Tasks -> SnapshotFile]
        /\ raced' \in SUBSET Tasks /\ index' \in SUBSET Tasks
    BY <1>10, <1>t, <2>1, StreamPutType, SnapshotPutType
    DEF CallFails, IndexEntry, TypeOK, StorageTypeOK
  <2>. QED
    BY <1>10, <1>t, <2>2, <2>3 DEF CallFails, S3TypeOK, TypeOK, StorageTypeOK
<1>11. ASSUME NEW p \in Procs, ListKeysFails(p)
       PROVE  S3TypeOK'
  <2>1. upd' \in [Procs -> Update] /\ faults' \in 0 .. MaxFaults
    BY <1>11, <1>r, <1>f DEF ListKeysFails
  <2>. QED
    BY <1>11, <1>t, <2>1 DEF ListKeysFails, S3TypeOK, TypeOK, StorageTypeOK
<1>12. ASSUME NEW p \in Procs, ProcessStops(p)
       PROVE  S3TypeOK'
  <2>1. upd' \in [Procs -> Update] /\ call' \in [Procs -> Call] /\ faults' \in 0 .. MaxFaults
    BY <1>12, <1>t, <1>c, <1>f, StartTypes DEF ProcessStops
  <2>. QED
    BY <1>12, <1>t, <2>1 DEF ProcessStops, S3TypeOK, TypeOK, StorageTypeOK
<1>13. ASSUME NEW t \in Tasks, NEW c \in Configs,
              (SetTaskPushNotificationConfig(t, c) /\ Unwritten) \/ DeleteConfig(t, c)
       PROVE  S3TypeOK'
  BY <1>13, <1>t DEF SetTaskPushNotificationConfig, DeleteConfig, SavedConfig, DeletedConfig,
                     S3TypeOK, TypeOK, StorageTypeOK
<1>14. CASE UNCHANGED s3Vars
  BY <1>14, <1>t DEF s3Vars, vars, S3TypeOK, TypeOK, StorageTypeOK
<1>. QED
  BY <1>1, <1>3, <1>4, <1>5, <1>6, <1>7, <1>8, <1>9, <1>10, <1>11, <1>12, <1>13, <1>14
  DEF S3Next, S3Progress


-----------------------------------------------------------------------------
(* What holds of every task is kept. *)

TasksInv == \A t \in Tasks : ObjectsInv(t)

ProcsInv == \A p \in Procs : CallShape(p) /\ WorkInv(p) /\ SavedInv(p)

\* Steps without a put.
LEMMA NoPutBase ==
  ASSUME S3Inv, S3TypeOK', NEW p \in Procs,
         GivesUp(p) \/ Gets(p) \/ Stores(p)
  PROVE  TasksInv' /\ ProcsInv'
<1>1. NoPut(p) /\ TasksInv /\ ProcsInv
  BY DEF GivesUp, Gets, Stores, S3Inv, TasksInv, ProcsInv
<1>2. TasksInv'
  BY <1>1 DEF NoPut, TasksInv, ObjectsInv, Shaped
<1>3. upd'[p].phase \in {"append", "save"} => upd'[p] = upd[p] /\ (Unsaved(p)' => Unsaved(p))
  BY DEF GivesUp, Gets, Stores, Unsaved
<1>4. \A q \in Procs : q # p => upd'[q] = upd[q] /\ call'[q] = call[q]
  BY <1>1 DEF NoPut, OthersSame
<1>5. ASSUME NEW q \in Procs
      PROVE  WorkInv(q)'
  <2>. SUFFICES ASSUME upd'[q].phase \in {"append", "save"}
                PROVE  WorkInv(q)'
    BY DEF WorkInv
  <2>1. /\ upd'[q] = upd[q] /\ (Unsaved(q)' => Unsaved(q))
        /\ call'[q].at = "index" => call[q].at = "index"
    BY <1>3, <1>4 DEF Unsaved, GivesUp, Gets, Stores
  <2>2. WorkInv(q)
    BY <1>1 DEF ProcsInv
  <2>3. \A r \in Procs : upd'[r].phase \in {"append", "save"} => upd'[r] = upd[r]
    BY <1>3, <1>4
  <2>. QED
    BY <1>1, <2>1, <2>2, <2>3 DEF WorkInv, NoPut
<1>6. ASSUME NEW q \in Procs
      PROVE  SavedInv(q)'
  <2>1. CASE q = p /\ Stores(p)
    <3>1. /\ upd'[p].task = upd[p].task /\ index \subseteq index'
          /\ UNCHANGED <<tasks, streams>>
      BY <1>1, <2>1 DEF Stores, NoPut
    <3>2. CASE upd[p].phase \in {"list", "notify"}
      BY <1>1, <2>1, <3>1, <3>2 DEF ProcsInv, SavedInv, SavedBy
    <3>3. CASE upd[p].phase = "save" /\ call[p].at = "index" /\ upd[p].task \in index'
      BY <1>1, <2>1, <3>1, <3>3 DEF ProcsInv, WorkInv, SavedInv
    <3>. QED
      BY <2>1, <3>2, <3>3 DEF Stores
  <2>2. CASE q = p /\ (GivesUp(p) \/ Gets(p))
    BY <2>2 DEF GivesUp, Gets, SavedInv, SavedBy
  <2>3. CASE q # p
    BY <1>1, <1>4, <2>3 DEF NoPut, ProcsInv, SavedInv, SavedBy
  <2>. QED
    BY <2>1, <2>2, <2>3
<1>7. ASSUME NEW q \in Procs
      PROVE  CallShape(q)'
  <2>1. CASE q = p /\ Gets(p)
    <3>1. CASE upd[p].phase = "append"
      <4>1. upd[p].task \in Tasks
        BY <1>1, <3>1 DEF ProcsInv, WorkInv
      <4>2. Shaped(streams[upd[p].task])
        BY <1>1, <4>1 DEF TasksInv, ObjectsInv
      <4>3. /\ call'[p].stream = streams[upd[p].task] /\ upd'[p].version = streams[upd[p].task].version
            /\ upd'[p].phase = "append" /\ call'[p].at = "put"
        BY <2>1, <3>1 DEF Gets
      <4>4. Shaped(call[p].stream)'
        BY <4>2, <4>3 DEF Shaped
      <4>. QED
        BY <2>1, <4>3, <4>4 DEF CallShape
    <3>2. CASE upd[p].phase = "save"
      BY <2>1, <3>2 DEF Gets, CallShape
    <3>. QED
      BY <2>1, <3>1, <3>2 DEF Gets
  <2>2. CASE q = p /\ (GivesUp(p) \/ Stores(p))
    BY <2>2 DEF GivesUp, Stores, CallShape
  <2>3. CASE q # p
    BY <1>1, <1>4, <2>3 DEF ProcsInv, CallShape, Shaped
  <2>. QED
    BY <2>1, <2>2, <2>3
<1>. QED
  BY <1>2, <1>5, <1>6, <1>7 DEF ProcsInv

\* An update starts.
LEMMA OpensBase ==
  ASSUME S3Inv, S3TypeOK', NEW p \in Procs, NEW t \in Tasks, Opens(p, t)
  PROVE  TasksInv' /\ ProcsInv'
<1>1. NoPut(p) /\ TasksInv /\ ProcsInv /\ upd[p].phase = "idle"
  BY DEF Opens, S3Inv, TasksInv, ProcsInv
<1>2. TasksInv'
  BY <1>1 DEF NoPut, TasksInv, ObjectsInv, Shaped
<1>3. /\ upd'[p].phase = "append" /\ upd'[p].task = t /\ call'[p].at = "none"
      /\ \A q \in Procs : q # p => upd'[q] = upd[q] /\ call'[q] = call[q]
  BY <1>1 DEF Opens, NoPut, OthersSame, ProcsInv, CallShape
<1>4. \/ /\ t \notin issued /\ Creates(upd'[p]) /\ t \in issued'
         /\ streams[t].file = "absent" /\ tasks[t].file = "absent"
      \/ /\ tasks[t].file = "intact" /\ Changes(upd'[p]) /\ t \in issued'
         /\ streams[t].file = "intact"
  <2>1. CASE t \notin issued /\ t \in issued' /\ Creates(upd'[p])
    BY <1>1, <2>1 DEF TasksInv, ObjectsInv
  <2>2. CASE /\ tasks[t].file = "intact" /\ upd'[p].event \in Updates
             /\ ~Refused(upd'[p].base, upd'[p].event)
             /\ upd'[p].base = tasks[t].task /\ upd'[p].version = tasks[t].version
    <3>1. t \in issued /\ streams[t].file = "intact" /\ tasks[t].version >= 1
      BY <1>1, <2>2 DEF TasksInv, ObjectsInv, Shaped
    <3>. QED
      BY <1>1, <2>2, <3>1 DEF Changes, NoPut
  <2>. QED
    BY <2>1, <2>2 DEF Opens
<1>5. \A q \in Procs : upd[q].phase \in {"append", "save"} /\ upd[q].task = t => t \in issued
  BY <1>1 DEF ProcsInv, WorkInv
<1>6. ASSUME NEW q \in Procs
      PROVE  WorkInv(q)'
  <2>1. CASE q = p
    <3>1. ~(Creates(upd'[p]) /\ Changes(upd'[p]))
      BY DEF Creates, Changes
    <3>2. Creates(upd'[p]) =>
            \A r \in Procs : upd'[r].phase \in {"append", "save"} /\ upd'[r].task = t => r = p
      BY <1>3, <1>4, <1>5, <3>1
    <3>. QED
      BY <1>1, <1>3, <1>4, <2>1, <3>1, <3>2 DEF WorkInv, NoPut, Creates, Changes
  <2>2. CASE q # p
    <3>1. WorkInv(q) /\ upd'[q] = upd[q] /\ call'[q] = call[q]
      BY <1>1, <1>3, <2>2 DEF ProcsInv
    <3>2. Creates(upd[q]) /\ Unsaved(q) /\ upd[q].phase \in {"append", "save"} => upd[q].task # t
      BY <1>4, <1>5, <3>1 DEF WorkInv
    <3>. QED
      BY <1>1, <1>3, <3>1, <3>2 DEF WorkInv, NoPut, Unsaved, Creates, Changes
  <2>. QED
    BY <2>1, <2>2
<1>7. ASSUME NEW q \in Procs
      PROVE  SavedInv(q)' /\ CallShape(q)'
  <2>1. CASE q = p
    BY <1>3, <2>1 DEF SavedInv, SavedBy, CallShape
  <2>2. CASE q # p
    BY <1>1, <1>3, <2>2 DEF NoPut, ProcsInv, SavedInv, SavedBy, CallShape, Shaped
  <2>. QED
    BY <2>1, <2>2
<1>. QED
  BY <1>2, <1>6, <1>7 DEF ProcsInv


\* What a put of the stream does to the stream of t.
LEMMA StreamPutEffect ==
  ASSUME S3Inv, NEW p \in Procs, PutsStream(p), NEW t \in Tasks, t = upd[p].task
  PROVE  /\ streams'[t].file = "intact"
         /\ streams'[t].events = Append(call[p].stream.events, upd[p].event)
         /\ streams'[t].version = call[p].stream.version + 1
         /\ \A s \in Tasks : s # t => streams'[s] = streams[s]
         /\ call[p].stream.events \in Seq(Event) /\ upd[p].event \in Event
         /\ Shaped(call[p].stream) /\ call[p].stream.version = upd[p].version
         /\ upd[p].version \in Nat
         /\ t \in issued
<1>1. streams \in [Tasks -> StreamFile] /\ call[p] \in Call /\ upd[p] \in Update
  BY DEF S3Inv, S3TypeOK, TypeOK, StorageTypeOK
<1>2. upd[p].event \in Event /\ t \in issued
  BY WorkEvent DEF PutsStream, S3Inv, WorkInv
<1>3. Shaped(call[p].stream) /\ call[p].stream.version = upd[p].version
  BY DEF PutsStream, S3Inv, CallShape
<1>4. streams' = PutStream(p)
  BY DEF PutsStream, StreamPut
<1>. QED
  BY <1>1, <1>2, <1>3, <1>4 DEF PutStream, Call, StreamFile, Update

\* One more event keeps the shape of a stream object.
LEMMA ShapedAppend ==
  ASSUME NEW f, NEW g, Shaped(f), f.events \in Seq(Event), NEW u \in Update, u.event \in Event,
         Creates(u) \/ Changes(u), f.version = u.version,
         g.file = "intact", g.events = Append(f.events, u.event), g.version = f.version + 1
  PROVE  Shaped(g)
<1>1. PICK es \in Seq(Event), new \in Seq(Event) :
        /\ es = f.events /\ new = g.events /\ Len(new) = Len(es) + 1
        /\ \A i \in 1 .. Len(es) : new[i] = es[i]
        /\ new[Len(es) + 1] = u.event
  <2>1. Append(f.events, u.event) \in Seq(Event) /\ Len(Append(f.events, u.event)) = Len(f.events) + 1
    OBVIOUS
  <2>2. \A i \in 1 .. Len(f.events) : Append(f.events, u.event)[i] = f.events[i]
    OBVIOUS
  <2>3. Append(f.events, u.event)[Len(f.events) + 1] = u.event
    OBVIOUS
  <2>. QED
    BY <2>1, <2>2, <2>3
<1>2. /\ Len(es) \in Nat /\ Len(es) = u.version /\ f.version = Len(es)
      /\ \A i \in 1 .. Len(es) : (es[i].kind = "task") <=> (i = 1)
  <2>1. Len(es) \in Nat
    OBVIOUS
  <2>2. es = f.events
    BY <1>1
  <2>3. f.version = Len(f.events) /\ \A i \in 1 .. Len(f.events) : (f.events[i].kind = "task") <=> (i = 1)
    BY DEF Shaped
  <2>. QED
    BY <2>1, <2>2, <2>3, Zenon
<1>3. \A i \in 1 .. Len(new) : i \in 1 .. Len(es) \/ i = Len(es) + 1
  BY <1>1, <1>2
<1>4. \A i \in 1 .. Len(new) : (new[i].kind = "task") <=> (i = 1)
  <2>1. CASE Creates(u)
    <3>1. Len(new) = 1 /\ new[1] = u.event /\ u.event.kind = "task"
      BY <1>1, <1>2, <2>1 DEF Creates
    <3>. QED
      BY <3>1
  <2>2. CASE Changes(u)
    <3>1. u.event.kind # "task" /\ Len(es) >= 1
      BY <1>2, <2>2 DEF Changes, Updates
    <3>. QED
      BY <1>1, <1>2, <1>3, <3>1
  <2>. QED
    BY <2>1, <2>2
<1>. QED
  BY <1>1, <1>2, <1>4 DEF Shaped

\* The stream is put.
LEMMA StreamPutBase ==
  ASSUME S3Inv, S3TypeOK', NEW p \in Procs, PutsStream(p)
  PROVE  TasksInv' /\ ProcsInv'
<1>0. PICK t \in Tasks : t = upd[p].task
  BY WorkEvent DEF PutsStream
<1>1. TasksInv /\ ProcsInv /\ upd[p].phase = "append" /\ UNCHANGED <<tasks, issued, index>>
  BY DEF PutsStream, S3Inv, TasksInv, ProcsInv
<1>2. /\ streams'[t].file = "intact" /\ t \in issued
      /\ \A s \in Tasks : s # t => streams'[s] = streams[s]
  BY <1>0, StreamPutEffect
<1>3. Shaped(streams'[t])
  <2>1. Creates(upd[p]) \/ Changes(upd[p])
    BY <1>1 DEF ProcsInv, WorkInv
  <2>2. upd[p] \in Update
    BY DEF S3Inv, S3TypeOK, TypeOK
  <2>3. /\ streams'[t].file = "intact"
        /\ streams'[t].events = Append(call[p].stream.events, upd[p].event)
        /\ streams'[t].version = call[p].stream.version + 1
        /\ call[p].stream.events \in Seq(Event) /\ upd[p].event \in Event
        /\ Shaped(call[p].stream) /\ call[p].stream.version = upd[p].version
    BY <1>0, StreamPutEffect
  <2>. QED
    BY <2>1, <2>2, <2>3, ShapedAppend, Zenon
<1>4. TasksInv'
  BY <1>1, <1>2, <1>3 DEF TasksInv, ObjectsInv, Shaped
<1>5. /\ call'[p].at = "none"
      /\ \/ upd'[p] = [upd[p] EXCEPT !.phase = "save"]
         \/ upd'[p].phase = "done" /\ upd'[p].ok = FALSE
      /\ \A q \in Procs : q # p => upd'[q] = upd[q] /\ call'[q] = call[q]
  BY DEF PutsStream, OthersSame
<1>6. /\ upd'[p].phase = "save" =>
           /\ upd'[p].task = t /\ upd'[p].event = upd[p].event /\ upd'[p].version = upd[p].version
           /\ upd'[p].base = upd[p].base
      /\ upd'[p].phase \in {"save", "done"} /\ (upd'[p].phase = "done" => upd'[p].ok = FALSE)
  BY <1>0, <1>5 DEF S3Inv, S3TypeOK, TypeOK, Update
<1>7. ASSUME NEW q \in Procs
      PROVE  WorkInv(q)'
  <2>1. CASE q = p /\ upd'[p].phase = "save"
    <3>1. WorkInv(p)
      BY <1>1 DEF ProcsInv
    <3>2. \A r \in Procs : upd'[r].phase \in {"append", "save"} /\ upd'[r].task = t =>
                             upd[r].phase \in {"append", "save"} /\ upd[r].task = t
      BY <1>0, <1>1, <1>5, <1>6
    <3>. QED
      BY <1>0, <1>1, <1>2, <1>5, <1>6, <2>1, <3>1, <3>2 DEF WorkInv, Creates, Changes, Unsaved
  <2>2. CASE q # p
    <3>. SUFFICES ASSUME upd[q].phase \in {"append", "save"}
                  PROVE  WorkInv(q)'
      BY <1>5, <2>2 DEF WorkInv
    <3>1. WorkInv(q) /\ upd'[q] = upd[q] /\ call'[q] = call[q]
      BY <1>1, <1>5, <2>2 DEF ProcsInv
    <3>2. Creates(upd[q]) /\ Unsaved(q) => upd[q].task # t
      BY <1>0, <1>1, <2>2, <3>1 DEF WorkInv
    <3>3. upd[q].task \in Tasks /\ (streams[upd[q].task].file = "intact" => streams'[upd[q].task].file = "intact")
      BY <1>2, <3>1 DEF WorkInv
    <3>4. upd[q].phase = "append" => Unsaved(q)
      BY DEF Unsaved
    <3>. QED
      BY <1>0, <1>1, <1>2, <1>5, <1>6, <3>1, <3>2, <3>3, <3>4 DEF WorkInv, Creates, Changes, Unsaved
  <2>. QED
    BY <1>6, <2>1, <2>2 DEF WorkInv
<1>8. ASSUME NEW q \in Procs
      PROVE  SavedInv(q)' /\ CallShape(q)'
  <2>1. CASE q = p
    BY <1>5, <1>6, <2>1 DEF SavedInv, SavedBy, CallShape
  <2>2. CASE q # p
    BY <1>1, <1>2, <1>5, <2>2 DEF ProcsInv, SavedInv, SavedBy, CallShape, Shaped
  <2>. QED
    BY <2>1, <2>2
<1>. QED
  BY <1>4, <1>7, <1>8 DEF ProcsInv

\* The snapshot is put.
LEMMA SnapshotPutBase ==
  ASSUME S3Inv, S3TypeOK', NEW p \in Procs, PutsSnapshot(p)
  PROVE  TasksInv' /\ ProcsInv'
<1>0. PICK t \in Tasks : t = upd[p].task
  BY WorkEvent DEF PutsSnapshot
<1>1. TasksInv /\ ProcsInv /\ upd[p].phase = "save" /\ UNCHANGED <<streams, issued, index>>
  BY DEF PutsSnapshot, S3Inv, TasksInv, ProcsInv
<1>2. /\ tasks'[t].file = "intact" /\ tasks'[t].version = upd[p].version + 1
      /\ \A s \in Tasks : s # t => tasks'[s] = tasks[s]
      /\ upd[p].version \in Nat
  BY <1>0 DEF PutsSnapshot, SnapshotPut, SavedTask, SavedVersion, S3Inv, S3TypeOK, TypeOK, StorageTypeOK, Update
<1>3. streams[t].file = "intact" /\ t \in issued
  BY <1>0, <1>1 DEF ProcsInv, WorkInv
<1>4. TasksInv'
  <2>1. tasks'[t].version >= 1
    BY <1>2
  <2>. QED
    BY <1>1, <1>2, <1>3, <2>1 DEF TasksInv, ObjectsInv, Shaped
<1>5. /\ \/ upd'[p] = upd[p] /\ call'[p].at = "index"
         \/ upd'[p].phase = "done" /\ upd'[p].ok = FALSE /\ call'[p].at = "none"
      /\ \A q \in Procs : q # p => upd'[q] = upd[q] /\ call'[q] = call[q]
  BY DEF PutsSnapshot, OthersSame
<1>6. ASSUME NEW q \in Procs
      PROVE  WorkInv(q)'
  <2>1. CASE q = p
    BY <1>0, <1>1, <1>2, <1>3, <1>5, <2>1 DEF ProcsInv, WorkInv, Unsaved
  <2>2. CASE q # p
    <3>. SUFFICES ASSUME upd[q].phase \in {"append", "save"}
                  PROVE  WorkInv(q)'
      BY <1>5, <2>2 DEF WorkInv
    <3>1. WorkInv(q) /\ upd'[q] = upd[q] /\ call'[q] = call[q]
      BY <1>1, <1>5, <2>2 DEF ProcsInv
    <3>2. Creates(upd[q]) /\ Unsaved(q) => upd[q].task # t
      BY <1>0, <1>1, <2>2, <3>1 DEF WorkInv
    <3>3. upd[q].task \in Tasks /\ (tasks[upd[q].task].file = "intact" => tasks'[upd[q].task].file = "intact")
      BY <1>2, <3>1 DEF WorkInv
    <3>. QED
      BY <1>0, <1>1, <1>2, <1>5, <3>1, <3>2, <3>3 DEF WorkInv, Unsaved
  <2>. QED
    BY <2>1, <2>2
<1>7. ASSUME NEW q \in Procs
      PROVE  SavedInv(q)' /\ CallShape(q)'
  <2>1. CASE q = p
    BY <1>1, <1>5, <2>1 DEF SavedInv, SavedBy, CallShape
  <2>2. CASE q # p
    BY <1>1, <1>2, <1>5, <2>2 DEF ProcsInv, SavedInv, SavedBy, CallShape, Shaped
  <2>. QED
    BY <2>1, <2>2
<1>. QED
  BY <1>4, <1>6, <1>7 DEF ProcsInv


-----------------------------------------------------------------------------
(* What holds of an unraced task is kept. *)

\* A task none of whose objects changes, when no update of it starts.
LEMMA UntouchedUnraced ==
  ASSUME S3Inv, NEW s \in Tasks, raced \subseteq raced',
         tasks'[s] = tasks[s], streams'[s] = streams[s],
         \A q \in Procs :
           /\ upd'[q].task = s /\ upd'[q].phase = "append" => upd'[q] = upd[q]
           /\ Commits(q, s)' => upd'[q] = upd[q] /\ Commits(q, s)
  PROVE  UnracedInv(s)'
<1>. SUFFICES ASSUME s \notin raced
              PROVE  InStepInv(s)' /\ \A q \in Procs : AppendInv(q, s)' /\ CommitInv(q, s)'
  BY DEF UnracedInv
<1>1. InStepInv(s) /\ \A q \in Procs : AppendInv(q, s) /\ CommitInv(q, s)
  BY DEF S3Inv, UnracedInv
<1>2. InStepInv(s)'
  BY <1>1 DEF InStepInv, CanceledWithin
<1>3. ASSUME NEW q \in Procs
      PROVE  AppendInv(q, s)'
  BY <1>1 DEF AppendInv, Ahead, Changes
<1>4. ASSUME NEW q \in Procs
      PROVE  CommitInv(q, s)'
  <2>. SUFFICES ASSUME Commits(q, s)'
                PROVE  CommitInv(q, s)'
    BY DEF CommitInv
  <2>1. upd'[q] = upd[q] /\ Commits(q, s) /\ CommitInv(q, s)
    BY <1>1
  <2>2. \A r \in Procs : Commits(r, s)' => r = q
    BY <2>1 DEF CommitInv
  <2>. QED
    BY <2>1, <2>2 DEF CommitInv, Creates
<1>. QED
  BY <1>2, <1>3, <1>4

\* Steps without a put.
LEMMA NoPutUnraced ==
  ASSUME S3Inv, NEW p \in Procs, GivesUp(p) \/ Gets(p) \/ Stores(p), NEW s \in Tasks
  PROVE  UnracedInv(s)'
<1>1. NoPut(p)
  BY DEF GivesUp, Gets, Stores
<1>2. \A q \in Procs : q # p => upd'[q] = upd[q] /\ call'[q] = call[q]
  BY <1>1 DEF NoPut, OthersSame
<1>3. upd'[p].phase \in {"append", "save"} => Gets(p)
  BY DEF GivesUp, Stores
<1>4. \A q \in Procs :
        /\ upd'[q].task = s /\ upd'[q].phase = "append" => upd'[q] = upd[q]
        /\ Commits(q, s)' => upd'[q] = upd[q] /\ Commits(q, s)
  BY <1>2, <1>3 DEF Commits, Gets
<1>. QED
  BY <1>1, <1>4, UntouchedUnraced DEF NoPut

\* An update starts.
LEMMA OpensUnraced ==
  ASSUME S3Inv, S3TypeOK', NEW p \in Procs, NEW t \in Tasks, Opens(p, t), NEW s \in Tasks
  PROVE  UnracedInv(s)'
<1>1. /\ UNCHANGED <<tasks, streams, raced>>
      /\ upd'[p].phase = "append" /\ upd'[p].task = t
      /\ \A q \in Procs : q # p => upd'[q] = upd[q] /\ call'[q] = call[q]
  BY DEF Opens, NoPut, OthersSame
<1>2. CASE s # t
  <2>1. \A q \in Procs :
          /\ upd'[q].task = s /\ upd'[q].phase = "append" => upd'[q] = upd[q]
          /\ Commits(q, s)' => upd'[q] = upd[q] /\ Commits(q, s)
    BY <1>1, <1>2 DEF Commits
  <2>. QED
    BY <1>1, <2>1, UntouchedUnraced
<1>3. CASE s = t
  <2>. SUFFICES ASSUME t \notin raced
                PROVE  InStepInv(t)' /\ \A q \in Procs : AppendInv(q, t)' /\ CommitInv(q, t)'
    BY <1>1, <1>3 DEF UnracedInv
  <2>1. InStepInv(t) /\ \A q \in Procs : AppendInv(q, t) /\ CommitInv(q, t)
    BY DEF S3Inv, UnracedInv
  <2>2. InStepInv(t)'
    BY <1>1, <2>1 DEF InStepInv, CanceledWithin
  <2>3. AppendInv(p, t)'
    <3>. SUFFICES ASSUME Changes(upd'[p])
                  PROVE  AppendInv(p, t)'
      BY DEF AppendInv
    <3>1. /\ tasks[t].file = "intact" /\ upd'[p].base = tasks[t].task
          /\ upd'[p].version = tasks[t].version
      BY DEF Opens, Creates, Changes
    <3>2. streams[t].file = "intact"
      BY <3>1 DEF S3Inv, ObjectsInv, Shaped
    <3>3. /\ tasks[t].version \in {Len(streams[t].events) - 1, Len(streams[t].events)}
          /\ Len(streams[t].events) \in Nat
      BY <2>1, <3>1, <3>2 DEF InStepInv, S3Inv, S3TypeOK, TypeOK, StorageTypeOK, StreamFile
    <3>4. /\ tasks[t].version <= Len(streams[t].events)
          /\ Ahead(t) => tasks[t].version < Len(streams[t].events)
      BY <3>1, <3>3 DEF Ahead
    <3>. QED
      BY <1>1, <3>1, <3>4 DEF AppendInv, Ahead
  <2>4. ASSUME NEW q \in Procs, q # p
        PROVE  AppendInv(q, t)'
    BY <1>1, <2>1, <2>4 DEF AppendInv, Ahead, Changes
  <2>5. ASSUME NEW q \in Procs
        PROVE  CommitInv(q, t)'
    <3>1. \A r \in Procs : Commits(r, t)' => upd'[r] = upd[r] /\ Commits(r, t)
      BY <1>1 DEF Commits
    <3>. SUFFICES ASSUME Commits(q, t)'
                  PROVE  CommitInv(q, t)'
      BY DEF CommitInv
    <3>2. upd'[q] = upd[q] /\ Commits(q, t) /\ CommitInv(q, t)
      BY <2>1, <3>1
    <3>3. \A r \in Procs : Commits(r, t)' => r = q
      BY <3>1, <3>2 DEF CommitInv
    <3>. QED
      BY <1>1, <3>2, <3>3 DEF CommitInv, Creates
  <2>. QED
    BY <2>2, <2>3, <2>4, <2>5
<1>. QED
  BY <1>2, <1>3

\* A put over the stream that was read: the snapshot is in step, and nobody else commits.
LEMMA UnracedPut ==
  ASSUME S3Inv, NEW p \in Procs, PutsStream(p), NEW t \in Tasks, t = upd[p].task, t \notin raced'
  PROVE  /\ t \notin raced /\ call[p].stream = streams[t]
         /\ Len(streams[t].events) = upd[p].version /\ upd[p].version \in Nat
         /\ streams[t].events \in Seq(Event)
         /\ \/ Creates(upd[p]) /\ tasks[t].file = "absent" /\ streams[t].events = <<>>
            \/ /\ Changes(upd[p]) /\ tasks[t].file = "intact" /\ streams[t].file = "intact"
               /\ tasks[t].version = upd[p].version /\ upd[p].base = tasks[t].task
         /\ \A q \in Procs : ~Commits(q, t)
<1>1. t \notin raced /\ call[p].stream = streams[t]
  BY DEF PutsStream, StreamPut, RacedBy
<1>2. /\ Len(streams[t].events) = upd[p].version /\ upd[p].version \in Nat
      /\ streams[t].events \in Seq(Event)
  BY <1>1, StreamPutEffect DEF Shaped
<1>3. upd[p].phase = "append" /\ WorkInv(p) /\ AppendInv(p, t) /\ Unsaved(p) /\ ObjectsInv(t)
  BY <1>1 DEF PutsStream, S3Inv, UnracedInv, Unsaved
<1>4. CASE Creates(upd[p])
  <2>1. tasks[t].file = "absent" /\ streams[t].file = "absent"
    BY <1>3, <1>4 DEF WorkInv
  <2>2. streams[t].events = <<>>
    BY <1>3, <2>1 DEF ObjectsInv, Shaped
  <2>3. \A q \in Procs : ~Commits(q, t)
    BY <1>3, <1>4 DEF WorkInv, Commits
  <2>. QED
    BY <1>1, <1>2, <1>4, <2>1, <2>2, <2>3
<1>5. CASE Changes(upd[p]) /\ streams[t].file = "intact"
  <2>1. ~Ahead(t)
    BY <1>2, <1>3, <1>5 DEF AppendInv
  <2>2. tasks[t].file = "intact" /\ tasks[t].version = upd[p].version
    BY <1>2, <1>5, <2>1 DEF Ahead
  <2>3. upd[p].base = tasks[t].task
    BY <1>3, <1>5, <2>2 DEF AppendInv
  <2>4. ASSUME NEW q \in Procs, Commits(q, t)
        PROVE  FALSE
    <3>1. CommitInv(q, t) /\ WorkInv(q) /\ Unsaved(q) /\ upd[q].version \in Nat
      BY <1>1, <2>4 DEF S3Inv, UnracedInv, Commits, Unsaved, S3TypeOK, TypeOK, Update
    <3>2. ~Creates(upd[q])
      BY <2>2, <2>4, <3>1 DEF WorkInv, Commits
    <3>3. tasks[t].version = upd[q].version /\ Len(streams[t].events) = upd[q].version + 1
      BY <2>4, <3>1, <3>2 DEF CommitInv
    <3>. QED
      BY <1>2, <2>2, <3>1, <3>3
  <2>. QED
    BY <1>1, <1>2, <1>5, <2>2, <2>3, <2>4
<1>. QED
  BY <1>3, <1>4, <1>5 DEF WorkInv


\* The stream is put.
LEMMA StreamPutUnraced ==
  ASSUME S3Inv, S3TypeOK', NEW p \in Procs, PutsStream(p), NEW s \in Tasks
  PROVE  UnracedInv(s)'
<1>0. PICK t \in Tasks : t = upd[p].task
  BY WorkEvent DEF PutsStream
<1>1. /\ upd[p].phase = "append" /\ UNCHANGED tasks /\ raced \subseteq raced'
      /\ call'[p].at = "none"
      /\ \A q \in Procs : q # p => upd'[q] = upd[q] /\ call'[q] = call[q]
  BY DEF PutsStream, OthersSame, StreamPut, RacedBy
<1>2. /\ upd'[p].phase = "save" =>
           /\ upd'[p].task = t /\ upd'[p].event = upd[p].event /\ upd'[p].version = upd[p].version
           /\ upd'[p].base = upd[p].base
      /\ upd'[p].phase \in {"save", "done"}
  BY <1>0 DEF PutsStream, S3Inv, S3TypeOK, TypeOK, Update
<1>3. \A r \in Tasks : r # t => streams'[r] = streams[r]
  BY <1>0, StreamPutEffect
<1>4. CASE s # t
  <2>1. \A q \in Procs :
          /\ upd'[q].task = s /\ upd'[q].phase = "append" => upd'[q] = upd[q]
          /\ Commits(q, s)' => upd'[q] = upd[q] /\ Commits(q, s)
    BY <1>1, <1>2, <1>4 DEF Commits
  <2>. QED
    BY <1>1, <1>3, <1>4, <2>1, UntouchedUnraced
<1>5. CASE s = t
  <2>. SUFFICES ASSUME t \notin raced'
                PROVE  InStepInv(t)' /\ \A q \in Procs : AppendInv(q, t)' /\ CommitInv(q, t)'
    BY <1>5 DEF UnracedInv
  <2>. DEFINE u == upd[p]
              es == streams[t].events
  <2>1. /\ t \notin raced /\ call[p].stream = streams[t]
        /\ Len(es) = u.version /\ u.version \in Nat /\ es \in Seq(Event)
        /\ \/ Creates(u) /\ tasks[t].file = "absent" /\ es = <<>>
           \/ /\ Changes(u) /\ tasks[t].file = "intact" /\ streams[t].file = "intact"
              /\ tasks[t].version = u.version /\ u.base = tasks[t].task
        /\ \A q \in Procs : ~Commits(q, t)
    BY <1>0, UnracedPut
  <2>2. PICK new \in Seq(Event) :
          /\ new = streams'[t].events /\ Len(new) = Len(es) + 1
          /\ \A i \in 1 .. Len(es) : new[i] = es[i]
          /\ new[Len(es) + 1] = u.event
    <3>1. streams'[t].events = Append(es, u.event) /\ u.event \in Event
      BY <1>0, <2>1, StreamPutEffect
    <3>2. Append(es, u.event) \in Seq(Event) /\ Len(Append(es, u.event)) = Len(es) + 1
      BY <2>1, <3>1
    <3>3. \A i \in 1 .. Len(es) : Append(es, u.event)[i] = es[i]
      BY <2>1, <3>1
    <3>4. Append(es, u.event)[Len(es) + 1] = u.event
      BY <2>1, <3>1
    <3>. QED
      BY <3>1, <3>2, <3>3, <3>4
  <2>3. InStepInv(t)'
    <3>1. CASE tasks[t].file = "absent"
      BY <1>1, <3>1 DEF InStepInv
    <3>2. CASE tasks[t].file = "intact" /\ streams[t].file = "intact" /\ tasks[t].version = u.version
      <4>1. CanceledWithin(new, u.version) => CanceledWithin(es, u.version)
        BY <2>1, <2>2 DEF CanceledWithin
      <4>2. CanceledWithin(es, u.version) => tasks[t].task.state = "canceled"
        BY <2>1, <3>2 DEF S3Inv, UnracedInv, InStepInv
      <4>3. tasks'[t].version = u.version /\ streams'[t].events = new /\ tasks'[t] = tasks[t]
        BY <1>1, <2>2, <3>2
      <4>4. CanceledWithin(streams[t].events, tasks[t].version)' => tasks'[t].task.state = "canceled"
        BY <4>1, <4>2, <4>3 DEF CanceledWithin
      <4>5. u.version = Len(new) - 1
        BY <2>1, <2>2
      <4>. QED
        BY <4>3, <4>4, <4>5 DEF InStepInv
    <3>. QED
      BY <2>1, <3>1, <3>2
  <2>4. ASSUME NEW q \in Procs
        PROVE  AppendInv(q, t)'
    <3>. SUFFICES ASSUME upd'[q].phase = "append", upd'[q].task = t, Changes(upd'[q])
                  PROVE  AppendInv(q, t)'
      BY DEF AppendInv
    <3>1. q # p /\ upd'[q] = upd[q] /\ AppendInv(q, t) /\ upd[q].version \in Nat
      BY <1>1, <1>2, <2>1 DEF S3Inv, UnracedInv, S3TypeOK, TypeOK, Update
    <3>2. /\ upd[q].version <= Len(es)
          /\ tasks[t].file = "intact" /\ tasks[t].version = upd[q].version =>
               upd[q].base = tasks[t].task
      BY <3>1 DEF AppendInv
    <3>3. upd[q].version <= Len(new) /\ upd[q].version < Len(new)
      BY <2>1, <2>2, <3>1, <3>2
    <3>. QED
      BY <1>1, <2>2, <3>1, <3>2, <3>3 DEF AppendInv
  <2>5. ASSUME NEW q \in Procs
        PROVE  CommitInv(q, t)'
    <3>. SUFFICES ASSUME Commits(q, t)'
                  PROVE  CommitInv(q, t)'
      BY DEF CommitInv
    <3>1. \A r \in Procs : Commits(r, t)' => r = p
      BY <1>1, <2>1 DEF Commits
    <3>2. q = p /\ upd'[p].phase = "save"
      BY <3>1 DEF Commits
    <3>3. Len(new) = u.version + 1 /\ new[u.version + 1] = u.event
      BY <2>1, <2>2
    <3>4. \/ Creates(upd'[p])
          \/ /\ tasks'[t].file = "intact" /\ tasks'[t].version = upd'[p].version
             /\ upd'[p].base = tasks'[t].task
      BY <1>1, <1>2, <2>1, <3>2 DEF Creates
    <3>. QED
      BY <1>2, <2>2, <3>1, <3>2, <3>3, <3>4 DEF CommitInv
  <2>. QED
    BY <2>3, <2>4, <2>5
<1>. QED
  BY <1>4, <1>5

\* The snapshot is put.
LEMMA SnapshotPutUnraced ==
  ASSUME S3Inv, S3TypeOK', NEW p \in Procs, PutsSnapshot(p), NEW s \in Tasks
  PROVE  UnracedInv(s)'
<1>0. PICK t \in Tasks : t = upd[p].task
  BY WorkEvent DEF PutsSnapshot
<1>1. /\ Commits(p, t) /\ UNCHANGED streams /\ raced \subseteq raced'
      /\ \/ upd'[p] = upd[p] /\ call'[p].at = "index"
         \/ upd'[p].phase = "done"
      /\ \A q \in Procs : q # p => upd'[q] = upd[q] /\ call'[q] = call[q]
  BY <1>0 DEF PutsSnapshot, OthersSame, SnapshotPut, RacedBy, Commits
<1>2. \A q \in Procs :
         /\ upd'[q].phase = "append" => q # p /\ upd'[q] = upd[q]
         /\ \A r \in Tasks : Commits(q, r)' => q # p /\ upd'[q] = upd[q] /\ Commits(q, r)
  BY <1>1 DEF Commits
<1>. DEFINE u == upd[p]
            es == streams[t].events
            saved == ApplyEvent(u.base, u.event)
<1>3. /\ tasks'[t] = [file |-> "intact", task |-> saved, version |-> u.version + 1]
      /\ \A r \in Tasks : r # t => tasks'[r] = tasks[r]
  BY <1>0 DEF PutsSnapshot, SnapshotPut, SavedTask, SavedVersion, S3Inv, S3TypeOK, TypeOK, StorageTypeOK
<1>4. CASE s # t
  BY <1>1, <1>2, <1>3, <1>4, UntouchedUnraced
<1>5. CASE s = t
  <2>. SUFFICES ASSUME t \notin raced
                PROVE  InStepInv(t)' /\ \A q \in Procs : AppendInv(q, t)' /\ CommitInv(q, t)'
    BY <1>1, <1>5 DEF UnracedInv
  <2>1. /\ Len(es) = u.version + 1 /\ es[u.version + 1] = u.event
        /\ \/ Creates(u)
           \/ tasks[t].file = "intact" /\ tasks[t].version = u.version /\ u.base = tasks[t].task
        /\ \A q \in Procs : Commits(q, t) => q = p
    BY <1>1 DEF S3Inv, UnracedInv, CommitInv
  <2>2. /\ u.version \in Nat /\ u.base \in TaskValue /\ streams[t].file = "intact"
        /\ Creates(u) \/ Changes(u)
        /\ Creates(u) => tasks[t].file = "absent"
    <3>1. WorkInv(p) /\ Unsaved(p) /\ u \in Update /\ u.phase = "save" /\ u.task = t
      BY <1>0, <1>1 DEF S3Inv, S3TypeOK, TypeOK, Commits, Unsaved
    <3>. QED
      BY <3>1 DEF WorkInv, Update
  <2>3. Ahead(t)
    BY <2>1, <2>2 DEF Ahead
  <2>4. InStepInv(t)'
    <3>1. CanceledWithin(es, u.version + 1) => saved.state = "canceled"
      <4>1. CASE Creates(u)
        <5>1. ~CanceledWithin(es, u.version + 1)
          BY <2>1, <4>1 DEF Creates, CanceledWithin
        <5>. QED
          BY <5>1
      <4>2. CASE Changes(u) /\ ~Creates(u)
        <5>1. u.event \in Updates /\ ~Refused(u.base, u.event)
          BY <4>2 DEF Changes
        <5>2. CanceledWithin(es, u.version) => u.base.state = "canceled"
          BY <2>1, <2>2, <4>2 DEF S3Inv, UnracedInv, InStepInv
        <5>. QED
          BY <2>1, <2>2, <5>1, <5>2, CanceledAfter
      <4>. QED
        BY <2>2, <4>1, <4>2
    <3>2. tasks'[t].version = u.version + 1 /\ tasks'[t].task = saved /\ streams'[t].events = es
      BY <1>1, <1>3
    <3>3. CanceledWithin(streams[t].events, tasks[t].version)' => tasks'[t].task.state = "canceled"
      BY <3>1, <3>2 DEF CanceledWithin
    <3>. QED
      BY <2>1, <3>2, <3>3 DEF InStepInv
  <2>5. ASSUME NEW q \in Procs
        PROVE  AppendInv(q, t)'
    <3>. SUFFICES ASSUME upd'[q].phase = "append", upd'[q].task = t, Changes(upd'[q])
                  PROVE  AppendInv(q, t)'
      BY DEF AppendInv
    <3>1. upd'[q] = upd[q] /\ AppendInv(q, t) /\ upd[q].version \in Nat
      BY <1>2 DEF S3Inv, UnracedInv, S3TypeOK, TypeOK, Update
    <3>2. upd[q].version < Len(es) /\ upd[q].version <= Len(es)
      BY <2>3, <3>1 DEF AppendInv
    <3>3. tasks'[t].version # upd[q].version
      BY <1>3, <2>1, <2>2, <3>1, <3>2
    <3>. QED
      BY <1>1, <3>1, <3>2, <3>3 DEF AppendInv
  <2>6. ASSUME NEW q \in Procs
        PROVE  CommitInv(q, t)'
    BY <1>2, <2>1 DEF CommitInv
  <2>. QED
    BY <2>4, <2>5, <2>6
<1>. QED
  BY <1>4, <1>5

-----------------------------------------------------------------------------
(* The store. *)

(***************************************************************************)
(* The inductive invariant of the update protocol on S3Storage             *)
(* (awsadp/s3_storage.go): the shape of every object, what every goroutine *)
(* has read and put, and, for the tasks whose objects were never put over  *)
(* a newer one, the argument of the file store.                            *)
(***************************************************************************)
THEOREM S3Invariant == S3Spec => []S3Inv
<1>1. S3Init => S3Inv
  <2>. SUFFICES ASSUME S3Init
                PROVE  S3Inv
    OBVIOUS
  <2>. USE DEF S3Init, Init, StorageInit
  <2>1. TypeOK
    BY InitInv
  <2>2. NoCall \in Call
    BY StartTypes DEF NoCall, Call
  <2>3. S3TypeOK
    BY <2>1, <2>2 DEF S3TypeOK
  <2>4. \A t \in Tasks : ObjectsInv(t)
    BY DEF ObjectsInv, Shaped, NoStream, NoSnapshot
  <2>5. \A p \in Procs : CallShape(p) /\ WorkInv(p) /\ SavedInv(p)
    BY DEF CallShape, WorkInv, SavedInv, SavedBy, IdleUpdate, NoCall
  <2>6. \A t \in Tasks : UnracedInv(t)
    BY DEF UnracedInv, InStepInv, AppendInv, CommitInv, Commits, IdleUpdate, NoStream, NoSnapshot
  <2>. QED
    BY <2>3, <2>4, <2>5, <2>6 DEF S3Inv
<1>2. S3Inv /\ [S3Next]_s3Vars => S3Inv'
  <2>. SUFFICES ASSUME S3Inv, [S3Next]_s3Vars
                PROVE  S3Inv'
    OBVIOUS
  <2>1. S3TypeOK'
    BY S3TypeStep
  <2>2. TasksInv' /\ ProcsInv' /\ \A s \in Tasks : UnracedInv(s)'
    <3>1. CASE Still
      <4>1. TasksInv' /\ ProcsInv'
        BY <3>1 DEF Still, S3Inv, TasksInv, ProcsInv, ObjectsInv, Shaped, CallShape, WorkInv, Unsaved,
                    SavedInv, SavedBy
      <4>2. \A s \in Tasks : UnracedInv(s)'
        BY <3>1, UntouchedUnraced DEF Still, Commits
      <4>. QED
        BY <4>1, <4>2
    <3>2. ASSUME NEW p \in Procs, GivesUp(p) \/ Gets(p) \/ Stores(p)
          PROVE  TasksInv' /\ ProcsInv' /\ \A s \in Tasks : UnracedInv(s)'
      BY <2>1, <3>2, NoPutBase, NoPutUnraced
    <3>3. ASSUME NEW p \in Procs, PutsStream(p)
          PROVE  TasksInv' /\ ProcsInv' /\ \A s \in Tasks : UnracedInv(s)'
      BY <2>1, <3>3, StreamPutBase, StreamPutUnraced
    <3>4. ASSUME NEW p \in Procs, PutsSnapshot(p)
          PROVE  TasksInv' /\ ProcsInv' /\ \A s \in Tasks : UnracedInv(s)'
      BY <2>1, <3>4, SnapshotPutBase, SnapshotPutUnraced
    <3>5. ASSUME NEW p \in Procs, NEW t \in Tasks, Opens(p, t)
          PROVE  TasksInv' /\ ProcsInv' /\ \A s \in Tasks : UnracedInv(s)'
      BY <2>1, <3>5, OpensBase, OpensUnraced
    <3>. QED
      BY <3>1, <3>2, <3>3, <3>4, <3>5, S3Forms DEF S3Inv
  <2>. QED
    BY <2>1, <2>2 DEF S3Inv, TasksInv, ProcsInv
<1>. QED
  BY <1>1, <1>2, PTL DEF S3Spec

(***************************************************************************)
(* A task whose update was reported as done has its stream, its snapshot   *)
(* and its entry in the index, although SaveTask puts the index last and   *)
(* other processes put their objects in between.                           *)
(***************************************************************************)
THEOREM ReportedIsListed == S3Spec => []UpdatedIsListed
<1>1. S3Inv => UpdatedIsListed
  BY DEF S3Inv, SavedInv, SavedBy, UpdatedIsListed, Updated
<1>. QED
  BY <1>1, S3Invariant, PTL

(***************************************************************************)
(* As long as no put lands on an object that changed after the get it was  *)
(* checked against, the version checks of Append and SaveTask keep stream  *)
(* and snapshot in step, whichever requests fail or lose their answer.     *)
(***************************************************************************)
THEOREM UnracedStaysInStep == S3Spec => []UnracedInStep
<1>1. S3Inv => UnracedInStep
  <2>. SUFFICES ASSUME S3Inv, NEW t \in Tasks \ raced, streams[t].file = "intact"
                PROVE  /\ streams[t].version = Len(streams[t].events)
                       /\ \A i \in 1 .. Len(streams[t].events) :
                            (streams[t].events[i].kind = "task") <=> (i = 1)
                       /\ tasks[t].file = "intact" =>
                            tasks[t].version \in
                              {Len(streams[t].events) - 1, Len(streams[t].events)} \ {0}
    BY DEF UnracedInStep
  <2>. QED
    BY DEF S3Inv, ObjectsInv, Shaped, UnracedInv, InStepInv
<1>. QED
  BY <1>1, S3Invariant, PTL

(***************************************************************************)
(* Every unraced change of the streams is a step of the ledger: one event  *)
(* is added, none disappears, and no status follows a cancellation.        *)
(***************************************************************************)
THEOREM UnracedStepsRecord == S3Spec => UnracedIsLedger
<1>1. S3Inv /\ [S3Next]_s3Vars => [raced' = {} => Ledger!Next]_<<streams>>
  <2>. SUFFICES ASSUME S3Inv, [S3Next]_s3Vars, streams' # streams, raced' = {}
                PROVE  Ledger!Next
    OBVIOUS
  <2>1. PICK p \in Procs : PutsStream(p)
    BY S3Forms DEF S3Inv, Still, GivesUp, Gets, Stores, Opens, NoPut, PutsSnapshot
  <2>2. PICK t \in Tasks : t = upd[p].task
    BY <2>1, WorkEvent DEF PutsStream
  <2>. DEFINE u == upd[p]
              es == streams[t].events
  <2>3. /\ t \notin raced /\ call[p].stream = streams[t]
        /\ Len(es) = u.version /\ u.version \in Nat /\ es \in Seq(Event)
        /\ \/ Creates(u) /\ tasks[t].file = "absent" /\ es = <<>>
           \/ /\ Changes(u) /\ tasks[t].file = "intact" /\ streams[t].file = "intact"
              /\ tasks[t].version = u.version /\ u.base = tasks[t].task
    BY <2>1, <2>2, UnracedPut
  <2>4. /\ streams'[t].file = "intact" /\ streams'[t].events = Append(es, u.event) /\ u.event \in Event
        /\ \A s \in Tasks : s # t => streams'[s] = streams[s]
    BY <2>1, <2>2, <2>3, StreamPutEffect
  <2>5. streams \in [Tasks -> StreamFile] /\ streams[t].file # "torn"
    BY DEF S3Inv, S3TypeOK, TypeOK, StorageTypeOK, ObjectsInv, Shaped
  <2>6. CASE Creates(u) /\ es = <<>>
    <3>1. u.event \in [kind : {"task"}, val : Messages]
      BY <2>6 DEF Creates
    <3>. QED
      BY <2>4, <2>5, <2>6, <3>1, LedgerTakes
  <2>7. CASE /\ Changes(u) /\ tasks[t].file = "intact" /\ streams[t].file = "intact"
             /\ tasks[t].version = u.version /\ u.base = tasks[t].task
    <3>1. u.event \in Updates /\ ~Refused(u.base, u.event) /\ u.version >= 1
      BY <2>7 DEF Changes
    <3>2. es # <<>>
      BY <2>3, <3>1
    <3>3. CanceledWithin(es, Len(es)) => u.base.state = "canceled"
      BY <2>3, <2>7 DEF S3Inv, UnracedInv, InStepInv
    <3>4. u.event.kind = "status" => ~CanceledWithin(es, Len(es))
      BY <3>1, <3>3 DEF Refused
    <3>. QED
      BY <2>4, <2>5, <3>1, <3>2, <3>4, LedgerTakes
  <2>. QED
    BY <2>3, <2>6, <2>7
<1>. QED
  BY <1>1, S3Invariant, PTL DEF S3Spec, UnracedIsLedger

-----------------------------------------------------------------------------
(* The files. *)

Bytes == (Handles \cup {"old"}) \X Nat

Objects == [exists : BOOLEAN, data : Seq(Bytes)]

HandleRecords ==
  [state : {"unopened", "open", "closed"}, flag : Flags, buffer : Seq(Bytes), dirty : BOOLEAN]

\* The types of the files' state.
FileTypeOK ==
  /\ object \in Objects /\ (~object.exists => object = Missing)
  /\ handle \in [Handles -> HandleRecords]
  /\ wrote \in [Handles -> Seq(Bytes)]
  /\ base \in [Handles -> Seq(Bytes)]
  /\ got \in [Handles -> Seq(Bytes)]
  /\ touched \subseteq Handles /\ flushed \subseteq Handles
  /\ putFails \in Nat

(***************************************************************************)
(* The buffer b of a handle that only read data, and read g: the end of    *)
(* data, with what was read before it, any number of times round.          *)
(***************************************************************************)
ReadSoFar(data, b, g) ==
  /\ Len(b) <= Len(data)
  /\ \A i \in 1 .. Len(b) : b[i] = data[Len(data) - Len(b) + i]
  /\ \A i \in 1 .. Len(g) : g[i] = data[((i - 1) % Len(data)) + 1]
  /\ g # <<>> => Len(data) # 0
  /\ Len(data) # 0 => (Len(g) + Len(b)) % Len(data) = 0

\* Of a handle: its record o, what was written w, what was read g, and what it has to store p.
WrittenSoFar(o, w, g, isFlushed, p) ==
  /\ o.state = "unopened" => o = Unopened /\ w = <<>> /\ g = <<>>
  /\ o.dirty => w # <<>>
  /\ o.state = "open" =>
       /\ w # <<>> /\ ~isFlushed => o.dirty
       /\ g = <<>> /\ w = <<>> => o.buffer = <<>>
       /\ g = <<>> /\ w # <<>> /\ ~(o.flag \in Truncating /\ isFlushed) => o.buffer = p

HandleInv(h) ==
  /\ WrittenSoFar(handle[h], wrote[h], got[h], h \in flushed, Prefixed(h))
  /\ wrote[h] # <<>> => h \in touched
  /\ handle[h].state # "unopened" /\ h \notin touched =>
       ReadSoFar(object.data, handle[h].buffer, got[h])

FileInv == FileTypeOK /\ \A h \in Handles : HandleInv(h)

-----------------------------------------------------------------------------
(* Arithmetic of going round. *)

\* A number is what is left over of the times it goes round.
LEMMA LeftOver ==
  ASSUME NEW L \in Nat \ {0}, NEW a \in Nat, NEW q \in Int, NEW r \in 0 .. L - 1, a = q * L + r
  PROVE  a % L = r
OBVIOUS

\* A number with nothing left over is a number of whole rounds.
LEMMA WholeRounds ==
  ASSUME NEW L \in Nat \ {0}, NEW a \in Nat, a % L = 0
  PROVE  \E q \in Int : a = q * L
<1>1. a = L * (a \div L) + (a % L) /\ a \div L \in Int
  OBVIOUS
<1>2. PICK q \in Int : q = a \div L
  BY <1>1
<1>3. a = L * q + 0
  BY <1>1, <1>2
<1> QED
  BY <1>3

\* From b before the end of a round.
Onward(a, b, L) == \A j \in 0 .. b - 1 : (a + j) % L = L - b + j

\* b before the end of a round, j more are at that place.
LEMMA GoingRound ==
  ASSUME NEW L \in Nat, L # 0, NEW a \in Nat, NEW b \in Nat, (a + b) % L = 0, b <= L
  PROVE  Onward(a, b, L)
<1> SUFFICES ASSUME NEW j \in 0 .. b - 1 PROVE (a + j) % L = L - b + j
  BY DEF Onward
<1>1. PICK q \in Int : a + b = q * L
  BY WholeRounds
<1>2. PICK r \in 0 .. L - 1 : r = L - b + j
  OBVIOUS
<1>3. (q - 1) * L = q * L - L
  OBVIOUS
<1>4. a + j = (q - 1) * L + r
  BY <1>1, <1>2, <1>3
<1>5. a + j \in Nat /\ q - 1 \in Int
  OBVIOUS
<1> QED
  BY <1>2, <1>4, <1>5, LeftOver

\* Another round.
LEMMA RoundMore ==
  ASSUME NEW L \in Nat \ {0}, NEW a \in Nat, a % L = 0 PROVE (a + L) % L = 0
<1>1. PICK q \in Int : a = q * L
  BY WholeRounds
<1>2. (q + 1) * L = q * L + L
  OBVIOUS
<1>3. a + L = (q + 1) * L + 0 /\ a + L \in Nat /\ q + 1 \in Int /\ 0 \in 0 .. L - 1
  BY <1>1, <1>2
<1> QED
  BY <1>3, LeftOver

\* What is left after the first n.
LEMMA RestOf ==
  ASSUME NEW X, NEW c \in Seq(X), NEW n \in Nat, n <= Len(c)
  PROVE  /\ SubSeq(c, n + 1, Len(c)) \in Seq(X)
         /\ Len(SubSeq(c, n + 1, Len(c))) = Len(c) - n
         /\ \A i \in 1 .. Len(c) - n : SubSeq(c, n + 1, Len(c))[i] = c[n + i]
OBVIOUS

(***************************************************************************)
(* Reading: the buffer is loaded when it is empty, and gives its first n   *)
(* bytes.                                                                  *)
(***************************************************************************)
LEMMA ReadOn ==
  ASSUME NEW X, NEW data \in Seq(X), NEW b \in Seq(X), NEW g \in Seq(X), ReadSoFar(data, b, g),
         NEW c, c = (IF b = <<>> THEN data ELSE b), NEW n \in 1 .. Len(c),
         NEW more, more = g \o SubSeq(c, 1, n), NEW rest, rest = SubSeq(c, n + 1, Len(c))
  PROVE  ReadSoFar(data, rest, more) /\ more \in Seq(X) /\ rest \in Seq(X) /\ more # <<>>
<1>1. PICK L \in Nat, k \in Nat, m \in Nat : L = Len(data) /\ k = Len(c) /\ m = Len(g)
  BY DEF ReadSoFar
<1>2. c \in Seq(X) /\ n \in Nat /\ 1 <= n /\ n <= k /\ k <= L /\ L # 0 /\ L \in Nat \ {0}
  <2>1. c \in Seq(X)
    OBVIOUS
  <2>2. Len(c) = Len(data) \/ Len(c) = Len(b)
    OBVIOUS
  <2>3. Len(b) <= L
    BY <1>1 DEF ReadSoFar
  <2>4. k <= L
    BY <1>1, <2>2, <2>3
  <2>5. n \in 1 .. k
    BY <1>1
  <2> QED
    BY <2>1, <2>4, <2>5
<1>3. \A i \in 1 .. k : c[i] = data[L - k + i]
  <2>1. CASE b = <<>>
    <3>1. c = data /\ k = L /\ \A i \in 1 .. k : L - k + i = i
      BY <1>1, <2>1
    <3> QED
      BY <3>1
  <2>2. CASE b # <<>>
    BY <1>1, <2>2 DEF ReadSoFar
  <2> QED
    BY <2>1, <2>2
<1>4. (m + k) % L = 0
  <2>1. CASE b # <<>>
    BY <1>1, <1>2, <2>1 DEF ReadSoFar
  <2>2. CASE b = <<>>
    <3>1. (Len(g) + Len(b)) % Len(data) = 0
      BY <1>1, <1>2 DEF ReadSoFar
    <3>2. Len(b) = 0 /\ k = L
      BY <1>1, <2>2
    <3>3. Len(g) + Len(b) = m
      BY <1>1, <3>2
    <3>4. m % L = 0
      BY <1>1, <3>1, <3>3
    <3> QED
      BY <1>2, <3>2, <3>4, RoundMore
  <2> QED
    BY <2>1, <2>2
<1>5. /\ SubSeq(c, 1, n) \in Seq(X) /\ Len(SubSeq(c, 1, n)) = n
      /\ \A i \in 1 .. n : SubSeq(c, 1, n)[i] = c[i]
  BY <1>1, <1>2
<1>6. /\ rest \in Seq(X) /\ Len(rest) = k - n /\ \A i \in 1 .. k - n : rest[i] = c[n + i]
  <2>1. /\ rest \in Seq(X) /\ Len(rest) = Len(c) - n
        /\ \A i \in 1 .. Len(c) - n : rest[i] = c[n + i]
    BY <1>2, RestOf
  <2> QED
    BY <1>1, <2>1
<1>7. /\ more \in Seq(X) /\ Len(more) = m + n
      /\ \A i \in 1 .. m : more[i] = g[i]
      /\ \A i \in 1 .. n : more[m + i] = c[i]
  BY <1>1, <1>2, <1>5
<1>8. \A i \in 1 .. k - n : rest[i] = data[L - (k - n) + i]
  <2> SUFFICES ASSUME NEW i \in 1 .. k - n PROVE rest[i] = data[L - (k - n) + i]
    OBVIOUS
  <2>1. n + i \in 1 .. k /\ L - k + (n + i) = L - (k - n) + i
    BY <1>2
  <2> QED
    BY <1>3, <1>6, <2>1
<1>9. \A i \in 1 .. m + n : more[i] = data[((i - 1) % L) + 1]
  <2> SUFFICES ASSUME NEW i \in 1 .. m + n PROVE more[i] = data[((i - 1) % L) + 1]
    OBVIOUS
  <2>1. CASE i \in 1 .. m
    BY <1>1, <1>7, <2>1 DEF ReadSoFar
  <2>2. CASE i \notin 1 .. m
    <3>1. PICK j \in 0 .. k - 1 : i = m + j + 1 /\ j + 1 \in 1 .. n
      <4>1. i - m - 1 \in 0 .. k - 1 /\ i = m + (i - m - 1) + 1 /\ (i - m - 1) + 1 \in 1 .. n
        BY <1>2, <2>2
      <4> QED
        BY <4>1
    <3>2. (m + j) % L = L - k + j
      <4>1. Onward(m, k, L)
        BY <1>2, <1>4, GoingRound
      <4> QED
        BY <3>1, <4>1 DEF Onward
    <3>3. i - 1 = m + j /\ (L - k + j) + 1 = L - k + (j + 1) /\ m + (j + 1) = i /\ j + 1 \in 1 .. k
      BY <1>2, <3>1
    <3>4. more[i] = data[L - k + (j + 1)]
      BY <1>3, <1>7, <3>1, <3>3
    <3> QED
      BY <3>2, <3>3, <3>4
  <2> QED
    BY <2>1, <2>2
<1>10. (m + n) + (k - n) = m + k
  BY <1>2
<1>11. k - n <= L
  BY <1>2
<1>12. (Len(more) + Len(rest)) % L = 0
  BY <1>4, <1>6, <1>7, <1>10
<1>13. ReadSoFar(data, rest, more)
  <2>1. Len(rest) <= L
    BY <1>6, <1>11
  <2>2. \A i \in 1 .. Len(rest) : rest[i] = data[L - Len(rest) + i]
    BY <1>6, <1>8
  <2>3. \A i \in 1 .. Len(more) : more[i] = data[((i - 1) % L) + 1]
    BY <1>7, <1>9
  <2> QED
    BY <1>1, <1>2, <1>12, <2>1, <2>2, <2>3, Zenon DEF ReadSoFar
<1>14. more # <<>>
  <2>1. m + n # 0
    BY <1>2
  <2> QED
    BY <1>7, <2>1
<1> QED
  BY <1>6, <1>7, <1>13, <1>14

-----------------------------------------------------------------------------
(* The calls. *)

\* A byte after a sequence.
LEMMA OneByte ==
  ASSUME NEW X, NEW s \in Seq(X), NEW x \in X
  PROVE  Append(s, x) = s \o <<x>> /\ Append(<<>>, x) = <<x>>
<1>1. Append(s, x) = s \o <<x>>
  OBVIOUS
<1>2. Append(<<>>, x) = <<x>>
  OBVIOUS
<1> QED
  BY <1>1, <1>2

\* What a handle knows of itself when nothing of it but the object changes.
LEMMA OthersKept ==
  ASSUME FileInv, NEW h \in Handles, handle'[h] = handle[h], wrote'[h] = wrote[h],
         base'[h] = base[h], got'[h] = got[h], h \in flushed' <=> h \in flushed,
         h \in touched => h \in touched',
         h \notin touched' => object'.data = object.data
  PROVE  HandleInv(h)'
<1>1. HandleInv(h)
  BY DEF FileInv
<1>2. Prefixed(h)' = Prefixed(h)
  BY DEF Prefixed
<1> QED
  BY <1>1, <1>2 DEF HandleInv

\* A handle that is opened has read and written nothing.
LEMMA OpenKeeps ==
  ASSUME FileInv, NEW h \in Handles, NEW flag \in Flags, Open(h, flag) PROVE FileInv'
<1>1. FileTypeOK /\ HandleInv(h) /\ handle[h].state = "unopened"
  BY DEF FileInv, Open
<1>2. /\ handle' = [handle EXCEPT ![h] = [Unopened EXCEPT !.state = "open", !.flag = flag]]
      /\ touched' = touched \ {h} /\ object' = object /\ wrote' = wrote /\ base' = base
      /\ got' = got /\ flushed' = flushed /\ putFails' = putFails
  BY DEF Open
<1>3. PICK o : o = [Unopened EXCEPT !.state = "open", !.flag = flag]
  OBVIOUS
<1>4. <<>> \in Seq(Bytes) /\ Len(<<>>) = 0 /\ \A i \in 1 .. Len(<<>>) : FALSE
  OBVIOUS
<1>5. /\ o \in HandleRecords /\ o.state = "open" /\ ~o.dirty /\ o.buffer = <<>>
  BY <1>3, <1>4 DEF Unopened, HandleRecords
<1>6. /\ handle' \in [Handles -> HandleRecords] /\ handle'[h] = o
      /\ \A k \in Handles \ {h} : handle'[k] = handle[k]
  BY <1>1, <1>2, <1>3, <1>5 DEF FileTypeOK
<1>7. FileTypeOK'
  BY <1>1, <1>2, <1>6 DEF FileTypeOK
<1>8. wrote[h] = <<>> /\ got[h] = <<>>
  BY <1>1 DEF HandleInv, WrittenSoFar
<1>9. ReadSoFar(object.data, <<>>, <<>>)
  <2>1. Len(object.data) \in Nat
    BY <1>1 DEF FileTypeOK, Objects
  <2>2. \A L \in Nat : L # 0 => (0 + 0) % L = 0
    OBVIOUS
  <2>3. PICK b : b = <<>>
    OBVIOUS
  <2>4. Len(b) = 0 /\ \A i \in 1 .. Len(b) : FALSE
    BY <2>3
  <2>5. Len(object.data) # 0 => (Len(b) + Len(b)) % Len(object.data) = 0
    BY <2>1, <2>2, <2>4
  <2>6. Len(b) <= Len(object.data)
    BY <2>1, <2>4
  <2>7. ReadSoFar(object.data, b, b)
    BY <2>3, <2>4, <2>5, <2>6, Zenon DEF ReadSoFar
  <2> QED
    BY <2>3, <2>7
<1>10. HandleInv(h)'
  BY <1>2, <1>5, <1>6, <1>8, <1>9 DEF HandleInv, WrittenSoFar
<1>11. ASSUME NEW k \in Handles \ {h} PROVE HandleInv(k)'
  BY <1>2, <1>6, OthersKept
<1> QED
  BY <1>7, <1>10, <1>11 DEF FileInv

\* The pieces of a read.
LEMMA Pieces ==
  ASSUME NEW X, NEW c \in Seq(X), NEW g \in Seq(X), NEW n \in 1 .. Len(c)
  PROVE  /\ g \o SubSeq(c, 1, n) \in Seq(X) /\ SubSeq(c, n + 1, Len(c)) \in Seq(X)
         /\ g \o SubSeq(c, 1, n) # <<>>
<1>1. n \in Nat /\ n <= Len(c) /\ n # 0
  OBVIOUS
<1>2. SubSeq(c, n + 1, Len(c)) \in Seq(X)
  BY <1>1, RestOf
<1>3. SubSeq(c, 1, n) \in Seq(X) /\ Len(SubSeq(c, 1, n)) = n
  BY <1>1
<1>4. PICK q \in Seq(X) : q = SubSeq(c, 1, n)
  BY <1>3
<1>5. Len(q) # 0
  BY <1>1, <1>3, <1>4
<1>6. g \o q \in Seq(X) /\ Len(g \o q) # 0
  BY <1>5
<1> QED
  BY <1>2, <1>4, <1>6

\* Reading goes on where it was, or starts again.
LEMMA ReadKeeps == ASSUME FileInv, NEW h \in Handles, Read(h) PROVE FileInv'
<1> DEFINE c == IF NeedsContent(h) THEN object.data ELSE handle[h].buffer
<1>1. FileTypeOK /\ HandleInv(h) /\ IsOpen(h)
  BY DEF FileInv, Read
<1>2. /\ object.data \in Seq(Bytes) /\ handle[h] \in HandleRecords /\ got[h] \in Seq(Bytes)
      /\ handle[h].buffer \in Seq(Bytes)
  BY <1>1 DEF FileTypeOK, Objects, HandleRecords
<1>3. PICK n \in 1 .. Len(c) :
        /\ got' = [got EXCEPT ![h] = @ \o SubSeq(c, 1, n)]
        /\ handle' = [handle EXCEPT ![h].buffer = SubSeq(c, n + 1, Len(c))]
  BY DEF Read
<1>4. c \in Seq(Bytes)
  BY <1>2
<1>5. /\ object' = object /\ wrote' = wrote /\ base' = base
      /\ touched' = touched /\ flushed' = flushed /\ putFails' = putFails
  BY DEF Read
<1>6. h \notin touched => c = IF handle[h].buffer = <<>> THEN object.data ELSE handle[h].buffer
  BY <1>1 DEF NeedsContent, HandleInv, WrittenSoFar
<1> HIDE DEF c
<1>7. PICK more, rest : more = got[h] \o SubSeq(c, 1, n) /\ rest = SubSeq(c, n + 1, Len(c))
  OBVIOUS
<1>8. more \in Seq(Bytes) /\ rest \in Seq(Bytes) /\ more # <<>>
  BY <1>2, <1>4, <1>7, Pieces
<1>9. /\ got' = [got EXCEPT ![h] = more]
      /\ handle' = [handle EXCEPT ![h] = [handle[h] EXCEPT !.buffer = rest]]
  BY <1>1, <1>3, <1>7 DEF FileTypeOK
<1>10. PICK o : o = [handle[h] EXCEPT !.buffer = rest]
  OBVIOUS
<1>11. /\ o \in HandleRecords /\ o.buffer = rest /\ o.state = "open"
       /\ o.dirty = handle[h].dirty /\ o.flag = handle[h].flag
  BY <1>1, <1>2, <1>8, <1>10 DEF HandleRecords, IsOpen
<1>12. /\ handle' \in [Handles -> HandleRecords] /\ handle'[h] = o
       /\ \A k \in Handles \ {h} : handle'[k] = handle[k]
       /\ got' \in [Handles -> Seq(Bytes)] /\ got'[h] = more
       /\ \A k \in Handles \ {h} : got'[k] = got[k]
  BY <1>1, <1>8, <1>9, <1>10, <1>11 DEF FileTypeOK
<1>13. FileTypeOK'
  BY <1>1, <1>5, <1>12 DEF FileTypeOK
<1>14. h \notin touched => ReadSoFar(object.data, rest, more)
  <2> SUFFICES ASSUME h \notin touched PROVE ReadSoFar(object.data, rest, more)
    OBVIOUS
  <2>1. ReadSoFar(object.data, handle[h].buffer, got[h])
    BY <1>1 DEF HandleInv, IsOpen
  <2>2. PICK data, b, g : data = object.data /\ b = handle[h].buffer /\ g = got[h]
    OBVIOUS
  <2>3. c = IF b = <<>> THEN data ELSE b
    BY <1>6, <2>2
  <2>4. /\ data \in Seq(Bytes) /\ b \in Seq(Bytes) /\ g \in Seq(Bytes) /\ ReadSoFar(data, b, g)
        /\ more = g \o SubSeq(c, 1, n)
    BY <1>2, <1>7, <2>1, <2>2, Zenon
  <2>5. ReadSoFar(data, rest, more)
    BY <1>7, <2>3, <2>4, ReadOn
  <2> QED
    BY <2>2, <2>5
<1>15. HandleInv(h)'
  <2>1. WrittenSoFar(handle[h], wrote[h], got[h], h \in flushed, Prefixed(h))
    BY <1>1 DEF HandleInv
  <2>2. WrittenSoFar(o, wrote[h], more, h \in flushed, Prefixed(h)')
    BY <1>1, <1>8, <1>11, <2>1 DEF WrittenSoFar, IsOpen
  <2> QED
    BY <1>1, <1>5, <1>11, <1>12, <1>14, <2>2 DEF HandleInv, IsOpen
<1>16. ASSUME NEW k \in Handles \ {h} PROVE HandleInv(k)'
  BY <1>5, <1>12, OthersKept
<1> QED
  BY <1>13, <1>15, <1>16 DEF FileInv

\* The byte that is written next.
LEMMA NextByteType ==
  ASSUME FileTypeOK, NEW h \in Handles PROVE NextByte(h) \in Bytes
<1>1. Len(wrote[h]) + 1 \in Nat
  BY DEF FileTypeOK
<1> QED
  BY <1>1 DEF NextByte, Bytes

(***************************************************************************)
(* The buffer of a writer grows by what it writes: an appending handle has *)
(* loaded the object by then, a truncating one starts with nothing.        *)
(***************************************************************************)
LEMMA WriteKeeps == ASSUME FileInv, NEW h \in Handles, Write(h) PROVE FileInv'
<1>1. FileTypeOK /\ HandleInv(h) /\ IsOpen(h)
  BY DEF FileInv, Write
<1>2. /\ object.data \in Seq(Bytes) /\ handle[h] \in HandleRecords /\ got[h] \in Seq(Bytes)
      /\ handle[h].buffer \in Seq(Bytes) /\ wrote[h] \in Seq(Bytes) /\ base[h] \in Seq(Bytes)
      /\ handle[h].state = "open" /\ handle[h].flag \in Flags
  BY <1>1 DEF FileTypeOK, Objects, HandleRecords, IsOpen
<1>3. PICK x \in Bytes : x = NextByte(h)
  BY <1>1, NextByteType
<1>4. PICK b : b = Append(Loaded(h), x)
  OBVIOUS
<1>5. Loaded(h) \in Seq(Bytes)
  BY <1>2 DEF Loaded
<1>6. b \in Seq(Bytes)
  BY <1>4, <1>5
<1>7. PICK w : w = Append(wrote[h], x)
  OBVIOUS
<1>8. w \in Seq(Bytes) /\ w # <<>>
  BY <1>2, <1>7
<1>9. PICK s : s = IF wrote[h] = <<>> THEN object.data ELSE base[h]
  OBVIOUS
<1>10. PICK o : o = [handle[h] EXCEPT !.buffer = b, !.dirty = TRUE]
  OBVIOUS
<1>11. /\ o \in HandleRecords /\ o.buffer = b /\ o.dirty /\ o.state = "open"
       /\ o.flag = handle[h].flag
  BY <1>2, <1>6, <1>10 DEF HandleRecords
<1>12. /\ handle' = [handle EXCEPT ![h] = o]
       /\ wrote' = [wrote EXCEPT ![h] = w]
       /\ base' = [base EXCEPT ![h] = s]
       /\ touched' = touched \cup {h}
       /\ object' = object /\ got' = got /\ flushed' = flushed /\ putFails' = putFails
  BY <1>1, <1>3, <1>4, <1>7, <1>9, <1>10 DEF Write, WriteInto, FileTypeOK
<1>13. /\ handle' \in [Handles -> HandleRecords] /\ handle'[h] = o
       /\ \A k \in Handles \ {h} : handle'[k] = handle[k]
       /\ wrote' \in [Handles -> Seq(Bytes)] /\ wrote'[h] = w
       /\ \A k \in Handles \ {h} : wrote'[k] = wrote[k]
       /\ base' \in [Handles -> Seq(Bytes)] /\ base'[h] = s
       /\ \A k \in Handles \ {h} : base'[k] = base[k]
  BY <1>1, <1>2, <1>8, <1>9, <1>11, <1>12 DEF FileTypeOK
<1>14. FileTypeOK'
  BY <1>1, <1>12, <1>13 DEF FileTypeOK
<1>15. Prefixed(h)' = (IF handle[h].flag \in Appending THEN s ELSE <<>>) \o w
  BY <1>11, <1>13 DEF Prefixed
<1>16. WrittenSoFar(handle[h], wrote[h], got[h], h \in flushed, Prefixed(h))
  BY <1>1 DEF HandleInv
<1>17. ASSUME got[h] = <<>>, ~(handle[h].flag \in Truncating /\ h \in flushed)
       PROVE  b = Prefixed(h)'
  <2>1. CASE wrote[h] = <<>>
    <3>1. handle[h].buffer = <<>> /\ ~handle[h].dirty
      BY <1>2, <1>16, <1>17, <2>1 DEF WrittenSoFar
    <3>2. Loaded(h) = IF handle[h].flag \in Appending THEN object.data ELSE <<>>
      BY <3>1 DEF Loaded, NeedsContent
    <3>3. w = <<x>> /\ s = object.data
      BY <1>3, <1>7, <1>9, <2>1, OneByte
    <3>4. Append(object.data, x) = object.data \o <<x>>
      BY <1>2, <1>3, OneByte
    <3>5. Append(<<>>, x) = <<>> \o <<x>>
      OBVIOUS
    <3> QED
      BY <1>4, <1>15, <3>2, <3>3, <3>4, <3>5
  <2>2. CASE wrote[h] # <<>>
    <3>1. handle[h].buffer = Prefixed(h)
      BY <1>2, <1>16, <1>17, <2>2 DEF WrittenSoFar
    <3>2. PICK p \in Seq(Bytes) : p = IF handle[h].flag \in Appending THEN base[h] ELSE <<>>
      <4>1. <<>> \in Seq(Bytes)
        OBVIOUS
      <4> QED
        BY <1>2, <4>1
    <3>3. handle[h].buffer = p \o wrote[h]
      BY <3>1, <3>2 DEF Prefixed
    <3>4. handle[h].buffer # <<>>
      BY <1>2, <2>2, <3>2, <3>3
    <3>5. handle[h].flag \in Truncating => handle[h].dirty
      BY <1>2, <1>16, <1>17, <2>2 DEF WrittenSoFar
    <3>6. Loaded(h) = handle[h].buffer
      BY <3>4, <3>5 DEF Loaded, NeedsContent
    <3>7. Append(p \o wrote[h], x) = p \o Append(wrote[h], x)
      <4>1. PICK v \in Seq(Bytes) : v = wrote[h]
        BY <1>2
      <4>2. p \in Seq(Bytes)
        BY <3>2
      <4>3. Append(p \o v, x) = p \o Append(v, x)
        <5>1. v \in Seq(Bytes) /\ x \in Bytes
          BY <1>3, <4>1
        <5> QED
          BY <4>2, <5>1
      <4> QED
        BY <4>1, <4>3
    <3>8. Prefixed(h)' = p \o w
      BY <1>9, <1>15, <2>2, <3>2
    <3> QED
      BY <1>4, <1>7, <3>3, <3>6, <3>7, <3>8
  <2> QED
    BY <2>1, <2>2
<1>18. WrittenSoFar(o, w, got[h], h \in flushed, Prefixed(h)')
  BY <1>8, <1>11, <1>17 DEF WrittenSoFar
<1>19. HandleInv(h)'
  <2>1. h \in touched'
    BY <1>12
  <2> QED
    BY <1>12, <1>13, <1>18, <2>1 DEF HandleInv
<1>20. ASSUME NEW k \in Handles \ {h} PROVE HandleInv(k)'
  BY <1>12, <1>13, OthersKept
<1> QED
  BY <1>14, <1>19, <1>20 DEF FileInv

\* Storing the buffer, or failing to.
LEMMA PutStep ==
  ASSUME FileTypeOK, NEW h \in Handles, NEW state \in {"open", "closed"}, Put(h, state)
  PROVE  \E o \in HandleRecords :
           /\ handle' = [handle EXCEPT ![h] = o]
           /\ o.state = state /\ o.flag = handle[h].flag /\ o.buffer = handle[h].buffer
           /\ \/ ~o.dirty /\ object' = Stored(handle[h].buffer) /\ putFails' = putFails
              \/ o.dirty = handle[h].dirty /\ object' = object /\ putFails' = putFails + 1
<1>1. handle[h] \in HandleRecords
  BY DEF FileTypeOK
<1>2. CASE /\ object' = Stored(handle[h].buffer)
           /\ handle' = [handle EXCEPT ![h].state = state, ![h].dirty = FALSE]
           /\ UNCHANGED putFails
  <2>1. PICK o : o = [handle[h] EXCEPT !.state = state, !.dirty = FALSE]
    OBVIOUS
  <2>2. /\ o \in HandleRecords /\ o.state = state /\ ~o.dirty
        /\ o.flag = handle[h].flag /\ o.buffer = handle[h].buffer
    BY <1>1, <2>1 DEF HandleRecords
  <2>3. handle' = [handle EXCEPT ![h] = o]
    BY <1>2, <2>1 DEF FileTypeOK
  <2> QED
    BY <1>2, <2>2, <2>3
<1>3. CASE /\ putFails' = putFails + 1
           /\ handle' = [handle EXCEPT ![h].state = state]
           /\ UNCHANGED object
  <2>1. PICK o : o = [handle[h] EXCEPT !.state = state]
    OBVIOUS
  <2>2. /\ o \in HandleRecords /\ o.state = state /\ o.dirty = handle[h].dirty
        /\ o.flag = handle[h].flag /\ o.buffer = handle[h].buffer
    BY <1>1, <2>1 DEF HandleRecords
  <2>3. handle' = [handle EXCEPT ![h] = o]
    BY <1>3, <2>1 DEF FileTypeOK
  <2> QED
    BY <1>3, <2>2, <2>3
<1> QED
  BY <1>2, <1>3 DEF Put

\* A step that stores or changes one handle's flags and touches whom it has to.
LEMMA StoreKeeps ==
  ASSUME FileInv, NEW h \in Handles, NEW o \in HandleRecords,
         handle' = [handle EXCEPT ![h] = o],
         wrote' = wrote, base' = base, got' = got,
         object' = object \/ object' = Stored(handle[h].buffer),
         putFails' \in Nat, Touch,
         flushed' \subseteq Handles, \A k \in Handles \ {h} : k \in flushed' <=> k \in flushed,
         o.flag = handle[h].flag, o.buffer = handle[h].buffer, handle[h].state = "open",
         WrittenSoFar(o, wrote[h], got[h], h \in flushed', Prefixed(h))
  PROVE  FileInv'
<1>1. FileTypeOK /\ HandleInv(h)
  BY DEF FileInv
<1>2. handle[h] \in HandleRecords /\ handle[h].buffer \in Seq(Bytes)
  BY <1>1 DEF FileTypeOK, HandleRecords
<1>3. object' \in Objects /\ (~object'.exists => object' = Missing)
  <2>1. object \in Objects /\ (~object.exists => object = Missing)
    BY <1>1 DEF FileTypeOK
  <2>2. \A b \in Seq(Bytes) : Stored(b) \in Objects /\ Stored(b).exists
    BY DEF Stored, Objects
  <2> QED
    BY <1>2, <2>1, <2>2
<1>4. touched' \subseteq Handles
  BY <1>1 DEF Touch, FileTypeOK
<1>5. \A k \in Handles : /\ k \in touched => k \in touched'
                         /\ k \notin touched' => object' = object
  BY <1>1 DEF Touch, FileTypeOK
<1>6. /\ handle' \in [Handles -> HandleRecords] /\ handle'[h] = o
      /\ \A k \in Handles \ {h} : handle'[k] = handle[k]
  BY <1>1 DEF FileTypeOK
<1>7. FileTypeOK'
  BY <1>1, <1>3, <1>4, <1>6 DEF FileTypeOK
<1>8. Prefixed(h)' = Prefixed(h)
  BY <1>6 DEF Prefixed
<1>9. HandleInv(h)'
  BY <1>1, <1>5, <1>6, <1>8 DEF HandleInv
<1>10. ASSUME NEW k \in Handles \ {h} PROVE HandleInv(k)'
  BY <1>5, <1>6, OthersKept
<1> QED
  BY <1>7, <1>9, <1>10 DEF FileInv

\* A flush stores the buffer and leaves it to the next write.
LEMMA FlushKeeps == ASSUME FileInv, NEW h \in Handles, Flush(h) PROVE FileInv'
<1>1. /\ FileTypeOK /\ HandleInv(h) /\ IsOpen(h) /\ Put(h, "open") /\ handle[h].dirty
      /\ wrote' = wrote /\ base' = base /\ got' = got /\ Touch
      /\ flushed' = IF handle'[h].dirty THEN flushed ELSE flushed \cup {h}
  BY DEF FileInv, Flush
<1>2. PICK o \in HandleRecords :
        /\ handle' = [handle EXCEPT ![h] = o]
        /\ o.state = "open" /\ o.flag = handle[h].flag /\ o.buffer = handle[h].buffer
        /\ \/ ~o.dirty /\ object' = Stored(handle[h].buffer) /\ putFails' = putFails
           \/ o.dirty = handle[h].dirty /\ object' = object /\ putFails' = putFails + 1
  BY <1>1, PutStep
<1>3. handle'[h] = o
  BY <1>1, <1>2 DEF FileTypeOK
<1>4. putFails' \in Nat
  <2>1. putFails \in Nat
    BY <1>1 DEF FileTypeOK
  <2>2. putFails' = putFails \/ putFails' = putFails + 1
    BY <1>2, Zenon
  <2> QED
    BY <2>1, <2>2
<1>5. flushed' = IF o.dirty THEN flushed ELSE flushed \cup {h}
  BY <1>1, <1>3
<1>6. /\ flushed' \subseteq Handles
      /\ \A k \in Handles \ {h} : k \in flushed' <=> k \in flushed
  BY <1>1, <1>5 DEF FileTypeOK
<1>7. WrittenSoFar(o, wrote[h], got[h], h \in flushed', Prefixed(h))
  <2>1. WrittenSoFar(handle[h], wrote[h], got[h], h \in flushed, Prefixed(h))
    BY <1>1 DEF HandleInv
  <2> QED
    BY <1>1, <1>2, <1>5, <2>1 DEF WrittenSoFar, IsOpen
<1> QED
  BY <1>1, <1>2, <1>4, <1>6, <1>7, StoreKeeps DEF IsOpen

\* A handle is closed for good.
LEMMA CloseKeeps == ASSUME FileInv, NEW h \in Handles, Close(h) PROVE FileInv'
<1>1. /\ FileTypeOK /\ HandleInv(h) /\ IsOpen(h)
      /\ wrote' = wrote /\ base' = base /\ got' = got /\ flushed' = flushed /\ Touch
  BY DEF FileInv, Close
<1>2. handle[h] \in HandleRecords
  BY <1>1 DEF FileTypeOK
<1>3. \E o \in HandleRecords :
        /\ handle' = [handle EXCEPT ![h] = o]
        /\ o.state = "closed" /\ o.flag = handle[h].flag /\ o.buffer = handle[h].buffer
        /\ o.dirty => handle[h].dirty
        /\ object' = object \/ object' = Stored(handle[h].buffer)
        /\ putFails' \in Nat
  <2>1. CASE Put(h, "closed")
    <3>1. PICK o \in HandleRecords :
            /\ handle' = [handle EXCEPT ![h] = o]
            /\ o.state = "closed" /\ o.flag = handle[h].flag /\ o.buffer = handle[h].buffer
            /\ \/ ~o.dirty /\ object' = Stored(handle[h].buffer) /\ putFails' = putFails
               \/ o.dirty = handle[h].dirty /\ object' = object /\ putFails' = putFails + 1
      BY <1>1, <2>1, PutStep
    <3>2. putFails' \in Nat
      BY <1>1, <3>1 DEF FileTypeOK
    <3> QED
      BY <3>1, <3>2
  <2>2. CASE /\ handle' = [handle EXCEPT ![h].state = "closed"]
             /\ UNCHANGED <<object, putFails>>
    <3>1. PICK o : o = [handle[h] EXCEPT !.state = "closed"]
      OBVIOUS
    <3>2. /\ o \in HandleRecords /\ o.state = "closed" /\ o.flag = handle[h].flag
          /\ o.buffer = handle[h].buffer /\ o.dirty = handle[h].dirty
      BY <1>2, <3>1 DEF HandleRecords
    <3>3. handle' = [handle EXCEPT ![h] = o] /\ putFails' \in Nat
      BY <1>1, <2>2, <3>1 DEF FileTypeOK
    <3> QED
      BY <2>2, <3>2, <3>3
  <2> QED
    BY <2>1, <2>2 DEF Close
<1>4. PICK o \in HandleRecords :
        /\ handle' = [handle EXCEPT ![h] = o]
        /\ o.state = "closed" /\ o.flag = handle[h].flag /\ o.buffer = handle[h].buffer
        /\ o.dirty => handle[h].dirty
        /\ object' = object \/ object' = Stored(handle[h].buffer)
        /\ putFails' \in Nat
  BY <1>3
<1>5. WrittenSoFar(o, wrote[h], got[h], h \in flushed', Prefixed(h))
  <2>1. WrittenSoFar(handle[h], wrote[h], got[h], h \in flushed, Prefixed(h))
    BY <1>1 DEF HandleInv
  <2> QED
    BY <1>4, <2>1 DEF WrittenSoFar
<1>6. /\ flushed' \subseteq Handles
      /\ \A k \in Handles \ {h} : k \in flushed' <=> k \in flushed
  BY <1>1 DEF FileTypeOK
<1> QED
  BY <1>1, <1>4, <1>5, <1>6, StoreKeeps DEF IsOpen

\* Deleting what is not there changes nothing.
LEMMA DeleteKeeps == ASSUME FileInv, Delete PROVE FileInv'
<1>1. FileTypeOK
  BY DEF FileInv
<1>2. /\ object' = Missing
      /\ touched' = IF object.exists THEN Handles ELSE touched
      /\ handle' = handle /\ wrote' = wrote /\ base' = base /\ got' = got
      /\ flushed' = flushed /\ putFails' = putFails
  BY DEF Delete
<1>3. Missing \in Objects
  <2>1. <<>> \in Seq(Bytes)
    OBVIOUS
  <2> QED
    BY <2>1 DEF Missing, Objects
<1>4. FileTypeOK'
  BY <1>1, <1>2, <1>3 DEF FileTypeOK
<1>5. \A k \in Handles : /\ k \in touched => k \in touched'
                         /\ k \notin touched' => object' = object
  BY <1>1, <1>2 DEF FileTypeOK
<1>6. ASSUME NEW k \in Handles PROVE HandleInv(k)'
  BY <1>2, <1>5, OthersKept
<1> QED
  BY <1>4, <1>6 DEF FileInv

-----------------------------------------------------------------------------
(* The theorems. *)

\* An object, and no handle open.
LEMMA FilesStart == FileInit => FileInv
<1> SUFFICES ASSUME FileInit PROVE FileInv
  OBVIOUS
<1>1. <<>> \in Seq(Bytes)
  OBVIOUS
<1>2. [i \in 1 .. ContentLen |-> <<"old", i>>] \in Seq(Bytes)
  <2>1. ContentLen \in Nat
    BY S3FileAssumption
  <2>2. \A i \in 1 .. ContentLen : <<"old", i>> \in Bytes
    BY <2>1 DEF Bytes
  <2> QED
    BY <2>1, <2>2
<1>3. object \in Objects /\ (~object.exists => object = Missing)
  <2>1. \A b \in Seq(Bytes) : Stored(b) \in Objects /\ Stored(b).exists
    BY DEF Stored, Objects
  <2>2. Missing \in Objects
    BY <1>1 DEF Missing, Objects
  <2> QED
    BY <1>2, <2>1, <2>2 DEF FileInit
<1>4. Unopened \in HandleRecords /\ Unopened.state = "unopened" /\ ~Unopened.dirty
  BY <1>1 DEF Unopened, HandleRecords, Flags
<1>5. FileTypeOK
  BY <1>1, <1>3, <1>4 DEF FileInit, FileTypeOK
<1>6. ASSUME NEW h \in Handles PROVE HandleInv(h)
  BY <1>4 DEF FileInit, HandleInv, WrittenSoFar
<1> QED
  BY <1>5, <1>6 DEF FileInv

\* Every call of a handle keeps the invariant.
LEMMA FileStep == FileInv /\ [FileNext]_fileVars => FileInv'
<1> SUFFICES ASSUME FileInv, [FileNext]_fileVars PROVE FileInv'
  OBVIOUS
<1>1. ASSUME NEW h \in Handles,
             (\E flag \in Flags : Open(h, flag)) \/ Read(h) \/ Write(h) \/ Flush(h) \/ Close(h)
      PROVE  FileInv'
  BY <1>1, OpenKeeps, ReadKeeps, WriteKeeps, FlushKeeps, CloseKeeps
<1>2. CASE Delete
  BY <1>2, DeleteKeeps
<1>3. CASE UNCHANGED fileVars
  <2>1. /\ object' = object /\ handle' = handle /\ wrote' = wrote /\ base' = base /\ got' = got
        /\ touched' = touched /\ flushed' = flushed /\ putFails' = putFails
    BY <1>3 DEF fileVars
  <2>2. FileTypeOK'
    BY <2>1 DEF FileInv, FileTypeOK
  <2>3. ASSUME NEW h \in Handles PROVE HandleInv(h)'
    BY <2>1, OthersKept
  <2> QED
    BY <2>2, <2>3 DEF FileInv
<1> QED
  BY <1>1, <1>2, <1>3 DEF FileNext

\* The inductive invariant of the files: what every buffer holds.
THEOREM FileInvariant == FileSpec => []FileInv
<1>1. FileInit => FileInv
  BY FilesStart
<1>2. FileInv /\ [FileNext]_fileVars => FileInv'
  BY FileStep
<1> QED
  BY <1>1, <1>2, PTL DEF FileSpec

\* Whoever only reads an object that nobody changes reads it in order, none of it left out.
THEOREM ReadersRead == FileSpec => []ReadersSeeContent
<1>1. FileInv => ReadersSeeContent
  <2> SUFFICES ASSUME FileInv, NEW h \in Handles, Undisturbed(h), NEW i \in 1 .. Len(got[h]),
                      i <= Len(object.data)
               PROVE  got[h][i] = object.data[i]
    BY DEF ReadersSeeContent
  <2>1. got[h] \in Seq(Bytes) /\ object.data \in Seq(Bytes)
    BY DEF FileInv, FileTypeOK, Objects
  <2>2. got[h][i] = object.data[((i - 1) % Len(object.data)) + 1]
    BY DEF FileInv, HandleInv, ReadSoFar, Undisturbed
  <2>3. PICK L \in Nat : L = Len(object.data)
    BY <2>1
  <2>4. i \in Nat \ {0} /\ i <= L
    BY <2>1, <2>3
  <2>5. (i - 1) % L = i - 1
    <3>1. L \in Nat \ {0} /\ i - 1 \in Nat /\ i - 1 \in 0 .. L - 1 /\ i - 1 = 0 * L + (i - 1)
      BY <2>4
    <3> QED
      BY <3>1, LeftOver
  <2> QED
    BY <2>2, <2>3, <2>4, <2>5
<1> QED
  BY <1>1, FileInvariant, PTL

\* A writer that closes without an error has stored all it wrote, after what it appends to.
THEOREM WritersStore == FileSpec => WritersStoreAll
<1> DEFINE Closes(h) ==
      /\ IsOpen(h) /\ handle'[h].state = "closed" /\ ~handle'[h].dirty
      /\ handle[h].dirty /\ got[h] = <<>>
      /\ ~(handle[h].flag \in Truncating /\ h \in flushed)
<1>1. ASSUME FileInv, [FileNext]_fileVars, NEW h \in Handles, Closes(h)
      PROVE  object' = Stored(Prefixed(h))
  <2>1. FileTypeOK /\ HandleInv(h)
    BY <1>1 DEF FileInv
  <2>2. handle[h].buffer = Prefixed(h)
    BY <1>1, <2>1 DEF HandleInv, WrittenSoFar, IsOpen
  <2>3. handle' # handle
    BY <1>1 DEF IsOpen
  <2>4. ~Delete /\ ~UNCHANGED fileVars
    BY <2>3 DEF Delete, fileVars
  <2>5. PICK k \in Handles :
          (\E flag \in Flags : Open(k, flag)) \/ Read(k) \/ Write(k) \/ Flush(k) \/ Close(k)
    BY <1>1, <2>4 DEF FileNext
  <2>6. handle[h] \in HandleRecords /\ handle[h].state = "open"
    BY <1>1, <2>1 DEF FileTypeOK, IsOpen
  <2>7. k = h
    <3> SUFFICES ASSUME k # h PROVE handle'[h] = handle[h]
      BY <1>1, <2>6
    <3> QED
      BY <2>1, <2>5 DEF Open, Read, Write, Flush, Close, Put, FileTypeOK
  <2>8. \A flag \in Flags : ~Open(h, flag)
    BY <2>6 DEF Open
  <2>9. ~Read(h) /\ ~Write(h)
    <3>1. Read(h) \/ Write(h) => handle'[h].state = handle[h].state
      BY <2>1, <2>6 DEF Read, Write, FileTypeOK, HandleRecords
    <3> QED
      BY <1>1, <2>6, <3>1
  <2>10. ~Flush(h)
    <3>1. Flush(h) => handle'[h].state = "open"
      BY <2>1, <2>6 DEF Flush, Put, FileTypeOK, HandleRecords
    <3> QED
      BY <1>1, <3>1
  <2>11. Close(h)
    BY <2>5, <2>7, <2>8, <2>9, <2>10
  <2>12. ~handle'[h].dirty /\ handle[h].dirty
    BY <1>1
  <2>13. object' = Stored(handle[h].buffer)
    <3>1. Put(h, "closed") \/ handle' = [handle EXCEPT ![h].state = "closed"]
      BY <2>11 DEF Close
    <3>2. handle' # [handle EXCEPT ![h].state = "closed"]
      <4> SUFFICES ASSUME handle' = [handle EXCEPT ![h].state = "closed"]
                   PROVE  handle'[h].dirty = handle[h].dirty
        BY <2>12
      <4>1. handle'[h] = [handle[h] EXCEPT !.state = "closed"]
        BY <2>1 DEF FileTypeOK
      <4> QED
        BY <2>6, <4>1 DEF HandleRecords
    <3> QED
      BY <3>1, <3>2 DEF Put
  <2> QED
    BY <2>2, <2>13
<1>2. FileInv /\ [FileNext]_fileVars =>
        [\A h \in Handles : Closes(h) => object' = Stored(Prefixed(h))]_fileVars
  BY <1>1
<1> QED
  BY <1>2, FileInvariant, PTL DEF FileSpec, WritersStoreAll

=============================================================================
