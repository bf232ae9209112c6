----------------------------- MODULE S3Storage -----------------------------
(***************************************************************************)
(* The task updater on S3Storage (awsadp/s3_storage.go).  The objects are  *)
(* those of the file store, and an object is written as a whole or not at  *)
(* all.  But the store takes no lock and S3 is shared by processes: Append *)
(* is a GetObject, a version check and a later PutObject, SaveTask is a    *)
(* GetTask, a check and two puts (the snapshot and the entry of the task   *)
(* in its context's index), and others write in between.  A put that       *)
(* fails may have been carried out: only its answer was lost.              *)
(***************************************************************************)
EXTENDS TaskUpdater, FiniteSets

VARIABLES call,   \* call[p]: the storage call goroutine p is in the middle of
          index,  \* tasks with an entry in the index of their context
          raced   \* history: tasks with an object that was put over a newer one

s3Vars == <<vars, call, index, raced>>

NoCall == [at |-> "none", stream |-> NoStream, snapshot |-> NoSnapshot, keys |-> {}]

-----------------------------------------------------------------------------
(* Append. *)

S3AppendAcceptsAny(p) == TRUE

\* expected != currentVersion; a missing object is an empty stream of version 0.
S3AppendAccepts(p) == upd[p].version = streams[upd[p].task].version

AppendGet(p) ==
  LET u == upd[p] IN
  /\ u.phase = "append" /\ call[p].at = "none"
  /\ IF S3AppendAccepts(p)
     THEN /\ call' = [call EXCEPT ![p] = [NoCall EXCEPT !.at = "put", !.stream = streams[u.task]]]
          /\ UNCHANGED upd
     ELSE Return(p, FALSE) /\ UNCHANGED call
  /\ UNCHANGED <<storageVars, issued, pushes, faults, index, raced>>

\* The events that were read, and the new one.
PutStream(p) ==
  LET old == call[p].stream IN
  [streams EXCEPT ![upd[p].task] = [file |-> "intact",
                                    events |-> Append(old.events, upd[p].event),
                                    version |-> old.version + 1]]

RacedBy(p, object, read) == IF object = read THEN raced ELSE raced \cup {upd[p].task}

StreamPut(p) ==
  /\ streams' = PutStream(p)
  /\ raced' = RacedBy(p, streams[upd[p].task], call[p].stream)

AppendPut(p) ==
  /\ upd[p].phase = "append" /\ call[p].at = "put"
  /\ StreamPut(p)
  /\ upd' = [upd EXCEPT ![p].phase = "save"]
  /\ call' = [call EXCEPT ![p] = NoCall]
  /\ UNCHANGED <<tasks, pushConfigs, issued, pushes, faults, index>>

-----------------------------------------------------------------------------
(* SaveTask. *)

SaveGet(p) ==
  LET u == upd[p] IN
  /\ u.phase = "save" /\ call[p].at = "none"
  /\ IF SaveAccepts(u.task, u.version)
     THEN /\ call' = [call EXCEPT ![p] = [NoCall EXCEPT !.at = "put", !.snapshot = tasks[u.task]]]
          /\ UNCHANGED upd
     ELSE Return(p, FALSE) /\ UNCHANGED call
  /\ UNCHANGED <<storageVars, issued, pushes, faults, index, raced>>

SnapshotPut(p) ==
  LET u == upd[p] IN
  /\ tasks' = SavedTask(u.task, ApplyEvent(u.base, u.event), SavedVersion(u))
  /\ raced' = RacedBy(p, tasks[u.task], call[p].snapshot)

SavePut(p) ==
  /\ upd[p].phase = "save" /\ call[p].at = "put"
  /\ SnapshotPut(p)
  /\ call' = [call EXCEPT ![p] = [NoCall EXCEPT !.at = "index"]]
  /\ UNCHANGED <<streams, pushConfigs, updaterVars, index>>

IndexNothing(p) == index

\* PutObject of contexts/<context>/<task>.txt.
IndexEntry(p) == index \cup {upd[p].task}

IndexPut(p) ==
  /\ upd[p].phase = "save" /\ call[p].at = "index"
  /\ index' = IndexEntry(p)
  /\ upd' = [upd EXCEPT ![p] = AfterSave(upd[p])]
  /\ call' = [call EXCEPT ![p] = NoCall]
  /\ UNCHANGED <<storageVars, issued, pushes, faults, raced>>

-----------------------------------------------------------------------------
(* Push configurations: the keys are listed first, then every object is read; *)
(* one that was deleted in between is left out.  Deleting what is not there   *)
(* succeeds.                                                                  *)

ListKeys(p) ==
  /\ upd[p].phase = "list" /\ call[p].at = "none"
  /\ call' = [call EXCEPT ![p] = [NoCall EXCEPT !.at = "get", !.keys = pushConfigs[upd[p].task]]]
  /\ UNCHANGED <<vars, index, raced>>

FoundConfigs(p) == call[p].keys \cap pushConfigs[upd[p].task]

GetConfigs(p) ==
  LET found == FoundConfigs(p) IN
  /\ upd[p].phase = "list" /\ call[p].at = "get"
  /\ upd' = [upd EXCEPT ![p] = IF found = {}
                                THEN [upd[p] EXCEPT !.phase = "done", !.ok = TRUE]
                                ELSE [upd[p] EXCEPT !.phase = "notify", !.todo = found]]
  /\ call' = [call EXCEPT ![p] = NoCall]
  /\ UNCHANGED <<storageVars, issued, pushes, faults, index, raced>>

DeleteConfig(t, c) ==
  /\ PushEnabled /\ c \in issued
  /\ pushConfigs' = DeletedConfig(t, c)
  /\ UNCHANGED <<tasks, streams, updaterVars, call, index, raced>>

-----------------------------------------------------------------------------
(* Failures. *)

\* A request of the storage call p is in fails; its put may have been carried out.
CallFails(p) ==
  /\ Fault("storage")
  /\ upd[p].phase \in {"append", "save"}
  /\ \/ UNCHANGED <<tasks, streams, index, raced>>
     \/ /\ upd[p].phase = "append" /\ call[p].at = "put"
        /\ StreamPut(p)
        /\ UNCHANGED <<tasks, index>>
     \/ /\ upd[p].phase = "save" /\ call[p].at = "put"
        /\ SnapshotPut(p)
        /\ UNCHANGED <<streams, index>>
     \/ /\ upd[p].phase = "save" /\ call[p].at = "index"
        /\ index' = IndexEntry(p)
        /\ UNCHANGED <<tasks, streams, raced>>
  /\ Return(p, FALSE)
  /\ call' = [call EXCEPT ![p] = NoCall]
  /\ UNCHANGED <<pushConfigs, issued, pushes>>

\* ListObjectsV2 fails: logged, and the update succeeds.
ListKeysFails(p) ==
  /\ Fault("storage")
  /\ upd[p].phase = "list" /\ call[p].at = "none"
  /\ Return(p, TRUE)
  /\ UNCHANGED <<storageVars, issued, pushes, call, index, raced>>

\* The process of p stops; what it has put stays, and the others go on.
ProcessStops(p) ==
  /\ Fault("crash")
  /\ upd[p].phase # "idle"
  /\ upd' = [upd EXCEPT ![p] = IdleUpdate]
  /\ call' = [call EXCEPT ![p] = NoCall]
  /\ UNCHANGED <<storageVars, issued, pushes, index, raced>>

-----------------------------------------------------------------------------
S3Init ==
  /\ Init
  /\ call = [p \in Procs |-> NoCall]
  /\ index = {}
  /\ raced = {}

Unwritten == UNCHANGED <<call, index, raced>>

S3Progress(p) ==
  \/ AppendGet(p) \/ AppendPut(p)
  \/ SaveGet(p) \/ SavePut(p) \/ IndexPut(p)
  \/ ListKeys(p) \/ GetConfigs(p)
  \/ \E c \in Configs : Notify(p, c) /\ Unwritten

S3Next ==
  \/ \E p \in Procs :
       \/ \E t \in Tasks, m \in Messages : BeginCreate(p, t, m) /\ Unwritten
       \/ \E t \in Tasks, e \in Updates : BeginUpdate(p, t, e) /\ Unwritten
       \/ S3Progress(p)
       \/ Finish(p) /\ Unwritten
       \/ CallFails(p) \/ ListKeysFails(p) \/ ProcessStops(p)
  \/ \E t \in Tasks, c \in Configs :
       \/ SetTaskPushNotificationConfig(t, c) /\ Unwritten
       \/ DeleteConfig(t, c)

S3Spec == S3Init /\ [][S3Next]_s3Vars

-----------------------------------------------------------------------------
(* Properties. *)

\* Somebody's update of t returned without an error.
Updated(t) == \E p \in Procs : upd[p].phase = "done" /\ upd[p].ok /\ upd[p].task = t

(***************************************************************************)
(* A task whose update was reported as done is found again: it has a       *)
(* stream, a snapshot and an entry in the index ListTasksByContext reads,  *)
(* although SaveTask writes the index after the snapshot and either put    *)
(* may fail.  This holds even where updates race.                          *)
(***************************************************************************)
UpdatedIsListed ==
  \A t \in Tasks :
    Updated(t) => t \in index /\ tasks[t].file = "intact" /\ streams[t].file = "intact"

(***************************************************************************)
(* What the version checks of S3Storage are worth: as long as no put lands *)
(* on an object that changed after the get it was checked against, stream  *)
(* and snapshot are in step as in the file store (one event per version,   *)
(* the snapshot at most one behind), whichever requests failed or were     *)
(* carried out with their answer lost.                                     *)
(***************************************************************************)
UnracedInStep ==
  \A t \in Tasks \ raced : streams[t].file = "intact" =>
    LET es == streams[t].events IN
    /\ streams[t].version = Len(es)
    /\ \A i \in 1 .. Len(es) : (es[i].kind = "task") <=> (i = 1)
    /\ tasks[t].file = "intact" => tasks[t].version \in {Len(es) - 1, Len(es)} \ {0}

(***************************************************************************)
(* ... and every unraced step is a step of the ledger: events are added    *)
(* one at a time, none disappears, and no status follows a cancellation.   *)
(***************************************************************************)
UnracedIsLedger ==
  [][raced' = {} => Ledger!Next]_<<streams>>

(***************************************************************************)
(* SaveTask checks the version for optimistic concurrency control, so a    *)
(* canceled task stays canceled also when two processes update it.         *)
(***************************************************************************)
CanceledOnS3 ==
  [][\A t \in Tasks :
       tasks[t].task.state = "canceled" => tasks'[t].task.state = "canceled"]_s3Vars

=============================================================================
