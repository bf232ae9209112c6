---------------------------- MODULE TaskStorage ----------------------------
(***************************************************************************)
(* FileSystemStorage (filesystem_storage.go): for every task one snapshot  *)
(* file, one event-stream file and a directory of push configurations.     *)
(*                                                                         *)
(* Every method of the store runs under fs.mu, so one call is one step;    *)
(* this module gives the calls as operators on the three variables and the *)
(* modules that extend it decide when they happen.  os.WriteFile truncates *)
(* the file before it writes it: a write that does not finish leaves a     *)
(* "torn" file, which no later read can decode.                            *)
(***************************************************************************)
EXTENDS A2A, Naturals, Sequences

CONSTANTS Tasks,       \* task IDs the ID generator can produce
          Messages,    \* message values
          Artifacts,   \* artifact values
          ArtifactID,  \* the ID field of an artifact value
          Configs      \* push notification configuration IDs

VARIABLES tasks,       \* tasks[t]: tasks/<t>.json
          streams,     \* streams[t]: events/<context>/<t>.json
          pushConfigs  \* pushConfigs[t]: the IDs stored in push-configs/<t>/

storageVars == <<tasks, streams, pushConfigs>>

FileStates == {"absent", "intact", "torn"}

(***************************************************************************)
(* Data.  A task is what GetTask decodes; an event is one StreamResponse:  *)
(* the created task (it carries the first message), a message, a status    *)
(* update or an artifact update.                                           *)
(***************************************************************************)
TaskValue == [state : TaskStates, history : Seq(Messages), artifacts : Seq(Artifacts)]

Event ==
  [kind : {"task", "message"}, val : Messages]
    \cup [kind : {"status"}, val : TaskStates]
    \cup [kind : {"artifact"}, val : Artifacts]

BlankTask == [state |-> "unknown", history |-> <<>>, artifacts |-> <<>>]

NoSnapshot == [file |-> "absent", task |-> BlankTask, version |-> 0]

NoStream == [file |-> "absent", events |-> <<>>, version |-> 0]

SnapshotFile == [file : FileStates, task : TaskValue, version : Nat]

StreamFile == [file : FileStates, events : Seq(Event), version : Nat]

Torn(f) == [f EXCEPT !.file = "torn"]

-----------------------------------------------------------------------------
(* Snapshots. *)

\* GetTask: ErrTaskNotFound when there is no file, an error when it does not decode.
GetTaskSucceeds(t) == tasks[t].file = "intact"

\* SaveTask's version check: passed by the expected version or by a missing file.
SaveAccepts(t, expected) ==
  \/ tasks[t].file = "absent"
  \/ tasks[t].file = "intact" /\ tasks[t].version = expected

SavedTaskOldVersion(t, task, newVersion) ==
  [tasks EXCEPT ![t] = [file |-> "intact", task |-> task, version |-> tasks[t].version]]

SavedTask(t, task, newVersion) ==
  [tasks EXCEPT ![t] = [file |-> "intact", task |-> task, version |-> newVersion]]

\* The write of SaveTask was cut short.
TornTask(t) == [tasks EXCEPT ![t] = Torn(NoSnapshot)]

-----------------------------------------------------------------------------
(* Event streams. *)

AppendAcceptsAnyVersion(t, expected) == TRUE

(***************************************************************************)
(* Append's version check.  A file that is missing or does not decode      *)
(* counts as an empty stream of version 0: the decoding error is dropped.  *)
(***************************************************************************)
AppendAccepts(t, expected) ==
  expected = IF streams[t].file = "intact" THEN streams[t].version ELSE 0

AppendedOverwriting(t, events) ==
  [streams EXCEPT ![t] = [file |-> "intact", events |-> events,
                          version |-> streams[t].version + Len(events)]]

Appended(t, events) ==
  [streams EXCEPT ![t] = [file |-> "intact", events |-> streams[t].events \o events,
                          version |-> streams[t].version + Len(events)]]

\* The write of Append was cut short: the old events are gone with the new ones.
TornStream(t) == [streams EXCEPT ![t] = Torn(NoStream)]

LoadSucceeds(t) == streams[t].file # "torn"

(***************************************************************************)
(* Load(from, limit): the events from index "from" on, at most "limit" of  *)
(* them when limit > 0, and, whatever was left out, the version of the     *)
(* whole stream.                                                           *)
(***************************************************************************)
Load(t, from, limit) ==
  LET len  == Len(streams[t].events)
      last == IF limit > 0 /\ from + limit < len THEN from + limit ELSE len
  IN  [events |-> SubSeq(streams[t].events, from + 1, last),
       next   |-> streams[t].version]

-----------------------------------------------------------------------------
(* Push notification configurations. *)

SavedConfig(t, c) == [pushConfigs EXCEPT ![t] = @ \cup {c}]

DeletedConfig(t, c) == [pushConfigs EXCEPT ![t] = @ \ {c}]

ListTaskPushNotificationConfig(t) == pushConfigs[t]

-----------------------------------------------------------------------------
StorageTypeOK ==
  /\ tasks \in [Tasks -> SnapshotFile]
  /\ streams \in [Tasks -> StreamFile]
  /\ pushConfigs \in [Tasks -> SUBSET Configs]

StorageInit ==
  /\ tasks = [t \in Tasks |-> NoSnapshot]
  /\ streams = [t \in Tasks |-> NoStream]
  /\ pushConfigs = [t \in Tasks |-> {}]

=============================================================================
