# TLA+ verification of ATLASIC

ATLASIC is a Go library for services of the Agent-to-Agent protocol. A client sends
a message; the service creates a task, enqueues a job, a worker runs the agent on the
task, and the client polls, streams, waits or is notified. Everything a client sees of
a task comes out of two files, its event stream and its snapshot, which requests,
workers, agents and monitor goroutines write concurrently. The modules in this
directory model that core: how a task is updated, on files and on S3, how jobs are
processed, how events reach clients, and how a service starts and stops. Around it they
model what a request passes on its way in (the JSON-RPC handler), the agent that forwards
to another service, and what an agent uses to talk to a language model.

## Inventory

| component | source | state | operations | hard behaviour | what makes it correct |
|---|---|---|---|---|---|
| task states | `a2a/a2a.go` | - | `IsTerminal`, `IsInterrupted`, `CanCancel` | - | used by every other part |
| storage (files) | `filesystem_storage.go` | snapshot, stream and push-config files | `GetTask`, `SaveTask`, `Append`, `Load`, push configs | torn writes, version checks, limit of `Load` | a snapshot is the replay of its stream |
| task updater | `task_updater.go` | the copy of a task and the version it was read at | `createNewTask`, `addMessage`, `updateStatus`, `upsertArtifact`, `applyTaskUpdates`, `sendPushNotifications` | two writes that are not one transaction; concurrent updates; crashes | no update is lost or half applied, a canceled task stays canceled |
| push notifier | `push_notifier.go` | - | `Notify` | endpoints that refuse | only saved events are announced |
| requests | `atlasic.go` | - | `SendMessage`, `SendStreamingMessage`, `CancelTask`, `TaskResubscription` | check and update are separate storage calls | terminal tasks stay terminal, input is taken up, blocking requests return |
| job processing | `atlasic.go`, `task_handle.go` | status tracker, agent context | `ProcessJob`, `processJobMonitoring` | agent against cancellation, shutdown, heartbeat, redelivery | no live task without a job |
| job queues | `jobqueue.go`, `awsadp/sqs_jobqueue.go` | channel / hidden and visible messages | `Enqueue`, `Dequeue`, `Close`, complete, fail, extend | full channel, visibility timeouts, duplicates | accepted jobs are taken, nobody sends on a closed channel |
| task locker | `task_locker.go` | held locks | `Lock`, unlock | retry until the context ends | one worker per task |
| streaming | `atlasic.go`, `transport/handler.go` | last version, channel | `streamTaskEvents`, `waitForTaskCompletion`, `writeSSEStream` | batches, full channel, events after the end | every event once and in order, streams end |
| life cycle | `atlasic.go` | `s.mu`, worker context, wait group | `Start`, `Close`, `RunWithContext`, `Shutdown` | everyone waiting on everyone | stopping comes to an end |
| server | `atlasic.go` | `Server.mu`, mux, middleware chain, extensions | `Use`, `AddExtension`, `Handle`, `Handler`, `initialize`, `RunWithContext`, `Shutdown` | configuration before and after initialization, a second run, a lock taken twice | what was configured before the start is served, connections only while started |
| S3 store | `awsadp/s3_storage.go` | objects: snapshot, stream, index, push configs | as the file store | get, check and put are separate requests, lost answers, several processes | as the file store |
| S3 files | `awsadp/s3_file.go` | buffer and flags of a handle | `Read`, `Write`, `Flush`, `Close`, delete | write-on-close, a buffer that reading consumes | files are read in order and stored whole |
| transport | `transport/`, `auth.go` | method registry; stage and context of a request | `ServeHTTP` and its stages, `RegisterMethod`, `WrapAgentServiceWithExtensions` | early returns, two forms of answers, contexts handed from stage to stage | one answer per request, no service call past a gate |
| remote agent, client | `remote_agent.go`, `transport/client.go` | cached metadata | `Execute`, `GetMetadata`, client calls | timeout of a blocking call, redelivered jobs | no completion without a remote answer |
| model runner, providers | `model/runner.go`, `model/tool_resolver.go`, `model/bedrock`, `model/openai`, `model/ollama` | conversation, last step | `Next`, `Steps`, tool calls, conversions | retries, failing tools, cancellation | every call answered and run once |
| prompt builder | `prompt/` | blocks, kept data tool | `Write*`, `String`, `Messages`, `Reset`, `get_task_data` | references of several blocks, repeated builds | references lead to what they stand for |
| model registry and hooks, test helpers | `model/model.go`, `atlasictest/` | - | maps and callbacks of the program | - | - |

`PROJECT.json` lists the same parts with their status, and under "hazards" the places
in the code that a test would hardly reach.

## Modules

* `A2A` - task states and their predicates.
* `TaskStorage` - `FileSystemStorage`. Every method holds `fs.mu`, so a call is one
  step; the module gives each call as an operator on `tasks`, `streams` and
  `pushConfigs`. A file is absent, intact or torn (`os.WriteFile` truncates before it
  writes). `Append` takes a file it cannot decode for an empty stream; `Load` returns
  the version of the whole stream whatever its limit leaves out.
* `TaskUpdater` extends it with the update protocol. `upd[p]` is the update goroutine
  `p` executes; its phases are the calls of `applyTaskUpdates`: `append`, `save`,
  `list` (the push configurations), `notify`, `done`. `BeginCreate` and `BeginUpdate`
  are the four entry points up to their first read. Between any two phases other
  goroutines run, and `Crash`, `AppendFails`, `SaveFails`, `ListFails`, `NotifyFails`
  may happen.
* `TaskLedger` - the abstract specification: every task has one history that starts
  with its creation, grows by one event at a time, takes no status after a
  cancellation, and may be lost only as a whole.
* `AgentService` extends `TaskUpdater` with clients (`cl`), workers (`wk`), the queue,
  the task lock and the shutdown. Each worker is one `ProcessJob`; every status update
  in it is a full run of the update protocol. `Durable` chooses between
  `InMemoryJobQueue` and `SQSJobQueue` (messages are hidden, deleted, made visible
  again, redelivered). The agent is external and may do anything its `TaskHandle`
  allows and return at any time what it likes, `context.Canceled` included, with one
  assumption (`KeepsEnd`): an agent that has set a terminal state does not set a
  non-terminal one. What liveness needs of it besides is a premise of the property, see
  "Fairness".
* `Streaming` extends `TaskStorage` with the two pollers; delivered events are
  positions in the stream.
* `Lifecycle` - starting and stopping: who holds and awaits `s.mu`, the lock of the
  queue, the channel and the wait group. `closer` is the goroutine that stops the
  service, either with `Close` alone (`CallClose`) or through the server
  (`StopServer`: the listener closes, `serving` becomes false, `http.Server.Shutdown`
  waits for the open requests, then `Close`).
* `S3Storage` extends `TaskUpdater`: the same update protocol over S3. `call[p]` is what
  goroutine `p` has read in a storage call it has not finished, so that `Append` is
  `AppendGet` and `AppendPut`, `SaveTask` is `SaveGet`, `SavePut` and `IndexPut`, and
  others write in between. `CallFails` fails any request, with or without its effect;
  `ProcessStops` ends one goroutine and not the others. `raced` is a history variable:
  the tasks with an object that was put over one that had changed after the check.
* `S3File` - the buffered files. Bytes are tagged with the handle that wrote them;
  `wrote`, `base`, `got`, `touched` and `flushed` are history variables.
* `Transport` - one request through `ServeHTTP`: `req[r].stage` is the stage it is in,
  every early return is a `Reply`. What a request carries is chosen by the stage that
  first looks at it. `called[r]` is the context the service got, `out[r]` what was written.
  `WrappedCall` is the same service called from Go. The stage "unencoded" ends a request
  whose result cannot be encoded: nothing is written for it.
* `RemoteAgent` extends `Transport` with the client and the agent at the other end of the
  connection: the remote side of a call is the stages of `Transport` with what the
  client sends.
* `Server` - configuration, `initialize`, the two ways to run, `Handler` and `Shutdown`
  under `Server.mu`. `Lifecycle` has what happens inside `agentService.Close` and
  `httpServer.Shutdown`.
* `Conversation` - `Runner.Next` and `Steps` with the tool resolver. `Response` and
  `Delivered` are the conversions of the three providers, as far as they decide which
  calls are run and which results arrive.
* `Prompt` - the builder: which parts become references, under which number, in whose
  tool. `shown` collects the references of every text that was built.
* `MC*` - the modules above on small sets; `MCParts` puts the components next to each other
  that share no state, and a behaviour is about one of them.
* `Filter` - the loop that keeps some elements of a sequence, used by `Transport` (active
  extensions) and `Conversation` (decoded calls). It says what `SelectSeq` says, one round
  at a time, which is the form that can be proved about.
* `TaskUpdaterProofs`, `AgentServiceProofs`, `LifecycleProofs` (with `Server`),
  `StreamingProofs`, `S3Proofs` (store and files), `TransportProofs` (with `RemoteAgent`),
  `ModelProofs` (conversation and prompt) - the theorems, one module per group of
  components; `SequenceLemmas` - what several of them need about numbers and sequences.

Operators named like a bug (`AppendAcceptsAnyVersion`, `FailJobDropped`, ...) stand before
the definition they are a wrong version of and are used by no specification; replacing
the definition by them must break the property named in `PROJECT.json`.

### Abstractions

Messages and artifacts are model values; texts, timestamps, metadata and IDs other than
those of tasks, artifacts and push configurations are left out. `AddMessage` stamps the
IDs of task and context on the copy of the message in the event but not on the copy in
the history; both are one value here. `pushes` records accepted notifications; an
endpoint that took one and whose answer was lost counts as one that failed. Errors are
one value: the code treats them alike. `AgentService!WaitReturns` abstracts the polling
that `Streaming` models; "wait" stands for a blocking request and for an open stream.
A `Restart` stops every worker and client at once, and the task lock is shared by all
workers: the runs with a locker are about one process, or about a distributed lock.
Reads that change nothing (`GetTask`, `GetAgentCard`, ...) are not actions. Refused
requests change nothing and are not steps.

Of a JSON-RPC request the models keep what a branch looks at: method, Accept header,
extension URIs, output modes, outcome of each check. Error texts are codes. A client of
`RemoteAgent` that gives up stands for a timeout and for a broken connection. In
`Server`, an agent, a storage and patterns that cannot be used end `initialize` or
`Handle` with an error or a panic and are left out. `Conversation` has answers with up
to two calls, whose arguments decode, are no object, or are broken; in `Prompt` a message
is the sequence of its file parts.

## Runs

`CHECK_DEADLOCK FALSE` everywhere: the number of requests is bounded, and a service
that has answered them, or was stopped, rests.

| passing run | instance | shows |
|---|---|---|
| `MCTaskUpdater` | 2 goroutines, 1 task, 3 events, 2 artifacts under one ID, 1 endpoint, 1 fault of any kind | the update protocol keeps stream and snapshot in step (`SnapshotInStep`, `SnapshotReplays`), never loses a write (`SaveNeverConflicts`), announces only what is saved (`PushedIsSaved`), leaves a canceled task canceled (`CanceledIsFinal`), never heals by accident (`WedgedForever`), and implements `TaskLedger` |
| `MCServiceInMemory` | in-memory queue, 1 worker, 2 clients that create and cancel, 2 agent updates, 9 events | blocking requests return (`BlockingSendReturns`), a cancellation reaches the agent (`CancellationReachesAgent`) |
| `MCServiceLocked` | redelivering queue, task locker, 2 workers, 2 requests of any kind, shutdown, 2 faults of any kind, 5 events | a terminal task is not started again (`TerminalNotRestarted`), a started task ends, waits or has a job (`StartedTaskHasJob`) |
| `MCServiceRetries` | redelivering queue, task locker, 2 workers, create and follow-up, 1 redelivery, 9 events | retries after conflicts lose no task (`LiveTaskHasJob`) and blocking requests return |
| `MCStreaming` | 1 poller, 5 events, limit 5, channel of 2 | every event once and in order, streams close, waits end |
| `MCLifecycle` | 3 requests, channel of 1, `Close` or `Shutdown` at any moment | nobody sends on the closed channel, the queue outlives the worker, and stopping ends but for three named ways to hang (`StopsUnlessStuck`) |
| `MCParts`, S3 | updater: 2 processes, 1 task, 3 events, 1 endpoint, 1 fault; files: 2 handles, 7 combinations of flags, 2 bytes each, an object of 1 byte or none, 1 failing put | as far as no put lands on a changed object, S3 keeps what the file store keeps (`UnracedInStep`, `UnracedIsLedger`); a reported update is listed (`UpdatedIsListed`); files are read in order and stored whole (`ReadersSeeContent`, `WritersStoreAll`) |
| `MCParts`, transport | handler: 1 request, 3 extensions of the three kinds, 2 header URIs, 2 configurations; remote agent: 2 calls, 3 messages, window of 2 | at most one answer per request, in a form the client accepts, and none only for a result that cannot be encoded (`AnsweredOnce`); no service call past a gate, or without what the extensions that have no method hook made of its context (`CalledOnlyIfAdmitted`); no completion without a remote answer and no client result but that of the service (`CompletionIsRemote`) |
| `MCParts`, server | 2 goroutines, 2 additions, 2 runs, HTTP or Lambda | what was added before the first run is served as it was (`EarlyConfigurationIsServed`), connections only while the service is started (`ListeningIsStarted`) |
| `MCParts`, model | conversation: each provider, 3 steps, 2 calls, 1 tool, 2 failed generations; prompt: 2 messages, 1 file, 1 artifact, two blocks built once or one built twice | every call is answered (`CallsAreAnswered`) and run once (`ToolsRunOnce`), retries keep the history in step (`HistoryInStep`), references resolve (`ReferencesResolve`) |

The bounds are the smallest with which the cases meet: two goroutines conflict, the
third event is the first that can follow a cancellation, a channel of one is full with
two requests. `MaxVersion` ends a behaviour of `AgentService` in the safety run only; in
the liveness runs it is larger than any behaviour needs, so that no update is refused by
the bound. Pollers do not interact, so one is enough; so is one task, since no code
relates two tasks. On S3 the third event is again the one that can be lost to a race.
Two header URIs allow two kinds of extension or a repeated one; a history of three is the
first that a window of two cuts; two agent updates are those of an agent that asks for
input and goes on all the same; two blocks or two builds are what makes references
compete for the kept tool; two runs are needed to initialize a server twice. The type
invariants of `AgentService`, `Streaming` and `Lifecycle` say what their variables range
over; the runs spend their properties on behaviour. Symmetry is used over goroutines
that play the same part, in the runs that check no liveness.

Runs that are expected to fail: each states what a comment, the interface or a test
says, and TLC shows what the code does instead.

| run | statement | what happens |
|---|---|---|
| `MCServiceTerminalChanges` | a terminal state is final (`a2a/a2a.go:86`) | `CancelTask` overtakes a completion: completed becomes canceled |
| `MCServiceStaleState` | input-required tasks can be continued (`atlasic_test.go:856`) | the message of a client that had read an older state is recorded, and no job is enqueued |
| `MCS3Race` | `SaveTask` checks the version for optimistic concurrency control (`awsadp/s3_storage.go:81`) | two processes pass the check with the same version, and the later put takes a canceled task back |
| `MCS3FileEnd` | `s3File` implements `fs.File` and its `Read` `io.Reader` (`awsadp/s3_file.go:20`, `:46`): reading comes to an end (`ReadersReachTheEnd`) | the `Read` after the last byte loads the object again and returns its first byte; `io.ReadAll` does not end |
| `MCHookContext` | the context is enriched before the method is executed (`_examples/extensions/README.md:21`, `:106`; `HooksPrepareTheContext`) | what a method hook adds to the context is dropped (`transport/handler.go:685`) |

### Limits of the guarantees

The passing properties are stated as strongly as the code allows. The exceptions they
make are behaviours of the code, each reachable in the models:

* Without a task locker, a duplicate delivery takes a completed task back to working:
  the terminal check (`atlasic.go:287`) and the first update are separate calls.
  `TerminalNotRestarted` is checked with the locker.
* `ProcessJob` takes every error that wraps `context.Canceled` for the end of a canceled
  task ("it's already CANCELED", `atlasic.go:342`-`:346`) and calls neither Complete nor
  Fail. A shutdown, a lost heartbeat, or an agent that returns such an error of its own
  therefore leave the task working. With the redelivering queue it keeps a job
  (`StartedTaskHasJob`), with the in-memory queue it does not, and a blocking request then
  waits for ever: `BlockingSendReturns` has the premise that it does not happen.
* `FailFunc` of the SQS queue makes the message visible again at once
  (`awsadp/sqs_jobqueue.go:163`), also when the failure is that the task now waits for
  input: the interrupted task is run again without any. Two follow-ups have the same
  effect on either queue, as they queue two jobs. The models have both, and no property
  says that an interrupted task waits.
* `updateStatus` refuses a canceled task; `addMessage` and `upsertArtifact` do not, so
  the agent can still add to it until its context ends.
* `streamTaskEvents` looks at the last event of a batch (`atlasic.go:959`): if another
  one follows the final status before the poll, the stream stays open. `StreamCloses`
  is for streams that end with the final status, and `EventsDelivered` goes up to the
  first one. A task that waits for input does not end a stream.
* A poll of `waitForTaskCompletion` reads 100 events and moves on to the end of the
  stream (`atlasic.go:852`), so a final status beyond them is missed; `WaitReturns` is
  checked with streams within the limit.
* A notification that an endpoint refuses is logged and not sent again
  (`task_updater.go:182`), although `:150` and `:161` speak of at-least-once delivery;
  `PushedIsSaved` says what holds of those that arrive.
* With the in-memory queue, a status update that loses against a follow-up ends in a
  `FailFunc` that does nothing (`jobqueue.go:81`): the task stays live without a job.
  `BlockingSendReturns` is checked there without follow-ups, and with them on the
  redelivering queue together with `LiveTaskHasJob`.
* `Load` returns the version of the whole stream whatever the limit left out, so a
  stream whose backlog is longer than 100 events skips the rest (`atlasic.go:955`).
  `NoEventSkipped` is checked within the limit.
* The version checks of `S3Storage` do not exclude each other
  (`awsadp/s3_storage.go:82`, `:192`); what the file store guarantees is checked up to
  the first race (`raced`).
* An `s3File` that is read to its end starts again at the first byte, reading consumes
  what a later flush stores, a truncating handle that is flushed loses what it had
  flushed at its next write, and writes through a read-only handle are dropped by `Close`
  and stored by `Flush`. A handle that appends stores the object as it was at its first
  write, over what others stored since. `ReadersSeeContent` is about the first pass over an
  object, `WritersStoreAll` about what was written through the handle itself.
* The context returned by a hook for one method never reaches the service
  (`transport/handler.go:685`, run `MCHookContext`); `CalledOnlyIfAdmitted` says what the
  extensions without such a hook add.
* A result that cannot be encoded (of a registered method or an RPC extension) is logged and
  answered with nothing (`transport/handler.go:790`).
* `RemoteAgent` forwards `History[0]`, the oldest of the last ten messages, where the
  comment says the most recent (`remote_agent.go:108`); if that message is the agent's,
  the remote service refuses it. A remote task that failed, was canceled or asks for
  input is answered with "Task completed on remote agent" (`remote_agent.go:157`), of which
  `CompletionIsRemote` says nothing; a redelivered job sends its message twice. Two first
  calls of `GetMetadata` may both fetch, and the later answer is kept. `Client.CancelTask` returns an empty
  status (`transport/client.go:242`).
* `Server.Handler` before initialization waits for the lock it holds
  (`atlasic.go:1458`), although `:1456` says "Ensure server is initialized". Middlewares
  and extensions added after initialization are ignored, although `Use` applies its
  middleware "to all HTTP requests" (`:1160`); `EarlyConfigurationIsServed` is about what was
  added before. After a `Shutdown` by another goroutine `RunWithContext` goes on waiting for
  its context; a listener that fails leaves the service started, so a second run is
  refused. The Lambda branch applies no middleware and starts no worker.
* Ollama gets only the first of several tool results (`model/ollama/model.go:174`);
  OpenAI calls that come with the finish reason "stop" are not run
  (`model/openai/text_model.go:290`).
* The builder keeps the data tool of the last block that needed one
  (`prompt/builder.go:159`), so `ReferencesResolve` is about the kept block, and
  about prompts with one task or message. The hint a system prompt gives about a cut
  history may name a tool that is not there (`prompt/formatter.go:101`): `builder.go:141`
  promises one "if any data was referenced", and `builder_test.go:109` "when task history
  is truncated"; for such hints only those of the block whose tool is kept are covered.
* Below the level of the models are three data races (`RegisterMethod` while requests
  read the registry, `transport/handler.go:333`; hooks added while a model generates,
  `model/model.go:286`; two goroutines reading through one `s3File`, whose `Read` takes
  the lock for readers, `awsadp/s3_file.go:48`), and the store reads only the first page
  of a `ListObjectsV2` (`awsadp/s3_storage.go:131`). A streaming request whose `Enqueue`
  fails leaves a task nobody processes, which the comment at `atlasic.go:896` accepts. A
  closed task locker would make `ProcessJob` retry until its context ends
  (`atlasic.go:474`); nothing in the library closes it.
* `StopsUnlessStuck` names the ways `Close` and `Shutdown` can wait for ever: the worker
  in `getIDGenerator` (`atlasic.go:165`), an `Enqueue` on a full channel that keeps the
  queue's read lock (`jobqueue.go:88`), a blocking request that outlives the worker
  (`atlasic.go:1201`).

### Fairness

`AgentService!FairSvcSpec`: workers, handlers and updates run (a goroutine in an update
waits for nobody but `fs.mu`, which is held for one call), the tickers of the monitor
fire, hidden messages become visible again; no client has to send anything, no fault has
to happen, and the agent need not return. `BlockingSendReturns` therefore carries the
premise that it does (`AgentsReturn`), and a second one, that an agent returns
`context.Canceled` only when its context was canceled (`AgentsAbortWhenCanceled`): neither
is anything the code makes sure of. `CancellationReachesAgent` holds without them.
`Streaming`: tickers fire and a connected client reads. `Lifecycle`: goroutines that can
go on do; the agent returns (strong fairness, as it may ask for IDs any number of times
first); nobody has to stop the service or to give up a request. The other runs check
safety only and assume no fairness.

## Proofs

Every safety invariant of the passing runs, and every safety action property but one, is
also a theorem of its component's specification: for all values of the constants, from the
assumptions stated in the modules. The run that puts components next to each other
(`MCParts`) checks their properties together; the theorems are about
each component's own specification. `UpdateInv` is an invariant of the run `MCTaskUpdater`.

| theorem | states | holds for |
|---|---|---|
| `UpdaterInvariant`, `TypeCorrect`, `SaveSafe`, `InStep`, `PushSafe`, `CanceledStays`, `WedgedStays`, `LedgerRefinement`, `SnapshotsReplay` | the properties of `MCTaskUpdater`, with the refinement of `TaskLedger` | any tasks, goroutines, messages, artifacts, endpoints and faults |
| `ServiceTypeCorrect`, `ServiceUpdatesSafe`, `ServiceStepsSafe`, `ServiceLedger`, `ServiceReplays` | the same of the whole service | any workers (finitely many), clients, requests, redeliveries and restarts, either queue, with or without locker |
| `EndedStaysEnded` | `TerminalNotRestarted` | `UseLocker` |
| `StartedKeepsJob` | `StartedTaskHasJob` | `UseLocker` and `Durable`, any faults |
| `NoTaskForgotten` | `LiveTaskHasJob` | the same without crashes and failing calls to store and queue (`Reliable`); failing notifications and visibility extensions are allowed |
| `SendSafe`, `WorkerJoinedFirst` | the safety of `Lifecycle` | any requests, any capacity |
| `ListeningAfterStart`, `EarlyConfigurationServed` | the safety of `Server` | any goroutines, additions and runs |
| `ShortStreamComplete`, `ClosedAfterFinal` | `NoEventSkipped`; what a closed stream has delivered | any pollers, any channel, streams of at most `Limit` events |
| `UnracedStaysInStep`, `UnracedStepsRecord`, `ReportedIsListed` | `UnracedInStep`, `UnracedIsLedger`, `UpdatedIsListed` | any processes, tasks and failing requests |
| `ReadersRead`, `WritersStore` | `ReadersSeeContent`, `WritersStoreAll` | any handles, lengths, chunks and failing puts |
| `AnswersOnce`, `CallsAreAdmitted`, `RemoteKeepsHandler` | `AnsweredOnce`, `CalledOnlyIfAdmitted` | any requests, extensions, headers of any length, configurations |
| `CompletesRemotely` | `CompletionIsRemote` | any calls, histories and windows |
| `CallsGetAnswers`, `HistoryKeepsStep`, `ToolsOnce` | the properties of `Conversation` | each provider, any number of steps, calls, tools and failed generations |
| `ReferencesLead` | `ReferencesResolve` | any number of blocks, messages, files, artifacts and builds |

### Arguments

*Task updater.* None of the invariants is inductive. The stream is the lock: an
`Append` with version *v* succeeds only on a stream of length *v*, and whoever succeeds
makes the stream one longer than the snapshot, so everybody else who read the same
snapshot is refused until that goroutine has saved. `UpdateInv` says this per phase:
`AppendReady` (what a goroutine has read is at most as long as the stream, and strictly
shorter while the snapshot is behind), `SaveReady` (a goroutine about to save is alone,
its event is the last of the stream, and the snapshot is still the one it read) and
`NotifyReady`; `StreamShape` and `SnapshotShape` relate the two files, including that
a cancellation within the snapshot's version shows in the snapshot. Torn files are
covered: a torn stream has version 0, nobody but a creation appends at version 0, and
a creation is the only one that knows its task. The refinement uses the same facts:
a status appended to a stream with a cancellation in it would have been read from a
canceled snapshot, which `updateStatus` refuses.

*Event sourcing.* `Replayed` is the recursive function of replaying a stream. It is shown
to satisfy its recursion (`ReplayRounds`) and not to change where a stream goes on
(`ReplayGrows`). By `SaveReady` a save then stores the replay of one event more, and
artifact IDs stay apart because an upsert keeps them (`UpsertUnique`).

*Service.* `UpdaterSteps`: every step of the service is a step of `TaskUpdater`, or a
fault outside of it, so all that is proved of the updater holds of the service. Over
that come layers, each inductive given those below:

1. `BaseInv` - types, `UpdateInv`, and who has a task.
2. `LockInv`, `OwnInv`, `TermInv`, `OverInv` (with the locker; together `JobInv`) - a worker
   past the lock holds it; who updates a task does so inside the call the code makes there;
   a task that is terminal while a worker is past its terminal check was canceled, or ended by
   that worker itself; and when a worker has ended its task, the task is over. A worker
   that may still set a non-terminal status has not ended the task, and a canceled one
   refuses it: terminal tasks stay terminal.
3. `TokenInv` (with the redelivering queue) - what a worker works on, or left as working,
   has its message: in the queue, hidden, or with a worker that still owns it.
4. `RequestInv`, `FinalInv`, `CreateInv` (without crashes and storage or queue faults) - and
   so has every task that exists and is not over, or a request is about to enqueue it.

`KeepsEnd`, the assumption about the agent, is a guard of its updates and needed by layer 2.

*Life cycle.* `Close` first joins the worker, then takes the queue's lock, which no
`Enqueue` can hold then (`JoinInv`, `ClosedInv`). `Server`: `LockInv` ties the mutex to the
goroutine in a critical section, `OrderInv` the listener to the service and to the parts of
a `Shutdown`, and `ConfigInv` what is served to what had been added when the mux was made:
the chain was built in the first run, and later runs and additions leave it alone.

*Streaming.* What the client has, what is in the channel and what is still to be sent are
consecutive runs of positions from the first event on (`InOrder`), and the next poll begins
behind the last of them (`Cursor`): while the stream fits into one page, the version `Load`
returns counts no event that it left out. `EndInv` adds that a stream is closed only after a batch
that ends with a final status.

*S3.* `ObjectsInv`, `WorkInv` and `SavedInv` hold of all tasks, raced or not: they carry
`ReportedIsListed`, as objects and index entries are never removed and every save puts
both. `UnracedInv` is the argument of `UpdateInv` with what a goroutine has read in a call
under way in place of what is stored (`AppendInv`, `CommitInv`), for tasks outside `raced`. The
files: what a reading handle has read and what its buffer still holds are whole rounds of
the object (`ReadSoFar`), and the buffer of a handle that only writes is what it has to
store (`WrittenSoFar`).

*Transport.* `StageInv` ties what is written to the stage of the request, `GateInv` what the
gates have let through to what the stages behind them rely on, with the order of the
extensions kept by the two filters in a row (`KeptTwice`). `RemoteInv` adds whose
request it is and what its service returned; the server may go on after the client has
given up.

*Model.* `StepInv` says how far the calls of a step are worked off, in order
(`Underway`), `IDInv` that the calls that ran and those still to run have different IDs,
`MessagesInv` that the results of an answer follow it; `CallsGetAnswers` follows with what
the three conversions deliver. `PromptInv` says that every reference shown comes from a
block in one of the runs of the formatter (`ShownInv`), and that the kept tool belongs to
one block and one run, and the references of that run are those of that block (`ToolInv`).

### Assumptions

The theorems rest on the named assumptions of the modules, which TLC evaluates in the
runs: ranges of the bounds and disjointness of names. Those that say something about a
program are `NamesAssumption` (the URI of an extension is not the name of a
method, and no method is called as the model's `"none"`) and
`ServiceAssumption` (finitely many workers, as `Restart` counts the messages they had; no
goroutine is both a worker and a request). Hypotheses of a theorem (`UseLocker`,
`Durable`, `Reliable`, `Len(events) <= Limit`) are in its statement; the locker, the
redelivering queue and the limit are needed, as "Limits of the guarantees" says.

### What stays with TLC

* Liveness under fairness (`BlockingSendReturns`, `CancellationReachesAgent`,
  `StopsUnlessStuck`, `EventsDelivered`, `StreamCloses`, `WaitReturns`) and everything that
  needs ENABLED: the prover has no rules for it that could be used here.
* The runs that are expected to fail.

Induction over data is possible in one form: the library's induction theorems take an
operator as a parameter, which cannot be instantiated, but with the predicate as a set of
numbers (`SequenceLemmas!Induction`) first-order statements about recursive functions can
be proved (`KeptRounds`, `ReplayRounds`). Folds, `SelectSeq` and `FlattenSeq` remain opaque unless
their definition is unfolded to such a function.

## Plan

Done: the file store, the update protocol, the service, streaming, the life cycle, the S3
store and files, the transport, the remote agent, the server, the tool loop and the prompt
builder, each with the proofs above. Next, in this order:

1. Refinement: `S3Storage` without races implements `TaskUpdater` step by step (the
   ledger is shown so far); `Streaming` implements an abstract stream that delivers a
   prefix.
2. The Lambda entry of the SQS queue (`ParseEvent`) with invalid messages, and the task
   locker's `Close`.
3. An interrupted task waits for a message, with a count of the follow-ups under way.

The runs stay few: a new component joins a run above where it asks the same question.

## Not modelled

* The model registry and its hooks: a map and two lists, each access under one lock,
  that call functions of the program.
* `atlasictest`: support for tests of agents, not part of a running service.
* The image model of OpenAI, the encodings, the agent card, the wording of prompts and
  the HTTP requests of the push notifier and of the client: data and I/O.
* The cache of `GetMetadata`: one field, filled by the first fetch under its own lock.
* Reads that change nothing: `ListTasksByContext`, file listings, `GetTask`, `Stat`; the
  virtual file system over local files, where each call is one of the operating system's.
