# Formal verification of akala

akala is a TypeScript framework for applications made of *containers* of
commands: a core library (events, queues, observables, modules, middlewares,
network adapters), a JSON-RPC transport, a process manager that runs
containers, a scheduler, workflow automation, a configuration, a package
manager, a binary protocol parser, and the servers and clients built on them.
This directory holds TLA+ models of its parts, the configurations TLC checks
them with, and proofs checked by TLAPS. The reference is the code under
`packages/`; paths below are relative to it. `PROJECT.json` gives the lines
every definition stands for, the hazards of the code line by line, the mutants
that show each property can fail, and the findings.

Two ways to run it, from this directory:

    tlc -workers 2 -config MCEvent.cfg MCEvent      # any run of the table in section 3
    tlapm QueueProofs.tla                           # any *Proofs.tla, and SequenceFacts.tla

## 1. The system

Everything runs on JavaScript's event loop: a callback runs to completion, so
interleaving happens only between callbacks, at an `await`, at a timer, a
message or a file operation, and through *re-entrance*, when a listener or a
handler calls back the object that is calling it. The models take those as
their steps: **one action is what runs between two points where something else
may run.**

| component | state it keeps | operations | interacts with | what is hard |
|---|---|---|---|---|
| `core/src/queue.ts` Queue | pending array, processing flag | `enqueue`, `process`, the handler's `next` | `nextTick`, the handler, `save` | handler, ticks and callers in any order; the chain of process calls |
| `server/src/queue.ts` | a JSON file | `save`, load at construction | the file system | unawaited writes, crash and restart |
| `core/src/events` | listeners, subscriptions, replay buffer | `addListener`, `removeListener`, `emit`, `pipe`, dispose | every other component | listeners that call everything while an emission is in progress, or between two awaits of it |
| `core/src/teardown-manager.ts` | subscriptions to end | `teardown`, `[Symbol.dispose]`, `[Symbol.asyncDispose]` | events, sockets | promised resources, ends that fail or give the manager another |
| `core/src/observables` | arrays, objects, what watches them | array methods, `setValue`, `pipe`, formatters | events, client | listeners that change what they are told about; paths that are replaced level by level |
| `core/src/middlewares`, `router` | ordered members | `useMiddleware`, `handle`, `handleError` | commands, server | error and result swap places; four composites that differ |
| `core/src/module.ts`, `orchestrator.ts`, `sequencify.ts` | tasks, events that are done | `start` | everything that is installed as a module | one orchestrator for every `start()` |
| `core/src/network` | sockets, listeners, buffers of partial messages, retry timers | `on`, `off`, `send`, `receive`, `start`, `stop` | events, json-rpc-ws | fragments, unsubscription, reconnection |
| `cron` | schedules (jobs, timer), jobs (slots, skips) | `start`, `stop`, `addJob`, `trigger`, `skipNext` | timers, events, automate | handlers that stop and start what runs them; overlapping executions |
| `json-rpc-ws` | response handlers by message id, streams; a client's table of connections | `sendMethod`, `processPayload`, `close`, `connect`, `disconnect` | sockets at both ends | ids shared by calls, streams and errors; closing with calls in flight; overlapping connects |
| `pm` | containers by name, their processes, the registry | `start`, `stop`, `ready`, `restart`, exit events | runtimes, json-rpc-ws, config | overlapping starts, dependencies, late events of a former process |
| `pm/src/runtimes` | a child process, a docker container | `stop` and its escalation, the monitor | the operating system, the docker engine | answers that tell what was true, several stops at once |
| `automate` | workflows, schedules, a queue | `load`, `unload`, `start`, the queue's handler | queue, cron, pm | a failure or a restart leaves the queue or a caller waiting |
| `config` | a JSON document, an encryption key | `set`, `delete`, `setSecret`, `getSecret`, `commit`, `load` | file system | two writes, concurrent first secrets |
| `apm/src/lockfile.ts` | a lock file | `snapshot` | registry | concurrent walk of a graph with cycles, failures, abort |
| `storage/src/providers/file.ts` | folders, entries, a cache of files with dates | `visitInsert`, `visitUpdate`, `visitDelete`, `load` | file system | a transaction runs its commands together |
| `protocol-parser` | a cursor in a buffer, to the bit | `write`, `read` of every type | grpc, wasm | numbers that begin and end inside a byte, variable lengths |
| the others | see `components` in PROJECT.json, each with the reason it is not modelled | | | |

What would make each component correct, and so what its module states:

* **Queue**: one handler at a time; no message lost, duplicated or overtaken;
  what waits is picked up; after a restart nothing comes back that was not
  accepted.
* **Events**: a listener is called by the emissions during which it is
  registered, and by no other; *once* means once; a piped event is attached
  exactly while somebody listens; what has to be ended is ended, once.
* **Observables**: who follows a value has that value, whatever those who are
  told of a change do.
* **Middlewares**: the request gets the result that was given, or the error.
* **Modules**: a dependency is activated before what needs it; every `start()`
  settles, for a reason of its own.
* **Network and JSON-RPC**: what one end sends the other hears, once and in
  order; a call's callback runs once; every call is answered.
* **Cron**: one timer per started schedule; executions within their limit; a
  schedule nobody stops goes on.
* **pm**: `status` tells the truth; commands are proxied to live processes
  only; dependencies are ready first; starts return; stops end.
* **Automate**: one workflow at a time, and who waits for one is answered.
* **Files** (config, lock file, records): what is on disk can be read back and
  agrees with what is in memory, as far as the writes allow.
* **Protocol parser**: what is written is what is read.

## 2. The modules

    WorkQueue <-refines- Queue <-EXTENDS- DurableQueue, WorkflowRuns
    Stream    <-refines- Network
    Event Replay AsyncEvents Teardown
    Filter <-EXTENDS- ObservableArrays, Bindings
    Modules Sequencify   Middlewares   Retry
    JsonRpc RpcClient   ProcessManager ChildProcess Docker
    Cron Workflows   Configuration Lockfile JsonFiles
    Fields Varints Protobuf

Each `MC…` module composes the modules of a run and gives constants their
values for TLC. Operators named in comments as *mutants* are wrong versions of
the definition that follows them; no specification uses them. A variable whose
comment begins with *history* records the past for a property and no action
reads it in its guard.

### Queue, WorkQueue (`core/src/queue.ts`)

`pending` and `processing` are the fields; `handling` holds the messages whose
handler was called and has not answered, `ticks` counts outstanding `nextTick`
callbacks, `unseen` and `finished` are the environment's record of what was
enqueued and done. `Enqueue` is `enqueue()` with the `save()` and `process()`
it calls; `HandlerAccepts` and `HandlerRefuses` are `next(true)` and
`next(false)`, with everything they call; `Tick` and `CallProcess` are
`process()` called by `nextTick` and by a user. `Process` is the body shared by
all of them, falsy messages included (the code takes one for the end of the
queue and drops it: constant `Falsy`). `WorkQueue` says what a user may rely
on: one line; the first message is served or goes to the back; only a falsy
message that comes first is lost. The refinement maps the line to
`handling \o pending`.

### DurableQueue (`server/src/queue.ts`)

`save()` starts a `writeFile` of the array as it is now and nothing awaits it,
so `writes` is a sequence of writes under way, each of which opens (truncates)
the file and then writes its bytes, as two steps of the platform. Two
overlapping writes can leave a longer file's tail behind a shorter text, which
no parser accepts: the file is its length and the array it parses to. `Crash`
may come anywhere, `Restart` constructs the queue from the file, or throws when
it does not parse.

### Event, Replay, AsyncEvents, Teardown (`core/src/events`, `core/src/teardown-manager.ts`)

`Event` is an `Event` and a `PipeEvent` over it. `stack` holds the emissions in
progress, each with the copy of the listeners it still has to call; every
method may be called by the main program or by a listener that is running.
`removeListener()` without a listener exists for both: the source's takes the
PipeEvent off it (`ClearSource`), and the PipeEvent's own empties it and leaves
its subscription (`ClearPipe`). A once listener is registered as a wrapper,
which `Entry.wrapper` identifies. `Replay` numbers the emissions of a
`ReplayEvent`, whose `addListener` replays a buffer that a listener may shift
under it before the listener is registered. `AsyncEvents` is `AsyncEvent.emit`,
which awaits each listener in turn over the *live* array, so listeners leave,
come and emit while it waits. `Teardown` is the manager of what ends with its
owner: resources may be promised, fail to end, or give the manager another;
`[Symbol.dispose]` and `[Symbol.asyncDispose]` may overlap.

### ObservableArrays, Bindings (`core/src/observables`)

`ObservableArrays` has every method of `ObservableArray` that changes it, as
the code does it: the change and the event that tells it, in the order of the
code, with the rest of the method after the emission. An array may have places
without an item (`Nothing`), which a longer `length` makes, `sort()` puts last
and an event of `splice()` cannot be read beyond (`ResultThrows`); a listener
that throws ends the emission and what the method had still to do
(`ProgramThrows`). The result of an
`AsyncArrayFormatter` follows the value it was given last: an array, an
observable one, or a promise. `Bindings` is `target.pipe('a.b')`: an
`EmptyBinding`, a binding per path, and for each level the object it met, whose
`ObservableObject` it listens to. `agenda` lists what the calls in progress
have still to do: the handler of a binding may set any object of the path.
`Filter` is `Array.prototype.filter`, written as a recursive function of the
length so that it can be reasoned about.

### Middlewares (`core/src/middlewares`, `core/src/router`)

A request goes down a tree of composites, with and without priorities, and
routes. `called` and `entered` say where it is; each kind of composite treats
what its members return and throw as its own file does, which is why
`AfterStandard`, `AfterError` and `AfterHandleError` distinguish the four.
`UseMiddleware` is `useMiddleware()` on a stack a request is going through, or
has gone through.

### Modules, Sequencify (`core/src/module.ts`, `orchestrator.ts`, `sequencify.ts`)

A call of `start()` is a list of tasks on the orchestrator that all modules
share; a task triggers an event once, whose listener runs, may give a promise
and may fail. Each call adds a listener to the events of that orchestrator and
none is ever removed (`onTaskStop`, with the one that logs), so a call that
comes when the limit of an event is reached is rejected at once
(`StartRefused`). `Sequencify` is the recursive order of tasks, with what it
finds missing and the recursions it finds, checked against the definition of a
right order for every graph of three tasks that need up to two others.

### Network, Stream, Retry (`core/src/network`)

`Network` is a `SocketProtocolAdapter` over a byte stream that is cut anywhere,
with `LongMessageProtocolTransformer` under the transformer of lines. A byte is
the end of a line, a character, or one half of a character of two bytes:
decoding a half by itself is what would spoil a message. A message has
`arrived` when the first listener is called with it, not when its line is
decoded: what was decoded with it is lost when a listener throws, or when
nobody is left to hear it (`dropped`). Listeners add and remove each other
while a message is handed over. `Stream` says what a transport promises; it is
implemented as long as the transport is not spoilt (`Spoilt`: a moment without
listeners, a listener that was removed and added within the same message, a
message that was dropped). `Retry` is the socket that reconnects, with the
timers of its `IntervalRetry`; the program may call `start()` and `stop()` of
that strategy itself, and a handler of it may throw, which leaves the strategy
started without a timer.

### JsonRpc, RpcClient (`json-rpc-ws/src`)

Two connected peers, symmetric. A call is its id; `awaiting` and `reading` are
the two kinds of entries of `responseHandlers`; `wire` is the socket, which
delivers in order. Delivery is split by the branches of `processPayload`:
unknown method, request, invalid response (the error is sent *back*, `Bounce`),
callback, stream. `broken` records the calls whose stream an
error with the same id has removed. `RpcClient` is `Client` with `Base`:
sockets that open, fail and close, the table of connections they enter and
leave, and the promises of `disconnect()`. When a socket fails before it opens,
`connect()` calls its callback with `self` for `this`
(`shared-client.ts:103`), a global of browsers that Node does not have: the
constant `SelfIsBound` tells which, and where it is FALSE the callback is not
called.

### ProcessManager (`pm/src/commands/start.ts`, `stop.ts`, `ready.ts`)

`start()` is an async function, so an invocation is a record with a program
counter (`at`), moved by one action per stretch between two awaits.
`processes` is `this.processes`, by `options.name`, and `registered` what
`pm.register` left in pm, by the program's name: with `--name` or `--new` these
differ (`Name`, `Program`, `Named`; `start.ts:130` and `161`). A process has two
events to announce, because `exit` and `disconnect` both emit the runtime's
`exit`, whose listener unregisters *by name*, that of the container
(`start.ts:195`). `MetadataArrives` is the answer to
`$metadata`, which may come after `exit`. A dependency's list is the constant
`Dependencies`, in the order `sequencify` gives.

### ChildProcess, Docker (`pm/src/runtimes`)

`ChildProcess` is `stop()` and its timers: a call sends a signal and calls
itself with a harder one when its timer ends; the process may ignore every
signal but SIGKILL. `Docker` is the monitor that inspects a container every
two seconds and the `stop()` that runs beside it; the engine's answers are true
when they are made and late when they are heard.

### Cron (`cron/src/state.ts`)

`started`, `planned` and `armed` are a schedule's `_nextExecution`,
`plannedExecutions` and the timers the runtime really has: the code can lose
track of the difference, the model cannot. `Fire` is the continuation of a
timer, `Trigger` calls the next job of the emission, and a handler has three
ends, before which it may call every method of every schedule and job.
`promises` and `leaked` count executions that will or will not give their slot
back. `jobs` has the jobs of a schedule in order, because `removeJob()` finds a
job and then splices it out of an `ObservableArray`, whose `splice(index, 1)`
comes down to `pop(1)`: the last one leaves (`state.ts:58`, `array.ts:292-297`).
Dates are abstracted: an armed timer fires at any time.

### WorkflowRuns, Workflows (`automate/src/commands`)

`WorkflowRuns` extends Queue with the handler that `$init` gives it: it starts
a container, has it process the workflow, stops it and only then calls
`next(true)`; messages come from cron, from a caller that waits or from one
that does not, and a crash brings the queue back from its file without the
promises. `Workflows` is `load`, `unload` and the schedules of cron triggers:
`load()` awaits, so two calls for a name run together. An `unload()` takes the
last job of the schedule, as above: the history `misplaced` has the jobs that
stayed or left for another, and those for which the schedule had too many
listeners (`MaxListeners`).

### Configuration (`config/src/configuration.ts`)

A value is its secret, a secret the key that encrypted it. Calls of
`setSecret`, `getSecret` and `commit` run together and stand where they await;
`commit` writes the document and then the key of that moment. Reads and writes
may fail: a write that is cut leaves half of its file (`torn`), a key file that
is missing, half written or cannot be read is no key (`ReadsKey`, from the
`() => undefined` of line 242; `misread` when there was one). A crash may come
anywhere, and `load()` reads what is on disk.

### Lockfile (`apm/src/lockfile.ts`)

`snapshot()` walks a graph of packages with all branches together. A call of
`processPackage` is named by the way it was reached; adding a package may fail,
a specifier may not resolve, a signal may abort. It is given a lock, as
`install.ts:20-57` and `113` give it the one on disk: what that has is not
walked again (`Loaded`, line 84), the root included, which ends the snapshot
where it begins. The graphs are constants and have a cycle, workspaces,
siblings, a dependency with workspaces, and locks of the same root, of another
root and of a snapshot that failed. A package has begun (`Begun`) when its
entry has kinds; the history `replaced` tells that an entry was made over one
that had.

### JsonFiles (`storage/src/providers/file.ts`)

One record of one collection. A command waits for the folder of its
collection, whose promise has the five phases of `FolderEntry.then` (`known`,
`making`, `made`, `listing`, `open`), looks for the record in its entries, and
then reads or writes the file through `lstat`. Every write of the file moves a
clock: `onDisk.time` is its `mtime`, `cached.read` the `lastRead` of its
cache. Callbacks of the file system run once nothing is ready to go on, as
promises go first on the event loop. Two things are idealised: the clock moves
with every write, so that two writes never have the same `mtime`, and the
file system does what it is asked, full disks and permissions left out.

### Fields, Varints, Protobuf (`protocol-parser/src/parsers`)

A number is the set of its bits that are one. `Fields` has the classes of
numbers of every width and the buffers, with the cursor's byte and bit as fields
of the model, so that the tables the code has for each offset are what is
checked; `Varints` the variable lengths, as groups of seven bits; `Protobuf` the
writer and the reader of messages with a nested object and a packed list, byte
by byte.

## 3. What the runs check

A run composes modules that do not share state by a variable `part`, chosen in
the initial state: a behaviour is one of the parts, and the variables of the
others keep one pinned initial value. So a run asks each module its own
question, and what it explores is the sum, not the product, of the parts. The
fairness of a part is conditioned on it or on actions that are never enabled
outside it.

| run | parts | properties | result |
|---|---|---|---|
| `event` | Event, Replay, AsyncEvents, Teardown, ObservableArrays, Bindings | `PipeAttachedWhileListened` `OnceAndBounded` `ReplayedOnce` `EmissionsReachAll` `EndedOrKept` `ArraysFollow` `BindingsFollow` | hold |
| `rpc` | JsonRpc, RpcClient | `CallbackOnce` `WaitingCallIsSomewhere` `ClientInStep` `EveryCallSettles` | hold |
| `pm` | ProcessManager | `RunningIsUp` `RegisteredIsConnected` `DependenciesReadyFirst` | hold |
| `network` | Network with Stream, Retry | `ListenersKept` `RetriesStop` `CarriesTheStream` `EveryMessageArrives` | hold |
| `core` | Modules with Sequencify, Queue with WorkQueue | `OneHandler` `StartsInOrder` `EveryStartSettles` `ServesInOrder` `PatientQueueDrains` | hold |
| `host` | Configuration, Lockfile, DurableQueue, ChildProcess, Docker | `StopsAndTells` `ExitsAreTrue` `SecretsStayReadable` `LockIsComplete` `FileKeepsTheLine` `WalksAndRuntimesEnd` | hold |
| `automate` | WorkflowRuns, Workflows, Cron | `RunsAnswer` `OneTimer` `SlotsAccounted` `WorkflowsInStep` `EveryWorkflowFinishes` `ChainHolds` | hold |
| `wire` | Middlewares, Fields, Varints, Protobuf, JsonFiles | `RequestsAreAnswered` `MessagesReadBack` `RecordsAreKept` `FieldsReadBack` `ReaderAndCommandsEnd` | hold |
| `queue_refused` | Queue | `EveryMessageFinishes` | **violated** |
| `pm_ready` | ProcessManager | `EveryStartReturns` | **violated** |
| `core_order` | Modules | `DependencyOrder` | **violated** |
| `wire_nested` | Protobuf | `NestedReadsBack` | **violated** |

Some properties are conjunctions, so that one run tells one thing about one
component. Their parts, each defined and commented by itself in its module:

* `OnceAndBounded`: what ran once is gone, a once listener is reached by no
  emission that begins after it ran, and there are never more listeners than
  the limit (`FiredIsGone`, `OnceFiresPerEmission`, `ListenersBounded`).
* `ReplayedOnce`: `HearsEachOnce`, `OnceHearsOne`. `EmissionsReachAll`:
  `MissesOnlyAfterDepartures`, `NoListenerTwice`, `SettledOnceIsGone`.
  `EndedOrKept`: `NothingForgotten`, `EndedOnce`.
* `ArraysFollow`: `ShowsTheValue`, `FollowsTheValue`, `ShowsTheLatest`.
  `BindingsFollow`: `FollowsItsPath`, `HandlersKnow`, `PathIsWatched`.
* `RequestsAreAnswered`: `ResultIsTheOutcome`, `ErrorsAreKept`, `CalledOnce`,
  `PathIsRestored`.
* `ClientInStep`: `TableIsOpen`, `OneUnlessOverlapped`, `CalledBackOnce`,
  `PendingIsClosing`.
* `ListenersKept`: `SubscribedWhileListening`, `KeepsItsPlace`,
  `EveryoneHears`. `RetriesStop`: `OneRetryChain`, `ClosedOpenIsNotRetried`.
* `StartsInOrder`: `DependencyOrderWhenAlone`, `SettledForAReason`,
  `ListenerRunsOnce`.
* `SecretsStayReadable`: `SecretsShareTheKey`, `SavedSecretsReadable`,
  `SavedKeyIsKept`. `FileKeepsTheLine`: `SettledFileIsLine`,
  `ConservedUntilCrash`, `RestoresOnlyAccepted`. `LockIsComplete`: `AddedOnce`, `LoadedIsKept`,
  `EdgesResolve`, `EveryDependencyRecorded`, `WorkspacesKeepDevDependencies`,
  `AbortStopsAdding`. `RecordsAreKept`: `BelievedIsTrue`, `WritesStay`,
  `InsertsNothingOver`, `KnownIfPresent`, `EndsForAReason`.
* `StopsAndTells`: `NoTimerAfterExit`, `KilledLast`, `ExitTellsTheEnd`.
  `ExitsAreTrue`: `ExitAfterEnd`, `AnnouncedByEach`. `WalksAndRuntimesEnd`: a
  snapshot resolves or rejects, `StopResolves`, `EndIsAnnounced`.
* `RunsAnswer`: `OneContainer`, `WaitersAreAnswered`. `WorkflowsInStep`:
  `JobsAreOfLoadedWorkflows`, `LoadedWorkflowsAreScheduled`,
  `UnloadSparesTheOthers`. `ChainHolds`: `ChainBreaksOnlyByStopOrThrow`,
  `KeepsFiring`.
* `FieldsReadBack`: `CursorsAgree`, `ReadsBack`, `NothingErased`.
  `MessagesReadBack`: `NumberReadsBack`, `OneNumber`, `MessageReadsBack`,
  `ReadsInside`. `ReaderAndCommandsEnd`: a message is read to its end or
  refused (`ReaderEnds`), and every command on a record is answered or the
  process has ended (`CommandsEnd`).

Each conjunction has the type invariant of its module as a conjunct too
(`TypeOK`, `ReplayTypeOK`, …).

### Exceptions that properties name

Several properties hold but for cases that the code really does not handle.
Each is an explicit hypothesis, a history variable or a named operator in the
property, not a restriction of the model: the model does go there.

| in | exception | why the code allows it |
|---|---|---|
| `PipeAttachedWhileListened` | `cleared` | emptying a source leaves the pipe's subscription set; `removeListener()` without a listener empties a PipeEvent and leaves it attached (`events/shared.ts:329-338`) |
| `ReplayedOnce` | `disturbed` | an emission made during the replay of a listener is not seen by it; another listener throws |
| `EmissionsReachAll` | one listener for each that left | the array is shortened under the loop |
| `EndedOrKept` | `late`, `behind`, `repeated` | `asyncDispose` empties the list after its wait, `dispose` before an end that may throw; two disposals may overlap |
| `ArraysFollow` | `strayed`, `overtaken` | events of an outer change are told after those of an inner one; a longer length is told as a pop of nothing; places without an item are sorted or overwritten; a listener that throws ends an emission before the result hears it, or before the array is cut; the answer of a promise is taken although a later value was given |
| `BindingsFollow` | `unwatched`, `cut` | `setValue` meets a new object without watching it; a handler's exception ends the emission |
| `RequestsAreAnswered` | `dropped`, `broken`, `shifted` | see *Middlewares* below |
| `WaitingCallIsSomewhere`, `EveryCallSettles` | an end that closed, `broken` | nobody is told of the calls that wait; an error that bounces while the callee reads a stream of that id ends in the stream |
| `ClientInStep` | `overlapped`, `SelfIsBound` | `isConnected()` is false until a socket opens; the callback of a `connect()` that fails is reached in a browser only |
| `RegisteredIsConnected` | a container started under another name than its program's | it is registered under one name and unregistered under the other |
| `CarriesTheStream`, `EveryMessageArrives`, `ListenersKept` | `misuse`, `dropped` | `off()` may remove another's function, a gap without listeners loses bytes; the messages that came with one whose listener throws are lost, and so is one whose turn comes when nobody is left |
| `RetriesStop` | `stopInside`, `threw`, `byHand` | a `stop()` and a `start()` of the handler make a second chain; a handler that throws leaves a chain without a timer; `start()` of the strategy does not ask the socket |
| `SecretsStayReadable` | `overlap`, `lost`, `misread`; `unsaved` | two calls may make the first key; a crash may come between two writes; a saved key that cannot be read is replaced; while the write of the key has failed, the key is in memory |
| `LockIsComplete` | `addFailed`, `aborted`, `replaced`, `NestedWorkspaces`, `Loaded` | see *Lock file* below |
| `StartsInOrder` | the order of dependencies is of a call alone; a call beyond the limit of listeners | finding 3; no listener of the orchestrator is removed |
| `WorkflowsInStep` | `together`, `misplaced` | `load()` awaits between asking for a name and taking it; the last job of a schedule leaves, whichever was to |
| `FileKeepsTheLine` | `tangled`, a crash | nothing awaits `save()`, and writes overlap |
| `RecordsAreKept` | `met`: edits, writes or reads together, two folders, a folder used before it was listed | see *Records* below |
| `RunsAnswer` | a crash | promises are not in the file, and a container outlives the process that started it |
| `EveryWorkflowFinishes` | `faultless` | a stop that fails, a workflow that does not exist, a crash |
| `FieldsReadBack`, `MessagesReadBack` | `Misaligns`, `Lost`, `Cut`, `Representable`, `LengthTold` | see *Protocol parser* below |

### Bounds, and why they are enough

| part | bounds | what they reach |
|---|---|---|
| Queue, DurableQueue | 4 messages (1 falsy, 1 loaded at construction, 1 that may be refused); 3 messages, 1 crash, 3 writes under way | one handled, one waiting, one refused and one enqueued meanwhile; three writes let an older one finish last |
| Event, Replay, AsyncEvents | 3 registrations, 3 emissions, nesting 2, limit 1; 3 listeners, a buffer of 2, nesting 3; 3 waiters, 2 emissions | a listener added, removed and added again within a nested emission; a buffer that is shifted during its replay |
| Teardown | 3 resources, 2 disposals | one promised, one that fails and one given by the end of another |
| ObservableArrays | an observable array, a plain one, a promise, items {1, 2}, length 2, nesting 2, 2 methods called, lengths set to 0..2 | a change told within the telling of another, an array that grows, a listener that throws before the result hears, a promise answered late |
| Bindings | 2 bindings, 2 + 2 objects, 3 calls, 1 handler that sets | both bindings told in turn, a level replaced by the handler of the first |
| Middlewares | a tree of 8 middlewares in 3 composites, 2 members to add, paths of at most 2 segments, both kinds of composites | each composite inside and around another, results and errors before and after each place |
| Modules | 3 modules, of which one needs both others and one of these the other, 3 calls of `start()` made in order, limit 2 | calls that share a dependency, one that is the other's dependency, and a third that finds too many listeners, made when the others can start no more |
| Network, Retry | 3 messages (one with a character of two bytes), 2 functions, at most 3 calls of `on`; 6 timers | every cut of the bytes; two losses of the connection with timers armed |
| JsonRpc, RpcClient | a call in each direction, 1 chunk, 2 replies; 3 sockets, 2 hangups, in Node | each end caller and callee, an id shared by a stream and a call |
| ProcessManager | 2 programs, 3 starts (`pm_ready`: 4), 3 processes | two starts that wait for one dependency, a restart whose former process has events to announce; a program that is also started under another name |
| ChildProcess, Docker | 3 calls of `stop()`; 2 | a call in the middle of the escalation of another |
| Cron | 2 schedules, 2 jobs (two slots, no limit), 1 skip, limit 10 | a handler that stops or starts the other schedule |
| WorkflowRuns, Workflows | 3 workflows (cron, waited for, unknown), 2 crashes; 3 names, 2 files on one cron, 3 requests, limit 1 | a reload while a load awaits, an unload of the first and of the last of two on a schedule, a schedule that is full |
| Configuration, Lockfile | 2 secrets, 2 calls, 2 keys, until two first secrets overlap or a key is misread; 7 graphs, 2 failures | two first secrets, a crash and a failure at each write; a cycle, a diamond, siblings, nested workspaces, and the locks of a reinstallation, of another root and of a failed snapshot |
| JsonFiles | 3 commands of 5 kinds, 2 together, 1 edit | a load or a write beside each step of a write, and a third command that meets what they left |
| Fields, Varints, Protobuf | every width and bit offset, messages of 3 fields; bits at the edges of every group; lists of 0 to 3 numbers, of 128 and of 129 | every row of every table; a list whose length is cut, and one whose length is not |

`CHECK_DEADLOCK FALSE` is set where a bounded environment, or a call that has
returned, runs out of things to do; `queue_refused` checks deadlock.

### Findings

The four violated runs, and the sentence of the repository each contradicts:

1. **A refused message is not retried** (`core/src/queue.ts:65`). `next(false)`
   enqueues the message while the flag is still set, so its `process()`
   returns, and nothing calls `process()` once the flag is cleared.
2. **A start waits for a `ready` that already came**
   (`pm/src/commands/start.ts:108`). The event of a dependency that is running
   is awaited although it was emitted, so starting `web` after `db` never
   returns; neither does the start of a chain of three programs from nothing.
3. **A dependency is taken for activated while it activates**
   (`core/src/module.ts:70`). The second `start()` that reaches a task goes
   straight to `complete()`, which marks the event done.
4. **A nested object is written with the length of its last property**
   (`protocol-parser/src/parsers/protobuf/message.ts:44`).

### Observations

What the models show of the code beyond the findings. The first ones
contradict a sentence too; they are not runs of their own because the modules
above already state what holds instead.

* *Queue*: `save()` of a server queue built over an array throws between the
  push and `process()` (`server/src/queue.ts:28`), so that queue never
  processes, although the comment of `enqueue` says it does; `automate` builds
  one when it is given no file (`$init.ts:40`). After a restart the queue waits
  for the next `enqueue()` before it goes on.
* *Events*: a once listener runs twice when an emission nested in an earlier
  listener listener reaches it first (`events/shared.ts:225`). A PipeEvent that
  is emptied by `removeListener()` without a listener stays attached to its
  source for nobody, until a listener comes and goes (`events/shared.ts:329`).
* *JSON-RPC*: "each request can only have one reply"
  (`json-rpc-ws/README.md:80`), but a stream passed to an unknown method is
  answered per chunk, and two ends without a handler for an id send each other
  errors until one closes. In Node the callback of a `connect()` that fails is
  never told: `callback.call(self, err)` throws a ReferenceError
  (`shared-client.ts:103`).
* *Network*: `close()` of a socket that has lost its connection leaves its
  retries running, though the comment at
  `shared.socket-transformer-with-connection-retry.ts:140` says otherwise;
  `off('message', f)` compares `f` with the wrong element and removes the last
  listener, whoever's it is (`shared.socket-protocol-adapter.ts:72`, `88`). A
  listener that throws takes with it the messages that were decoded with its
  own. `IntervalRetry.start()` asks nothing of the socket, so a program that
  calls it after `close()` has retries that no event of the socket stops; and a
  handler that throws leaves the strategy started, so that `start()` does
  nothing until `stop()`
  (`shared.socket-transformer-with-connection-retry.ts:56-69`).
* *pm*: two overlapping first starts of a program spawn two processes and keep
  one; the late `disconnect` of a former process unregisters its successor; a
  worker never announces its end. A container started under another name than
  its program's stays registered under that of the program when it is dead
  (`start.ts:130`, `161`, `195`).
* *Modules*: every `start()` adds a listener to each of two events that all
  modules share, and removes none: with `Event.maxListeners` at 10 and the
  listener that logs, the eleventh call is rejected although nothing failed
  (`module.ts:354-359`, `events/shared.ts:189`).
* *Cron*: the execution that takes the last slot never gives it back; `stop()`
  in an emission is undone by the `start()` after it; `removeJob()` removes the
  last job of the schedule, whichever it was asked to (`state.ts:58` over
  `array.ts:292-297`).
* *Automate*: the start of an unknown workflow leaves the queue waiting for
  ever, as a failing stop does; a scheduled message restored from the file is
  reported failed although its workflow ran, since its promise was saved
  without methods; a second workflow with the cron of a first is refused;
  unloading the first of two workflows on one cron takes the second off it and
  leaves the job of the first, which goes on being triggered (`unload.ts:26`).
* *Configuration*: after a crash between the two writes of `commit()` the
  secrets in the file have no key; two first secrets set together are
  encrypted with two keys, of which one is kept; a key file that cannot be read
  is taken for none, so that the next first secret makes another key and
  `commit()` writes it over the saved one (`configuration.ts:242`, `326`, `364`).
* *Lock file*: the comment "atomically" of `lockfile.ts:83` is of a check, an
  await and a set; the set `visited` is what makes it hold. When `addPkg()`
  fails, or the signal aborts, the edges to a package that is not recorded
  stay, and `install` throws on them. A package that is reached as a
  dependency before it is reached as a workspace is recorded without its
  development dependencies. The workspaces of a dependency are walked with a
  set of their own, so their walk may ask the lock for a package that another
  walk is adding, and `lock.packages[pkgKey(pkg)] = {}` of line 88 then makes
  its entry again (`replaced`): the tasks of the first walk that come back to a
  kind the entry has lost throw in their catch, and what they had recorded is
  gone. A package that the given lock has is not walked, so a dependency that
  was added to it since is not recorded, an edge that led nowhere stays, and
  when the root itself is in the lock nothing is recorded at all
  (`lockfile.ts:84`): `LoadedIsKept` states it.
* *Records*: the commands of a transaction run together, and an insertion
  awaits between asking for the folder of its collection and making it: two
  first insertions make two `FolderEntry`, the second replaces the first, and
  what was inserted through the first is on disk and not known
  (`providers/file.ts:207`). The optimistic check of line 542 and the parser
  of line 520 throw in callbacks of the file system: they end the process
  rather than reject the promise. That happens when another program edits a
  record that is then updated, but also when a load meets a write of the same
  process, or leaves a date that makes the next update fail.
* *ObservableArray*: `splice()` deletes and pushes at the end rather than at
  `start`; `pop(n)` of a shorter array takes fewer than it says; setting
  `length` tells of items before it cuts them, and a longer one as a pop of
  nothing, so that a formatted result has fewer places (`array.ts:84-92`);
  events of an out-of-range `splice` tell less than happened; `unshift()`
  returns the wrong length; a late answer of a promise replaces a later value,
  a promise given again is ignored, and the former array is still followed
  while a promise is awaited.
* *Bindings*: a binding set by a handler before its own turn goes deaf on the
  object it was given (`object.ts:266`); an `EmptyBinding` set to null makes
  the first of its piped bindings throw and the others hear nothing (line
  326); a path whose objects never come throws at its twelfth evaluation (line
  231 and the limit of listeners, which `MaxPipes` stands for); two handlers
  on a binding may hear the newest value first; the members of a value that is
  no object are that value; attaching after a disposal leaves a listener.
* *Middlewares*: composites without priorities replace what an error
  middleware throws by nothing, or drop it with a rejection nobody handles;
  `'break'` is a result of one of the four and "not handled" in the others;
  the stack with priorities is sorted in place under a request that goes
  through it, and the running member is called again; the error of one route
  goes to the error middlewares of all later routes, whatever their paths.
* *Protocol parser*: four bits on the last bit of a byte, and buffers whose
  length is fixed, leave the writer and the reader at different places; two
  bits on the last bit are swapped; negative numbers lose their sign, but for
  whole bytes in most widths; inside a byte the halves of numbers in little
  endian, or of signed ones of 64 bits, change places; 24 bits in big endian
  are written over the field that follows (`Misaligns`, `Lost`, `Cut`, with the
  lines). A varint ends at a byte 0x80, so a number with a group of seven zero
  bits is cut there: so is the length of a packed list of 128 bytes, which is
  read as a list of nothing, and its numbers as headers. Lengths are counted in
  bytes of eight bits of which seven are used; a signed LEB128 may lose its
  sign (`Representable`).

### Fairness

Safety properties assume none. Where a property is temporal, fairness is what
the platform gives, and nothing of users: promises that are settled continue,
`nextTick` callbacks and timers run (weak fairness; strong fairness of each
`Fire`, which the handlers of other schedules disable while they run), sockets
deliver what they carry, the file system answers, node reports the end of a
process that has ended, the docker engine answers or fails, and handlers that
were called return. Programs may never call anything again.

* `PatientQueueDrains` and `EveryMessageFinishes` assume that handlers answer,
  the first only for queues whose handlers never refuse; `queue_refused` also
  assumes that a handler accepts a message it is given again and again, so
  that the counterexample cannot be a handler that refuses for ever.
* `EveryStartSettles` assumes that listeners end and that the promises they
  gave settle. `EveryWorkflowFinishes` assumes that containers start, end and
  stop, in behaviours without faults.
* `EveryCallSettles` and `EveryMessageArrives` assume delivery, by a transport
  that neither loses nor reorders, as a WebSocket does while it is open.
* `WalksAndRuntimesEnd` assumes timers, that SIGKILL kills, and that what a walk
  awaits answers.
* `pm_ready` assumes that processes call `ready` and do not end.

## 4. What is proved

Theorems hold for every value of the constants that satisfies the `ASSUME`s of
the module; TLC evaluates those in the runs. TLC checked each inductive
invariant before it was proved. Every proof has the same shape: `Init => Inv`,
one lemma or step per action for `Inv /\ [Next]_vars => Inv'`, and
`Inv => property`, put together by PTL. The bounds of section 3 are constants
of the modules: a theorem holds for any number of calls, emissions, crashes or
messages, not for those TLC explores.

* **SequenceFacts** holds what the proofs say of sequences: what is in a
  concatenation, a tail, an insertion or a sequence without one of its places,
  that these stay injective, prefixes, what a filter keeps, functions given by
  iteration (`Recursion`, `StepByStep`), and *ranks*: in a set of numbers, the
  element that has so many before it, which is how the proofs of `Network`
  speak of the k-th line without counting recursively.

### Queues

* **QueueProofs**: `QueueTypeCorrect`, `HandlersExclude`, `QueueServesInOrder`.
  `QueueInv` is the types and `OneHandler`, whose second half (the flag is set
  exactly while a handler runs) is what makes the guard of `process()`
  sufficient. Refinement is `LineStep`: each step serves or moves the head of
  `handling \o pending`, appends to it, or leaves it; `Process` itself never
  changes the line but to drop a falsy head. `MessagesAreConserved`: a message
  is in the line once (`LineOnce`) or was handled once, and not both
  (`FinishedOnce`), and what is nowhere is falsy (`NothingLost`); it needs an
  array that holds no message twice to begin with (`InitialAssumption`).
* **HostProofs**, `FileStaysWithTheLine`. `DurableInv` adds to `QueueInv` that
  what the file holds, and what is on its way to it, was accepted
  (`FileIsAccepted`), and that as long as no write overlapped a different one
  the writes under way hold one array, the line with or without the message
  being handled, which is in the file when none is under way (`FileFollows`).
  Its hypotheses are that no message is falsy and that `save()` works. The first
  is needed: `process()` drops a falsy head without a save, so a file goes on
  holding it. The second is the case of a queue that has a file; one built over
  an array throws (see the observations).
* **AutomateProofs**, `RunsAreAnswered`: over `LineOnce` and `FinishedOnce` of
  the queue, `RunsInv` says that a container runs only in the stage of the
  handler that started it (`OneContainer`), that the file holds each message
  once and none that is finished (`SavedOnce`), and where answers stand
  (`AnswersStand`): who still waits has a promise that this process will settle
  and a workflow that has not run, who was refused has nothing left to run, and
  a workflow that is over has answered.

### Events

* **EventProofs**, `OnceListenersRunOnce` and `PipeIsAttachedWhileListened`.
  `ListenersInv`: a wrapper stands for one `addListener` and is in a list once,
  and `Forward` is attached while the pipe is subscribed, unless the source was
  cleared, and the pipe is subscribed while it has listeners, or was emptied at
  once. `StackInv`, of the emissions in progress: a wrapper that ran and is
  still awaited by one is awaited only by those that had begun
  (`FiredIsNowhere`: no list has it, so no later emission copies it), and the
  times it ran and the emissions that still have it make no more than the depth
  of the nesting (`CallsWithinDepth`).
* `EmissionsReachThoseThatStay`: what an `AsyncEvent` misses is paid for. The
  loop goes over the live array by position, so a listener is missed when
  another, before it, leaves: `MissedWerePaidFor` sets the listeners an emission
  went past without a call against those that left, and `NotCalledYet` says that
  who stands behind its position was not called by it.
* `TeardownsEndOrKeep`: a resource that is promised is not on the list yet
  (`PromisedApart`), what is on the list while an `asyncDispose` waits was ended
  unless it came since (`AwaitedIsEnded`), and what is still to be ended was
  not, until a disposal is repeated (`UnendedYet`).
* `LateListenersHearEachOnce`, of `ReplayEvent`. Calls of `addListener` and
  emissions that nest are apart (`FramesApart`: each in progress once, its
  listener in no list while its replay lasts), the buffer is the latest
  emissions (`BufferHoldsLatest`), what a replay has told so far is the interval
  that begins with the oldest emission kept when its listener was added
  (`ReplaysInOrder`), and a once listener that was called is nowhere any more
  (`OncesLeave`).
* `BindingsFollowTheirPath`. `BindingsInv` says that each object a binding met on
  its path is watched (`MetIsWatched`), that a binding has a look at its path on
  the agenda or shows the value of the path (`LooksOrShows`), and that a handler
  is told what its binding shows before anything else is done (`TellsAtOnce`).
* `ArraysFollowTheirValue`. The part that is hard to keep is that the result
  shows the array (`FollowsInStep`): events are told before, between or after
  the changes they tell of. `InStep` says that one emission at most still owes
  the result its event, or the array a cut (the `length` setter), and that to
  hear it, or to do it, takes the result from its items to those of the array;
  what a listener that throws, or a length that grows, leaves untold is
  `strayed`. It rests on a lemma per method, that its event makes the result do
  what the method did (`PushTells`, `PopTells`, `ShiftTells`, `ReplaceTells`,
  `OverwriteTells`, `SortTells`, `CutTells`): that the places told by `sort()`
  and `splice()` are all that differ (`WritesTarget`), by induction on the
  places, and that `pop(n)` of a shorter array, which takes a place counted
  from the end and may leave some, still tells the number it removed
  (`PopRemoves`).

### Network, JSON-RPC and messages

* **TransportProofs**, `CallbackRunsOnce`. The invariant counts a waiting entry
  and a callback that ran together, at most one per id.
* `WaitingCallsAreSomewhere`: `OnlySentCalls`, that nothing is on the wire, at
  the other end or in an answer of a call that was not made, is what lets a
  call that is made now be in one place; a delivery moves it from one to another.
* `ClientStaysInStep`, for any number of sockets and of calls of
  `disconnect()`. `ClientInv` adds `OneConnects` to the property: as long as
  calls of `connect()` have not overlapped one socket connects at most, and
  only while the table is empty; without it, the step that opens a socket could
  make a second connection. `RemovedAt`, about a sequence without one of its
  elements, carries the steps that end a socket.
  That a callback runs once for each socket that opened, and for each that
  failed where `self` is bound, is proved for both values of `SelfIsBound`.
* `RetriesAreStopped`: `RetryInv` adds to the property `ClosedForGood`, that
  the `close()` of an open socket takes back the permission to retry: only a
  `start()` by hand makes a chain then.
* `AdaptersKeepTheirListeners`. `AdapterInv`: the loop that hands a message
  over runs exactly while there are messages to hand over, and has passed the
  place of the function that runs (`Handing`), those it went past have heard
  the message unless one was removed (`HeardSoFar`), and a function is owed no
  place it did not ask for (`OwedOnce`). That a function keeps its places
  unless it leaves (`KeepsItsPlace`) counts places, by cardinality.
* `AdaptersCarryTheStream`, the refinement of `Stream`. While the transport is
  not spoilt there are a stream `s` of bytes and places `cut` where its
  messages end, such that `s` is all that was said (`Spoken`), and the messages
  that arrived, those that are decoded and wait for their turn, the unfinished
  text and the bytes on their way are `s` in that order (`Carried`). An arrival
  moves the boundary, and the lines it completes are the next ones of `s`
  because a line is told by the rank of its end (`LinesOfTheStream`); so what
  the adapter hands over is the next messages of the abstract stream.
* `MessagesAreReadBack`, for any numbers the codecs accept and any lists. For
  numbers (`NumberInv`): what is written are groups of seven bits (`GroupsAre`),
  the reader of a varint stops at the first group that is empty or at the last
  (`NumberEndsAt`), and groups side by side are the number (`JoinedGroups`); so
  the number is read if and only if it has room and no empty group before its
  last (`KeptByVarint`, `UnsignedReads`, `SignedReads`). For messages, lemmas
  say where each property stands in the bytes (`MessageLaidOut`,
  `ObjectLaidOut`, `ListLaidOut`), and `ProtoInv` where the reader is: at the
  start of a property, of a property of the object, or of a number of the list,
  with all before it read (`Reader`). That part holds of messages that are kept
  and whose object tells its length; the reader is within its part whatever was
  written (`Bounds`). A length that is read is the one that was written because
  numbers with the same bits are the same (`BitsTellNumbersApart`): `BitsOf` is
  a recursive function, and what it is follows from the chain of halves of a
  number (`BitsOfIs`), not from an induction over an operator.

### Processes, schedules, modules, configuration

* **DependencyProofs**: `PmTypes`, `StatusIsTrue`, `RegisteredAreConnected`
  from `PmInv`. It adds that a start waits for something exactly at an await
  (`StartsOK`), that a start refused with Conflict has a container to wait for
  (`RefusedExists`, since containers are replaced and never removed), that only
  an ended process has events to announce, and that a start which builds has a
  process of its own (`BuildsOwn`: otherwise `Built` could mark a dead process
  as running). A container whose name is its program's leaves the registry in
  the step that announces its end; nothing is said of those started under
  another name. `DependenciesAreReady`: `ReadyInv` says of each invocation
  (`Sound`) that what it waits for is what its next dependency needs, and that
  each dependency of a fresh start is in its list or has signalled ready. It is
  inductive only because an invocation made for a dependency returns once that
  has signalled (`ReturnsWhenReady`), and every step moves an invocation
  forward (`Moves`) and keeps what processes have signalled (`ProcessesGrow`).
  `LockFilesAreComplete`, for any graphs, any lock that is given and any number
  of failures. `LockInv` is about the tree of calls: each was reached by the
  one above it, which stands where it may have made it (`WalkTree`), and the
  workspaces of a call were come to in turn (`MembersInTurn`). As long as
  nothing failed, was aborted or made again (`Steady`), no call is done before
  those below it, an entry has the kinds its tasks will write to, and every
  package that was found, by a walk, in a set `visited` or on an edge, is in
  the lock or being added (`WalksAreAwaited`): when the root is done nothing is
  being added, so all of it is in the lock, although the walk that found it
  second did not wait. Without failures every entry was made by a call that has
  a task for each of its specifiers, and a task that no longer resolves has
  recorded its edge (`EntriesAreMade`). What the given lock had stays as it was
  (`LoadedKept`), so that the rest is said of the entries this snapshot made.
  Without nested workspaces the calls that are not done share one `visited`
  (`OneWalk`), which is why no package is added twice between the check of line
  84 and the entry of line 88.
* **HostProofs**: `ChildStopsAndTells`, for any number of overlapping calls
  of `stop()`. `ChildInv` adds that what has a timer listens for the end
  (`TimedListens`), that a call which sent an interrupt and no SIGTERM has
  that for its next signal (`InterruptFirst`), and where exits come from.
  `ContainerExitsAreTrue`: `DockerInv` adds that what the engine said, and
  what stops were told, of the end is true (`EndIsKnown`), and that a monitor
  that announced an end owes none (`MonitorOwes`).
  `SecretsCanBeRead`, for any secrets, keys and calls
  and across crashes. `ConfigInv` says there is one key (`OneKey`): in memory,
  in the file and in every call in progress; while there is none, one call at
  most makes it; what is in memory, on its way to the file and in the file can
  be read with it (`Readable`), as long as no saved key was misread, whatever
  other reads and writes fail; calls are at rest while the process is down,
  and a configuration without a file never loads. That a saved key is never
  replaced is an action property, proved from `OneKey`: what `commit()` writes
  is the key in use.
  `RecordsAgree`, for any number of commands on a record. `JsonInv` has a part
  for each thing that can run together. As long as no two writes did, one
  command at most writes, and it alone makes the difference between the file,
  what is known of it and what was acknowledged (`WriterAlone`): at `opened` it
  holds the inode of the file, at `written` the file holds its content, at
  `unlinked` there is none. What a load has read is what the file holds, unless
  the file was written after the `lstat()` of the load (`DatesInStep`): that is
  why line 520 may date it by the earlier answer. As long as the collection had
  one folder all commands use it, and a record it does not know once it is made
  or listed has no file (`FolderKept`); `KnownKept` adds that what it knows has
  one, as long as no folder was used before it was listed, and that a write then
  finds a date, so that it does not end for want of one. As long as nothing came
  together a command holds the date of the file and what is known is no older
  (`NobodyBeside`): no callback throws.
* **AutomateProofs**: `ScheduleHasOneTimer` from `TimerInv` (inductive as it
  stands: `start()` refuses when `_nextExecution` is set, and the continuation
  clears it before it can arm again), and `JobsStayWithinTheirLimit` from
  `SlotInv`, which needs `RunningHasSlot`: the handler in progress was admitted
  when a slot was free, and nothing takes one while it runs. `CronTypes`, and
  from it `ChainsBreakOnlyByStopOrThrow`, an action property: `ChainStep` goes
  through the steps that clear a timer and finds a run that holds the schedule, a
  `stop()` or an exception at each.
  `WorkflowsStayInStep`: a name, a file's command and a job belong to one call
  each (`OneCallEach`, `CommandsOwn`, `JobsOwn`) as long as no two loads of a
  name ran together, and a call holds what it goes on to use (`CallsHold`,
  `UnloadedIsFree`). A schedule has a job once and none of a call in progress,
  so what leaves it with its last one is known (`LastLeaves`): the workflow to
  unload, or one that `misplaced` records with it.
* **CoreProofs**: `ModulesStartInOrder`. `ModulesInv`: the tasks a call has
  passed are done (`CallsProgress`), and as long as calls do not overlap and
  listeners do not fail, an event that was triggered is done, rejected, or at
  the step of the call in progress (`CallsAlone`), so that the order of its
  tasks is the order in which they end. A call that finds too many listeners is
  rejected and changes nothing else (`StartRefusedKeeps`), which is the one more
  reason `SettledForAReason` admits. That the tasks of a module come after
  what they depend on is assumed (`TasksAreOrdered`): it is what `sequencify`
  computes, and TLC checks the assumption on what `Sequencify` gives.
  `RequestsGetTheirAnswer`, for any tree of composites, any kinds of them and
  any path: `RequestInv` relates what each composite the request is in keeps to
  the whole. The last error returned is the error of the innermost composite
  that has one (`LatestKept`), although an inner one may have been entered
  since; a composite that is asked to handle the request is inside none that
  tries error middlewares (`FramesProgress`), which is why a standard middleware
  is called after refusals only; a result that was given is on its way out,
  unless its composite drops it (`ResultsKnown`); the path each composite will
  put back is what the routes around it leave (`PathsKept`, by the number of
  routes). That nothing is called twice (`Tree`) needs a witness: the set of
  composites the request has left. It is in none of them, they are one inside
  the other, and what was called is before where the request stands or in one
  that was left (`LeftBehind`), so the next member is new (`NextIsNew`); a
  member added behind a frame keeps this, one added before it sets `shifted`.
  `FieldsAreReadBack`, for any schema and any values. The induction is over the
  fields, and `FieldsInv` says where the two sides are: the writer goes from
  field to field (`WriterSteps`), the reader is behind it, at the start of a
  field (`ReaderFollows`), and what was written stands in the buffer, bit by
  bit (`FieldsStand`). What a field does is in lemmas on one field at any bit of
  a byte: the cases of the tables (`NarrowWritten`, `NarrowRead`: a number of up
  to 8 bits is put there, and taken from there, as if it were in one piece; but
  for the four bits and the two bits that `Misaligns` and `Lost` name), the
  orders of the bytes of wider numbers, which are permutations, and the same
  for both sides but for the classes of `Swapped` (`WideOrders`), and that no
  read goes beyond the bits that were written (`ReachesNoFurther`). That later
  fields leave them alone is `NothingErased`. Numbers of 24 bits in big endian
  write further than their cursor goes: the theorem speaks of messages without
  them, as `ReadsBack` does.

### Assumptions on constants

Besides types, disjoint names and bounds that are numbers: `InitialAssumption`
(the array a queue is built over holds a message once, as messages are told
apart), `TasksAreOrdered` (above), `MembersAreATree` (a middleware is in one
composite, once: one that the code registers twice is two members here, each
called once; and a stack with priorities starts sorted, as `useMiddleware()`
leaves it), `RpcAssumption` (a call has a caller, two peers), `CronAssumption`
(limits are numbers), `CommandsAreNew` (commands are told apart from the
contents and entries that no command made), `LockAssumption` (a graph is
closed: its dependencies are specifiers that resolve to packages or to nothing,
the workspaces of a package are listed once, and the key of a package resolves
to that package), `FieldsAssumption` (a field is written with a value that fits
its class), `SamplesAssumption` and `MessagesAssumption` (numbers, and the
lengths of lists, are such that the codec writes them without an exception; a
list is of numbers a message may hold), and that the waiters of an asynchronous
event, the resources of a manager and the calls of `stop()` are finite sets,
which cardinalities need and every execution satisfies.

### Only model-checked

* Out of the prover's reach: every liveness property. `ReaderEnds` is one of
  them, and with it the converse of `MessagesAreReadBack`: that no message with
  a number that is not kept, or with an object that tells another length, is
  read as it was meant.
* What rests on a recursive operator: the order of `Sequencify`, whose sequences
  and cycles are compared with their definition over bounded graphs.

## 5. What is not modelled, and why

`components` in PROJECT.json lists every package, with its reason. In short:

* *No state that outlives a call*: the parser and the formatters of
  expressions, URI templates, code generators, schemas, access control lists,
  command lines, the readers of YAML and proto files, the query language of
  storage. They are functions over strings and trees; a bounded check of them
  would be a test suite.
* *Behaviour of a platform or a tool*: fs, webdav, mongodb, aws, webrtc,
  daemonize, the build plugins, the cache of the package manager.
* *The DOM*: client, controls, pages.
* *Arithmetic out of TLC's reach*: jwt and srp.
* *Maps and adapters over what is modelled*: pubsub, EventEmitter, sidecar,
  gateway, crud, mcp, the command containers.

Within the modelled components, what is left out is in the note of each: among
it the dates of cron expressions, JSON-RPC notifications and batches, `$stop`
and the configuration commands of pm, the adapter over standard input and output
(`stdio.ts`), option responses of middlewares and the
matching of paths, the accessors of observable arrays, combined bindings,
events of modules that are not once, queries over several records.

## 6. Plan

Done: the components of section 2 and the proofs of section 4. Every invariant
and every action property that a run checks is stated by a theorem. What could
follow is more of the code: the components that section 5 leaves out for want of
a state that outlives a call, and what the notes of the modelled ones leave out.
