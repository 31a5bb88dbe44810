# TLA+ specifications of rxd

rxd runs a daemon whose services are driven through the lifecycle
Init → Idle → Run → Stop by a *manager*, while a *states watcher* publishes the
state of every service on an in-process topic (package `intracom`). These
modules model the concurrent core of that program and what surrounds it:
registration and startup, the topic registry, the notifier, the internal log
and the RPC command. They are model-checked with TLC. The safety properties of
the daemon, the topic, the watches and the registry are also proved with TLAPS
for every value of the constants.

Line numbers refer to the files of the repository. `PROJECT.json` maps each
definition to the lines it models, and lists components, hazards, runs,
mutants, findings and theorems.

## The system

| part | state | operations | what is hard about it |
|---|---|---|---|
| service managers (`service_manager.go`) | `state`, `hasStopped`, a timer | the lifecycle loop, startup delay, final Stop, final StateExit | a cancellation that races the timer, panics at any call, re-inits |
| wrapper (`daemon.go:232`) | – | recover, report StateExit, `wg.Done` | order of report and `wg.Done` |
| `daemon.Start` | contexts, `logC`, `stateUpdateC`, RPC server | prestart, launch, wait, shutdown in order | closing channels others send on; early error returns |
| prestart pipeline (`daemon_prestart.go`) | stage, `err`, restart timer, `errC` | run the stages, report, restart | `err` of an earlier stage is lost; cancellation |
| states watcher, log watcher (`daemon.go:399-450`) | states map; semaphore | store and publish; write entries | bounded channels, ending after the last entry |
| topic and broadcaster (`intracom/topic.go`, `broadcast_sync.go`) | request and publish channels, subscriber map, last message | Subscribe, Unsubscribe, Close, publish | callers that time out, late requests, Close racing everything |
| subscribers and policies (`subscriber.go`, `buffer_policy.go`) | one buffered channel each | send under a drop policy | full buffers, a reader acting between two selects |
| intracom registry (`intracom.go`) | map of topics, `closed` | CreateTopic, RemoveTopic, CreateSubscription, RemoveSubscription, Close | check-then-act; Close does not recognise typed topics |
| service context (`service_context.go`) | child contexts, fields | Log, WatchAll/Any/AllStates | two buffers in a row, cancellation in every select, shared consumer names, logging after shutdown |
| registration (`daemon.go:341-397`) | two maps, `started` | AddService(s), guards of Start | check-then-act, maps read without a lock |
| notifier (`notify_systemd_linux.go`) | a socket, the watchdog period | READY, STOPPING, WATCHDOG | two goroutines write, and the order matters |
| log package, log file handler, RPC command and client | two levels; a file and a byte counter; a Done channel | Log, ChangeLogLevel | counters that outlive or do not outlive the file, overlapping commands, a reply racing a cancellation |

The parts of the running daemon interact through channels: managers and wrapper
send on `stateUpdateC` (to the states watcher) and on `logC` (to the log
watcher); the states watcher sends on the topic's publish channel; Start waits
for the managers, then closes the channels in order. Registration and Start
share two maps, the users of intracom share the registry's map under a lock,
and the notifier shares only the context.

## Modules

* **ServiceManager** – one goroutine per service. `pc[s]` is the control point
  inside `Manage` and the wrapper (listed in the module). `state` and
  `hasStopped` are the variables of the code. Each control point that blocks
  or calls user code is a step. A runner's method may return nil, return an
  error or panic. Both managers share the loop; what differs is `EntryPoint`
  (RunUntilSuccess has a startup select that runs the first Init unannounced),
  `NextState` and `RecoverPoint`. Durations matter only where zero makes
  `NewTicker`/`Reset` panic. History variables `last`, `pushed`, `panicked`
  record the last method, the last update and whether a panic happened.
* **Prestart** – the pipeline goroutine. The context enters as the parameter
  `cancelled`. `allPassed` is history.
* **Daemon** – composes the two with Start, the watchers and the shutdown.
  The states watcher's send to the topic is one step (`PublishStates`): the
  topic is taken to accept it. Entries of `logC` are counted, not told apart.
* **Lifecycle** – the abstract specification: which state may be made known
  after which, and when all is over. Daemon implements it under two refinement
  mappings: `Sent` (what each manager has sent last) and `Seen` (what the
  states watcher has stored last).
* **Bootstrap** – AddService concurrent with Start: the `started` flag, the two
  maps, the launch loop over them, and what Start, the signal watcher and the
  watchdog goroutine tell systemd. A service here only runs and ends. After
  Start the process exits (`Exit`), which waits for neither goroutine.
* **Registry** – the map of topics with concurrent callers of all five
  operations. `made` lists every topic ever made, with the progress of its
  Close; a lock held over several steps (only Close does) is `writer`. What
  Subscribe and Unsubscribe do inside the topic is Topic's subject.
* **Topic** – the topic, its broadcaster, subscriber channels with all five
  policies, clients, a publisher and a caller of Close. A select with a default
  branch and the select that follows it are two steps, so a reader may act
  between them. Messages are numbered in publishing order and 0 is the zero
  value; `passed` (the last message taken out of a channel) and `asked` (the
  channels some Unsubscribe named) are history.
* **ServiceWatch** – the goroutines behind `WatchAllServices`,
  `WatchAnyServices` and `WatchAllStates`, as the clients of Topic. `watchPc[c]`
  is the goroutine's control point; its calls of Subscribe and Unsubscribe are
  Topic's actions, conjoined with the goroutine's own change. `published` holds
  the states map each message carries; `Sends` says for which maps a watch sends
  and `Result` what. `pending`, `out` and `seen` hold the maps themselves: about
  to be sent, in the watch's channel, received last by the service.
  The states watcher is the publisher. Of Start the module keeps the end:
  services end (which cancels every watch), the states watcher ends,
  intracom.Close sets its flag and empties its map, `logC` is closed.
  intracom.Close does not close the states topic, because a
  `Topic[ServiceStates]` is not a `Topic[any]` (`intracom.go:206`). Watches are
  made from the service's own context, RPC is off, and `logC` has room.
* **Logging** – the two loggers' levels, the internal log file, the
  ChangeLogLevel command (one goroutine per command) and its client. An entry is
  a level and a length. The file survives a restart of the process, the
  handler's byte counter does not. The ends of a call that net/rpc decides
  (`EndCall`, `ReplyArrives`, `ConnectionLost`) are external.
* **DaemonProofs, LifecycleProofs, TopicProofs, RegistryProofs,
  BootstrapProofs, LoggingProofs** – theorems about Daemon, its refinement of
  Lifecycle, Topic, Registry, Bootstrap and Logging. **WatchLemmas** (the watch
  goroutines) and **WatchProofs** (the broadcaster's steps and the theorems) –
  about ServiceWatch.
* **MCDaemon, MCTopic, MCServiceWatch, MCRegistry, MCBootstrap, MCLogging** –
  values for the constants.

Each module also holds the mutants of its definitions, marked as such: the
definition as a plausible bug would have it. They are used by no specification.

## Runs

| run | cfg | checks |
|---|---|---|
| daemon_services | MCDaemonServices | TypeOK, NoSendOnClosed, StopBeforeExit, NoSecondStop, AnnouncedState, FinalStates, ExitIsFinal, PublishesLifecycle |
| daemon_startup | MCDaemonStartup | PrestartGate, LogsHandedOver, ShutdownCompletes, SendsLifecycle |
| topic_shared | MCTopicShared | TypeOK, RegisteredOpen, InOrder, UpToDate, ClosedOnRequest, AwareOnly, AnswerDue |
| topic_live | MCTopicLive | BroadcastCompletes, CloseCompletes, RequestsHandled |
| watches | MCWatches | WatchEndsOnCancel, LatestMatchDelivered |
| watch_cancel | MCWatchCancel | CancelEndsWatch |
| registry | MCRegistry | TypeOK, NoDoubleClose, TopicsUnique, StaysEmpty, EntriesUsable, WaitEndsOnClose |
| bootstrap | MCBootstrap | TypeOK, LaunchedAsAdded, ReadyThenStopping, NotifierEnds |
| logging | MCLogging | TypeOK, FileBounded, OneEntryPastLimit, LevelsAgree, StuckForGood |
| daemon_exit | MCDaemonExit | ExitReported, violated |
| watch_crash | MCWatchCrash | NoWatchCrash, violated |
| watch_stall | MCWatchStall | StatesWatcherEnds, violated |

What they show:

* A service, whatever its methods do and whenever it is cancelled, runs Stop
  before the manager's final StateExit and never twice in a row at the end; it
  announces a state before entering it; StateExit is its last update. No
  manager, no wrapper and not Start itself sends on `stateUpdateC` or `logC`
  after Start closed it; watch goroutines may (**watch_crash**).
* The states a manager sends, and those the states watcher publishes, follow
  each other as Lifecycle says: through panics, errors and cancellation, and
  through the one channel all managers share.
* The last published states show every service as exited. The exception is a
  RunUntilSuccess service that panicked: its manager recovers the panic and
  returns, so neither it nor the wrapper sends StateExit (**daemon_exit**).
* Unless the daemon is cancelled, services start only after a pass through all
  prestart stages whose last stage succeeded, and with RestartOnError only after
  one without failures.
* A late or repeated Unsubscribe never closes a newer subscription's channel;
  no message is sent on a closed channel; a slow reader may miss old messages
  but, with a buffer and DropNone or DropOldest, never the newest. A call that waits has
  its request queued or its answer, whoever else gives up or closes the topic.
* A broadcast ends, a queued request is handled and Close returns, with one
  exception (`Wedged`): the broadcaster waits for ever for a DropNone group that
  nobody reads, or in DropOldest for a buffer that was emptied. The two policies
  that drop the newest message never hold it up.
* Watches with consumer names of their own end up with their selection of the
  latest states if these match, and are not ended by each other.
* A cancelled watch closes its channel even if its service does not read, even
  if the topic hangs, and even if it shares its name with another watch.
* Watches use DropOldest, which blocks for ever when the reader empties the
  buffer between the failed send and the drop. The states watcher then hangs in
  its next publish, and Start in `<-statesDoneC` (**watch_stall**).
* A watch cancelled while it subscribes logs the failure, and nothing makes
  Start wait for it before `close(logC)`: the send panics in a goroutine without
  recover (**watch_crash**).
* No topic is closed twice, and no name stays bound to a closed topic, however
  calls overlap. A name has one open topic, and a closed registry
  stays empty, as long as no CreateTopic overlaps another one or Close; these two
  say so in their hypothesis (`raced`), because the code checks under
  one lock and writes under another. A subscription stops waiting for its topic
  once the registry is closed, unless that Close hangs in the Close of a topic
  and so keeps the lock.
* Services added before Start are launched with the runner and the manager of
  one AddService call, whatever a late AddService of another name does; a name
  that is being added while Start runs may be launched without a manager. READY precedes STOPPING
  unless the context is cancelled before the services are up. After a
  cancellation STOPPING is written, or its write fails, and the watchdog ends,
  unless the process ends first. This does not depend on Start returning, which
  watch_stall shows it may not.
* The internal log file holds at most `limit` bytes, or one longer entry, per
  process that wrote it, not `limit` bytes in all; past the limit it holds one
  entry. A command that overlaps no other leaves both loggers at its level; after
  commands that overlapped, each logger has a level one of them asked for. A
  cancelled client call whose reply filled its Done channel first never returns.

### Differences between text and code, seen while modelling

Three have a run of their own (above). The others are visible in the modules:

* Without RestartOnError a later stage's success hides an earlier failure
  (`daemon_prestart.go:101`; the comment below it says "all stages completed
  successfully without error"). `StageFails`/`AfterStage` in Prestart.
* Two watches of one service with equal action and target share a consumer
  group, so cancelling one ends the other (`service_states.go:71`; the comment
  at 68 wants names "to prevent overlapping consumer group names"). This
  includes an All and an Any watch, and any two NotIn watches of a target.
  `Consumer` in ServiceWatch; `Distinct` is the hypothesis of the theorems.
* A watch for `Exited` selects the services that are *in* the target state
  (`service_context.go:152`); `examples/multi_service/polling_service.go:65`
  reads it as leaving the state. `Selected` in ServiceWatch.
* AddServices stops at the first error; its comment says the next service is
  attempted (`daemon.go:342`). A name added twice replaces the first service
  silently. A Start that finds no services leaves `started` set, so the daemon
  can be neither filled nor started afterwards.
* CreateTopic's comment says names are unique (`intracom.go:46`), but two
  callers may each make a topic of one name, and one of them is lost.
* Signals set with WithSignals are not used: the watcher listens for SIGINT and
  SIGTERM (`daemon.go:168`).
* `daemonLogHandler.Close` is never called: Start asks whether the *logger* is
  an io.Closer, which it is not.
* A cancelled ChangeLogLevel call of the client returns nil.

### Bounds

Two services, one per manager, cover every pair of goroutines. The update
channel has capacity 1 or 2 instead of four per service, and `logC` 1 instead
of 50, so that senders do block. Two stages are the least with which an
earlier failure can be hidden or a pass abandoned; daemon_startup has pipelines
with and without RestartOnError. daemon_services leaves out
stages and RPC and daemon_startup has both, so that neither multiplies the
other; daemon_startup has a service whose zero delays make the ticker panic.
Nothing bounds how often a service goes round its loop.

Topics have buffers of one message. topic_shared has three clients in one group,
one with ErrIfExists, at most three Subscribe calls and two messages, which fill
and overflow a buffer. topic_live has four clients in two groups, one for each
policy that has a handler, one with ErrIfExists, and two Subscribe calls: two
groups, one group twice, or one client twice. One message is enough there,
because a new subscriber's buffer starts full with the replayed one.
In topic_shared the first subscriber decides the policy of the group:
DropNone, DropOldest, or DropOldestAfterTimeout, whose subscriber has a nil
policy and crashes on the first message. Topic and watch runs do not check
deadlock: clients and publisher may simply stop, and a wedged broadcaster is the
subject of the liveness runs.

Watch runs have one or two watches of one service. In watches they have
consumer names of their own: a WatchAnyServices of two services, whose selection
may be empty, partial or whole, and a WatchAllStates with an Exclude filter,
which delivers every message, the replayed nil map included, so that both
buffers of a watch fill up. That run stops where Start closes intracom
(`BeforeClose`): by then every watch is cancelled and nothing is published, and
watch_cancel goes on to the end. In watch_cancel they share a name, so that one may find its
subscription closed by the other. A cancelled watch is not restarted.

registry has two callers, one name and two element types (`any` and another),
and five calls of CreateTopic and RemoveTopic: enough to create, remove,
recreate and have a late RemoveTopic meet the new topic. Calls that only read
the registry are not bounded. bootstrap has two names and three AddService
calls, so that a name is added twice and one call overlaps Start. In logging an
entry is one or three bytes long and the limit (10 MB in the code) is two, so
that an entry may exceed it; a process writes at most four bytes, enough to go
past the limit twice, and is restarted once. Two commands
are enough to overlap, and two levels to tell them apart. The logging run does not check deadlock:
when clients and log have nothing left to do, everything stops.

### Fairness

Every goroutine of the daemon is weakly fair: Go's scheduler runs what is not
blocked. A runner's method must return only once the context is cancelled,
which is what the lifecycle contract asks of it. `SelectDone` is strongly
fair, because Go's select chooses at random among ready cases: a timer that is
always ready cannot hide `Done` for ever. The watchdog's select is treated the
same way. Nobody is obliged to cancel. In Topic the broadcaster, a pending Close
and the two-second timeout of Unsubscribe are weakly fair, and so is a client
reading the channel it holds; a client that calls Unsubscribe has stopped
reading. In ServiceWatch each watch goroutine, the broadcaster and the end of
Start are weakly fair; a service need not read, cancel or end. In Registry a
call that has begun goes on; nothing obliges a context to be cancelled, or
Subscribe, Unsubscribe or Close of a topic to return. In Bootstrap, as long as
the process lives, Start goes on as far as the notifier, which waits for nobody,
and the signal watcher (once the context is done) and the watchdog run; nothing
is assumed of prestart, of services or of the states watcher. Logging states no
liveness and assumes no fairness.

`ShutdownCompletes` holds under the abstraction that the states topic accepts
what is published. watch_stall shows a case in which it does not.

## Proofs

All theorems hold for every value of the constants that satisfies the named
assumptions of the modules. Every inductive invariant was model-checked before
it was proved.

**Daemon** (DaemonProofs; any services, managers, delays, capacities, stages
and log workers): TypeCorrect, ChannelsSafe, StopAlwaysRuns, StopRunsOnce,
AnnouncedFirst, FinalStatesCorrect, PrestartGates, LogsDrained and the action
property ExitOnce. None of these invariants is inductive. `IInv` adds:

* `StopInv` – at each control point, how `hasStopped` and the last method
  agree; without it nothing is known where the final Stop is decided;
* `SentInv` – what a goroutine has sent so far, by control point;
* `ViewInv` – the watcher's map differs from what a service last sent only if
  that update is still in the channel, and then it is the service's last one
  there. FinalStates needs it: the watcher ends with the channel empty;
* `PhaseInv` – who may still run at each point of Start;
* `PrestartInv` – `errC` is closed without a cancellation only after the last
  stage succeeded; with RestartOnError a stage is entered only with a clean pass.

The proof shows type correctness action by action, then that a step of one
service leaves the others alone (`ManageFrame`), keeps its own StopInv and
SentInv, and acts on the channel only by `Send` (`SendView`); the watcher's
side is `ReceiveView`.

NobodyStranded proves `WaitsServed`, what a proof of ShutdownCompletes would
rest on: a service that may still send has both watchers alive and both channels
open, Start waits in `dwg.Wait()` only for launched services, and it awaits a
watcher only after closing the channel the watcher ranges over. `StartedInv`
(which goroutines Start has launched by each point, also on its two failing
returns) is inductive relative to IInv.

**Refinement** (LifecycleProofs): SendsImplements and PublishesImplements show
that Daemon implements Lifecycle under both mappings. `LifecycleInv` adds to
IInv that the state a manager is about to send may follow the one it sent last
(`LoopInv`), and that the updates of a service in the channel follow each other
from the one the watcher has stored (`QueueInv`).

**Topic** (TopicProofs; any clients, groups, policies, buffer size
and number of messages): TopicTypeCorrect, NeverSendsOnClosed, DeliversInOrder,
NewestReaches, ClosesOnlyAsked, ReceivesOnlyForSubscribers. The invariant `TInv`
relates each request in the queue to what its caller may still believe, each
group of the map to its open channel, and what every channel has received to
where the broadcast loop is. NewestReaches needs a buffer: with none the replay
to a new subscriber finds no room. The lemmas say what sending, dropping and swapping
do to one channel; the proof has one step per action. EveryCallDue proves
AnswerDue from TInv and `AInv`, which adds that a close request carries no
client's name: otherwise its answer might be the one a client waits for.

**Watches** (WatchLemmas, WatchProofs): every step of ServiceWatch is a step of
Topic or leaves it alone, so ServiceWatch implements Topic (WatchUsesTopic) and
what is proved of a topic holds under the watches: WatchesUpToDate and
WatchesServed (RegisteredOpen, InOrder, AnswerDue). WatchesEndOnCancel and
WatchesDeliverLatest hold under `Distinct`: no two watches have the same
consumer name. `WInv` says, for each watch, which calls it may be in at each
control point, that the channel it reads is the one registered for its group
and is open until its own Unsubscribe, and that, if the message it has taken out
last matches, the map it delivered, or is about to, is its selection of it. Without Distinct the theorems
are false, as described above.

**Registry** (RegistryProofs; any callers, names, types and number of calls):
RegistryTypeCorrect, TopicsClosedOnce, NamesUnique, ClosedStaysEmpty,
NoDeadEntries. `RInv`
says, by control point, in which state the topic a caller holds is (`HolderInv`)
and that two callers never close the same one (`PairInv`). The step that needs
care is Delete, which removes whatever the name leads to: it is the topic just
closed, because only one caller got through that topic's Swap and a CreateTopic
does not overwrite an entry it found. NoDeadEntries also covers overlapping
creations; it needs that a topic about to be inserted is open (`EntriesInv`).
CloseIsAlone proves `CloseHoldsMap`: one
Close at most, the only one to hold the lock over several steps, with every
topic it has yet to close still registered. It needs to know besides that
nothing is left to close when the lock is free (`LockInv`).

**Bootstrap** (BootstrapProofs; any names and number of AddService calls):
BootstrapTypeCorrect, ServicesLaunched, ReadyComesFirst. `BInv` adds:

* `AddInv` – the two maps differ only between the two writes of one AddService,
  and the second write makes them agree;
* `OffInv`, `SettledInv` – a service added before Start was called keeps its
  entries, since the one AddService that may still write is about another name;
  the launch loop cannot end without it, and READY is not sent before that;
* `NotifyInv` – which of READY and STOPPING may have been sent at each control
  point of Start and of the signal watcher, each once, and STOPPING first only
  after an early cancellation.

**Logging** (LoggingProofs; any limit, entry lengths, levels, calls and number
of restarts): LoggingTypeCorrect, LogFileBounded, LogFileLastEntry,
LoggersAgree and the action property CancelledStaysStuck. The bound on the file
is not inductive, because a restart forgets `total` and keeps the file. `LInv`
says how much of the file is this process's (`FileInv`: up to the limit the file
is at most one share for each earlier process and `total`, past it one entry)
and that, while commands run, their levels are in `batch` (history: the levels
asked for since commands last began to overlap), and so is the service logger's
level by the time the internal one is set (`CommandInv`).

Only model-checked: liveness (`ShutdownCompletes`, `CancelEndsWatch`,
`WaitEndsOnClose`, `NotifierEnds` and the three topic properties), which is out of the prover's reach. Every invariant and every
action property of the passing runs has a theorem. `WaitsServed` and
`CloseHoldsMap` are proved and not part of a run.

## Not modelled

* HTTP serving and dialling: library I/O. Daemon keeps the outcome of Shutdown,
  Logging the outcomes of a call. `RPCServer` is used by nothing.
* Contexts made with WithParent, whose watches the end of a service does not
  cancel.
* Formatting of log lines, the journald handler and fields; `logger.With` and
  the handler's Close, which nothing in the repository reaches.
* Functional options: they set what the constants stand for.
* The example programs. User code appears only as its outcomes: a method that
  returns, fails or panics. Entries that a runner itself logs, or goroutines it
  leaves behind, are not modelled.
* BufferPolicyDropOldestAfterTimeout's Handle: newSubscriber never installs it.
