# rsupervisord in TLA+

rsupervisord is a process supervisor: a daemon that starts programs in
dependency order, watches them, restarts them, rotates their logs and offers
the whole through a REST API, an XML-RPC API compatible with Python supervisor
and a command line client.  This directory holds TLA+ models of the parts that
carry its own logic, TLC configurations that check them on small instances, and
TLAPS proofs of what matters most for every instance.  Source paths below are
relative to the repository.

## Inventory of the system

| Part | Source | State it keeps | Operations | What is hard |
|---|---|---|---|---|
| Program actor | `src/program/process.rs` | status snapshot, current child, retry counter, backoff and start_secs deadlines, `manually_stopped`, mailbox, health channel | Start, Stop, Restart, Shutdown, Signal; child exit, timers, health events, cancellation | one biased `select!` over seven sources; handlers that await hooks, processes and tasks; callers that time out and leave their command queued |
| Health probe | `src/manager/health.rs` | failure counter | probe, report | events outlive the child they are about; bounded channel |
| Supervisor manager | `src/manager/supervisor.rs` | `programs`, `configs`, `pending_configs`, `dag`, `cron_table`, event pools | 27 commands, cron, cancellation | serial actor that awaits program calls; states are read, then acted upon; several registries must stay in step |
| Dependency graph | `src/manager/dag.rs` | layers | `build`, `get_dependents` | hash order, duplicated edges, cycles |
| Configuration diff | `src/config/diff.rs` | none | `compute` | classification must cover both maps |
| Cron table | `src/manager/cron.rs` | entries with `next_run` | rebuild, earliest deadline, pop due | several due entries of one program |
| Watch service | `src/manager/watch.rs` | rules, watched directories, pending triggers | update, debounce, execute | it calls the manager and is called by it; dropped updates |
| Event hub | `src/manager/event.rs` | broadcast channels | publish, subscribe | lagging subscribers |
| Activity tracker | `src/manager/activity.rs` | last activity, open streams | record, enter and leave a stream, look | several steps of atomics; wake-up of samplers |
| Event listeners | `src/eventlistener/` | pool buffer, listener state, envelope in flight | accept, dispatch, READY/RESULT handshake, requeue | bounded buffer, listener death with an envelope in flight |
| Logging | `src/logging/` | rings, rotated files, offsets | write, rotate, read window, tail | offsets across rotation |
| Servers | `src/server/`, `src/compat/xmlrpc/` | sessions, subscriptions | requests mapped to manager commands, login, logout | looks at a state, then acts on it; slow subscribers; calls that time out |
| Configuration | `src/config/`, `src/compat/ini/` | none between two loads | parse, include, expand, anchor, resolve, validate | hash order, two expansions of one path, names of instances |
| Daemon | `src/daemon.rs`, `src/server/mod.rs` | pid file, socket, signal streams, root token | boot, signals, reload, teardown | signals at any moment; a crash and the next life |
| CLI, service, platform | `src/cli/`, `src/service/`, `src/platform/` | none of their own | requests, system calls | I/O |

Interaction: servers and the CLI send `ManagerCommand`s over a channel of 64;
the manager serves them one at a time and calls the programs through the
`Program` trait; each `ProcessProgram` handle sends `ProgramCommand`s over a
channel of 32 to its own actor task and waits for a one-shot reply with a
timeout; the actor owns the child process, its log pumps, its stdin writer and
its probe task, which reports over a bounded channel.  Status is read by anybody
through a shared snapshot.  Everything is cancelled through cancellation tokens.

What makes each part correct: at most one process per program, statuses that
tell the truth, a stop that is final, timers that belong to the child they were
armed for, answers to every call (actor); registries that agree, dependency
order, reloads that touch only what changed, a shutdown that leaves no process
(manager); layers that follow the longest dependency path whatever the hash
order (graph); no event lost, duplicated or overtaken beyond what the buffer
policy allows (event listeners); byte offsets that survive wrap-around, a log
that stays whole when the disk refuses, lines that reach every destination
(logging); no circular wait with the manager and no restart on a half-written
file (watch service); answers that tell what was done and waits that cannot be
missed (servers); a configuration that means what its files say; an end that
leaves nothing behind (daemon).


## Modules

| Module | What it is |
|---|---|
| `ProgramLifecycle` | abstract: the seven states of a program and its live processes |
| `ProgramActor` | the actor task, its handle and caller, its probe, the OS processes |
| `ProgramActorProofs` | its invariants, what a returned call promises, and that it implements the two abstractions, proved |
| `ProgramContract` | abstract: a program as its caller sees it, a record and its possible steps |
| `ProgramActorContract` | the record a `ProgramActor` presents, and the claim that it keeps to the contract |
| `StdinWriter` | `send_stdin` and the writer task of a child |
| `LogPump` | the destinations of a log, the pumps that feed them, their drain |
| `RingLog` | `ContinuousRingBuffer` with its line index, its reads, its seed |
| `RingLogProofs` | that reads by offset and followers get the bytes of the stream, proved |
| `LogRotator` | the rotated file, refused disk operations, the append-only mode |
| `DependencyOrder` | abstract: which maps of programs have an execution order, and what it is |
| `DependencyGraph` | `DependencyGraph::build`, step by step, in any hash order |
| `DependencyOrderProofs` | the declarative order exists, is unique and complete, proved |
| `DependencyGraphProofs` | its loop invariant and what it returns, proved |
| `Manager` | `ManagerActor`: its registries, its commands, its programs |
| `ManagerProofs` | its inductive invariant, proved: sequences, programs and plans first, then the actions |
| `CallBudgets` | the deadlines `ManagerHandle` computes, against the calls the manager makes |
| `Watch` | the watch service, the files and the manager's updates |
| `EventListener` | a pool: the hub's task, the buffer, listener programs and their wire tasks |
| `EventListenerProofs` | its invariants, proved |
| `Activity` | the activity tracker, its clients and the actors that sample |
| `ApiActions` | REST and XML-RPC handlers as clients of the manager |
| `ApiAuth` | the middleware, login, logout, the session store |
| `Server` | the requests, sessions and activity of HTTP clients and a listener pool, side by side |
| `ServerProofs` | the invariants of sessions and activity in `Server`, proved |
| `ConfigLoad` | macros, paths, instances, groups, dependencies, shared log files |
| `IniFiles` | the INI parser and its include files |
| `Daemon` | the daemon process: boot, main loop, signals, teardown, the next life |
| `Services` | the watch service, the daemon process and a stdin writer, side by side |
| `ServiceProofs` | that triggers wait for their files, the daemon leaves clean and stdin keeps its order, proved |
| `MCProgramActor`, `MCManager`, `MCDependencyGraph`, `MCEventListener` | instances for TLC |
| `MCManagerBulk`, `MCSetup`, `MCServices`, `MCStreams`, `MCServer` | several instances in one run |

The parts compose by abstraction.  `Manager` does not run whole actors: its
programs are records of `ProgramContract`, and the actor, with everything
`ProgramActor` says about it, is proved to take only the steps the contract
allows (`ContractKept`).  In the same way `Manager`
uses the declarative order of `DependencyOrder`, which `DependencyGraph` is shown
to compute (`MatchesReference`, a part of `LayersSound`).  `Watch`, `ApiActions`
and `Daemon` carry the part of the manager they wait for: that it serves one
command at a time and answers it, or is ended, which is what `ManagerLive` shows.

The five modules of the last line put components side by side that share no
state.  Their variable `part` (or `suite`) is chosen in the initial state and says
which component moves; the others rest in one initial state.  Nothing is a
product, and nothing that a component's own module says is changed.  For the
interfaces with the event bus, and for the watcher with the daemon and the stdin
writer, this composition is a module of its own, `Server` and `Services`, about which theorems are proved;
`MCServer` and `MCServices` only bound it.

Definitions that follow a comment `Fault:` are never used by a specification.
Each one is a neighbouring definition with a plausible mistake in it.  Putting
it in place of the correct one violates the property it is paired with in
`PROJECT.json`, which shows that the property depends on that piece of code.

### ProgramActor

A handler of `ProgramActor::run` is cut at its awaits.  `pc` is the place where
the actor is suspended (the select loop; four places of `spawn_child`; five of
`stop_current_child`; the drain of `handle_child_exit`), `cur` the branch it
serves and whether somebody still waits for its reply.  The remaining variables
carry the names of the code's fields and locals.  A child, its pid, its stdin
channel, its probe and its start_secs deadline are identified by the number of
the spawn that made them, so that a stale one can be told from a current one.

* `HandleStart` ... `HandleSignal`, `Cancelled`, `HealthEvent`,
  `BackoffExpires`, `ChildExit`, `StartDeadline` are the branches of the biased
  `select!`; `CancelReady`, `CommandReady`, `HealthReady` and `TimersPolled` give
  them the code's polling order.
* `SpawnChild`, `SpawnDrained`, `PreStartDone`, `LaunchFails`, `Launch` are
  `spawn_child`; `StopCurrentChild` and the actions from `PreStopDone` to `RunEnds`
  are `stop_current_child` and what each caller does after it.
* `Call`, `CallTimeout`, `ShutdownCancel`, `ShutdownJoin` and `DropHandle` are the
  methods of `ProcessProgram` and its drop.  The caller is serial, as the manager
  is.  A call that times out leaves its command in the mailbox, without a
  listener for the reply.
* `ProbeBegin`, `ProbeSucceeds`, `ProbeFails` are `HealthProbeRunner::run`;
  `ProcessExits` and `ProcessKilled` are the operating system.

Abstracted: a process exits with an expected or an unexpected code; hooks
succeed, fail or time out; delays elapse at any time; the failure counter stops
at its threshold, the only value it is compared with; failing to attach pipes
to a new process is the same outcome as failing to spawn it.  Assumed of the
platform: SIGKILL ends a process, and an exit is reported once.  The log
pumps, the stdin writer and the metrics branch touch none of this state and have
modules of their own (`LogPump`, `StdinWriter`, `Activity`); the text of errors
is left out.

### DependencyGraph

The variables are the locals of `build`.  The order in which a hash map yields
programs is chosen by `\E`, so one run covers every iteration order.
`depends_on` is a list: it may repeat a name, name the program itself or name an
unknown one.  `in_degrees` counts repetitions, and `Released` accounts for
parallel edges as the code's decrement loop does.  `Cyclic` and `HasUnknown` are
declarative: the first stands for petgraph's `is_cyclic_directed`.

### Manager

`ManagerActor::run` serves one thing at a time, but its handlers await the
programs, which move on meanwhile.  An action of the select loop computes the
`agenda` of its handler, the sequence of blocks between two awaits; each action
of the section "Blocks" executes the first block, which may put others in its
place.  So `execute_reload_config` is one `Remove`, `Replace` or `Add` per
program of the diff and then `Adopt`; `Replace(n)` becomes a stop, the wait for
its answer, `Shutdown(i)` (command, token, join) and `Add(n)`, which starts the
staged instance if it has autostart and puts it into the registries.  Waiting
for an answer is a block of its own, `Await`; a strict one ends the handler on an
error, as `?` does, the others ignore it, as `let _ =` does.

Instances are numbered in order of creation, and `owner` tells the name each was
created for: an instance that was replaced stays in the model until its task
ends, so losing one is observable.  Where the code drops a handle without
shutting it down, which `programs.insert` does if the name is still registered,
the task of that instance is cancelled (`DoInstall`).  Sorting is stable only up
to equal keys and hash maps have no order, so `Sorted` and `FindMatch` are the
sets of sequences the code may produce.

Abstracted: names and group names are integers of one namespace; of the
patterns `find_match` accepts, plain names and the group form are modelled here
and the others in `CallBudgets`.
The client channel is the choice of the next command.  A cron entry may be due
at any time.  `shared_pending_configs` is equal to `pending_configs` at every
await and is one variable with it.  Instances staged by a reload that is then
rejected never receive a command and are not represented.  Left out here: the
watch service's update (`Watch`), queries (`ApiActions`), logs and stdin
(`LogPump`, `StdinWriter`), event pools (`EventListener`) and the ticker.  The guards on `is_shutting_down` cannot be reached: both places
that set it leave the loop.

### StdinWriter

`SendStdin`, `SendOk` and `SendFails` are a call: the channel has room, stays full
until the call gives up, or has lost its receiver.  `Write`, `Receive`, `Closed`,
`Breaks` and `DrainEnds` are the branches of `spawn_stdin_writer`: the pipe takes
any number of bytes, a message is taken while the buffer is below its limit, the
senders are gone, the pipe is broken or the token cancelled, the bounded rest.
Bytes are numbered, so a byte that is skipped, repeated or overtaken shows.

### RingLog

The record `ring` has the fields of `ContinuousRingBuffer`; `WriteBytes`,
`CopyIn`, `ReadBytes`, `TailBytes`, `ReadLineSlices` and `Seed` are its methods, and
`Append_`, `Push` and `Clear` the operations of the wrappers that own one.
`ComputeReadWindow` and `ComputeTailWindow` are the same questions asked of a
file (`ReadsLikeFile`, `TailWindowExact`).  A byte carries its offset in the stream and the number of clears before
it, so content that belongs elsewhere shows.  `first` and `newlines` record the
stream that was written, the reference of the properties.

### LogRotator

`write_all` is cut into its file operations (`BeginWrite`, `FillUp`, `Full`,
`RotateOnDisk`, the opening of the new file, the fall back to append mode,
`WriteRest`), each of which the disk may refuse.  `clear` takes the mutex and is
one step (`ClearLocked`): the truncation may be refused, or the file be truncated
and its opening refused, which leaves the rotator in append-only mode or, when that
is refused too, with an error and its old handle.  `clear_logs` of the program
ignores the error and truncates the path once more without the mutex, between any
two steps (`ClearPath`).  Numbered backups are modelled; a timestamped backup has a name of its
own that is never renamed, so only its pruning, by order of names, is left out.

### LogPump

`Backends` is `build_process_log_backends` for one program: the settings of both
streams, syslog flags, memory mode, redirection, a file that cannot be opened.
`PumpLine` is one turn of a pump (read up to a newline or the chunk limit, strip,
push to the ring, publish), `WriteChunk` one destination of the composite
backend.  What an Ok of that destination means depends on it.  A memory channel has
the line; a file has it, or returns an error (`Refuses`).  Syslog always answers Ok
(`SyslogWrite`): without a socket it discards everything, it skips blank lines, a
datagram may be lost in sending, and a TCP syslog puts the line into a channel,
dropping it when that is full, from which a task sends it later or loses it
(`Arrives`).  The daemon's standard output hands the line to a thread of the runtime
(`ConsoleWrite`), through a handle of its own per line, so that the lines may
overtake each other and an error reaches nobody.  `transit` has the lines that are
accepted and under way, `lost` those that were dropped in spite of an Ok.
`DrainTimeout` is the abort of `drain_pumps`, `SpawnChild` the next child on
the same destinations.  A line is known by its number.

### EventListener

`Publish`, `HubReceive` and `AcceptEvent` are the hub's two broadcast
channels and `spawn_event_hub_listener`; `RequeueRejected` and the operators
around it are the pool's buffer.  A wire task stands where `run_wire_protocol` is
suspended: `Acknowledged`, `look` and `gap` (the buffer was found empty, the
Notified future does not exist yet), `waiting`, `write`, `Busy`, `Unknown`.  What
a listener process writes, and when it dies, is free.  The actor's commands,
`BeginStop`, `GraceTimeout`, `StopReturns`, `ChildExit`, `Retry` and `Cancelled` are
the program's loop.  Event names are sequences of words, so that a subscription
to a prefix matches as in the code.

### Watch

`HandleEvent`, `DeadlineExpires`, `HandleDue` and `HandleReload` are the service's
biased loop, `CommandEnds` and `ManagerAnswers` the ends of what a trigger waits
for.  `ManagerReloads` and `Dispatch` are `update_configs`, which the manager runs
inside its own loop: a trigger that waits for the manager and a manager that
waits for the service can meet.  Time is counted in ticks.  A pattern is
abstracted to the directory it lies in and the program it belongs to.

### Activity

`RecordLook`, `RecordWrite` and `RecordNotify` are `record_activity`, whose test,
time stamp and notification are separate; `EnterStream`, `CountStream` and
`LeaveStream` are the guard of an event stream.  A sampler looks, then ticks or
registers with the Notify (`Look`, `Arm`), as the actor's select does.

### ApiActions

A request is a script of calls and waits.  `ScriptOf` gives the one of each handler;
`Send`, `Answered`, `CallTimesOut`, `Subscribe`, `WaitEvent`, `WaitLag` and
`WaitTimeout` execute it, and `Spawn` and `TaskSends` are the detached task of an
asynchronous command.  The manager takes commands from a bounded channel and
carries them out program by program; `OwnMove` and `RemoveProgram` are everything
that happens to programs meanwhile, a reload included.

### ApiAuth

`Middleware`, `AuthLogin`, `AuthConfig` and `AuthLogout` are the handlers in front of
and behind the session store, on two listeners with their own settings.  A
credential is right or wrong; a cookie is a session or none.

### ConfigLoad

`Translate` is the parse boundary (`translate_paths`), `Validate` the checks of
single sections, `NameInstances`, `ResolveProgram` and `ResolvePool` the phases of
`resolve_programs`, one section at a time in any order, `CheckStreams` its last
phase.  Text is a sequence of literals, macros and escaped macros; expansion,
absolutizing and the sentinels `auto`, `none` and the like are modelled by what they
do to it.  Of the options, those appear that another option or another section is
checked against; the rest is one flag `sound`.

### IniFiles

The locals of the parser are the variables; a line is blank, a header, a pair or
other text, with its indentation.  `Files`, `Options` and `FileSays` state,
without a parser, what a tree of files says.  `WildcardMatch` is the code's
backtracking matcher, `Fits` its reference.

### CallBudgets

`Timeout` is what `ManagerHandle` computes from the shared configurations for a
command, `Work` the calls the manager makes for it and `Longest` the time each may
take.  The saturating sum and the cap of a day are kept.

### Daemon

`LoadConfig` to `Autostart` are the boot, `Poll`, `BreakLoop`, `StartReload` and
`EndReload` the select loop, `AwaitEngine` and `AwaitManager` the teardown.
Signal handlers stay installed for good while the streams that receive from them
are created on every turn, as in `wait_for_shutdown_signal`; `Deliver` gives a
signal to the streams that exist, to nobody, or kills the process.  `Restart` is
another life on the files the last one left.

## What is checked

Every run uses a small instance.  The bounds are named constants, set in the cfg
or in the MC module.  A component that ends, or that waits for an environment
whose bounded choices are used up, has states without a successor; deadlock is
checked where it does not.

**ActorPlain** (programs without a probe; all restart policies, hooks that
succeed, fail or are ignored; two queued commands, one retry, three processes).
Two commands in the mailbox are what a caller can leave behind by timing out
once and calling again; three processes allow a first one, its restart and the
restart of that; one retry reaches both outcomes of the retry test.

* `SingleInstance`: at most one process, whatever commands, exits and retries
  coincide.
* `QuietStateNoProcess`: STOPPED, BACKOFF, EXITED and FATAL are true.
* `StopIsFinal`: after `stop()` returned Ok nothing brings the program back.
* `BackoffJustified`: a retry timer belongs to a crash that may be retried.
* `ImplementsLifecycle`, `ImplementsContract`: the two abstractions are kept.

**ActorProbed** (programs with a probe; a health channel of two, threshold two,
so that a verdict of an old child can wait while a new child runs):
`DeadlineOfThisChild` and `HealthOnlyWhenUp`.

**ActorLive**: `CallAnswered`, `CancelEnds` and `EventsNoticed` (a dead child is
noticed, STARTING and BACKOFF are left).  Fairness: weak for the actor, because
the runtime polls a runnable task and hooks and grace periods are bounded by
timeouts; strong for the four lower branches of the select loop, because the loop
is biased and a branch is taken when it is polled with nothing before it ready;
weak for the effect of SIGKILL and for the rest of `shutdown()`, which is polled
to its end.  Nothing is assumed of the supervised process, of the probe, of
timeouts or of callers.  `EventsNoticed` excepts a caller that keeps sending
commands: the biased loop serves those first.

**ManagerBulk**: two suites.  "reload": three commands out of start-all, three
different reloads and a daemon restart, six instances; calls may time out, one
program is restarted by its probe.  Three commands allow a start, a reload and a
reload back.  "groups": groups that are added and removed, also while that leaves
a graph that cannot be built, rejected reloads, cron jobs, bulk commands over a
chain of three; a shutdown, a cancellation or an abort at any moment.

* `InstancesOwned`: no program ever has two instances up (`OnePerName`), no
  handler loses a running instance (`NoOrphan`), and a manager that has ended has
  left none (`DoneMeansGone`).
* `RegistriesAgree`: the maps stay in step, and the order in force is the one of
  the configurations, if they have one.
* `ReloadSparesUnchanged`: a reload neither commands nor cancels what did not
  change.
* `StopOrder` (no program is told to stop under a dependent that is up) and
  `StopAllComplete`.  Both speak of calls that do not time out and of programs
  without a probe: under either of them they do not hold, and the code says so
  for timeouts by logging them.

**ManagerLive**: every verb on a program, on a group and on nothing, the bulk
commands, cron jobs, a group removed and added, a reload, a daemon restart and a
shutdown, two in a row, with calls that may time out or may not.  `StopReported`: a stop that
was answered Ok has stopped its targets, even if earlier commands were still in
the mailbox.  `ManagerProgress`: no circular wait between the manager and its
programs, also when no call ever times out, and cancelling or aborting the
manager ends every program, whatever handler it interrupts.  Fairness: weak for
the manager's blocks, for its cancellation branch and for each program serving
its mailbox, as the runtime polls these tasks and `ActorLive` shows that a
program answers.

**Setup**: the computations before the first process, each on every input of a
set.

* Graph, every map over at most four names with two priorities and lists of up to
  two prerequisites: `LayerExact` is the layer equation, `LayersSound` compares
  result and layers with `DependencyOrder` and relates the stop layers to the
  dependencies.  Four programs give a diamond, two layers of parallel programs and
  cycles of every length up to four.
* INI, every three lines of ten kinds, with and without a section before them,
  and trees of included files with patterns that match one file, several, the
  main file or none: `IniExact`.  Three lines are a key, its continuation and the
  line that ends it.
* Configurations of two sections with instances, colliding names, groups,
  listeners, shared log files and paths: `NamesResolved` (as many instances as
  asked for, dependencies on all of them and on nothing else),
  `NoCompetingRotators`, `PathsAnchored`.
* Deadlines for three programs of two groups, allowances from nothing to beyond
  the cap: `DeadlineCoversWork`.

**Services**: the watch service with two programs, two files, two changes and two
reloads, a channel of one; two lives of the daemon with two signals and a reload; two
callers of `send_stdin` with four messages, a channel of two and a buffer limit that
is reached.
`Settled`: a trigger is executed only after a whole debounce time without
changes, and not on a half-written executable.  `WatchProgress`: the service and
the manager never wait for each other for ever, and without a dropped update the
service ends with the manager's rules.  `CleanExit` and `ShutdownEnds`: a daemon
that leaves takes its pid file and its programs with it, and one that has caught
a request to end does end.  `StdinInOrder`: what the child has, what the writer
buffers and what is queued make up the accepted messages, and a clean end leaves
nothing behind.  A channel of one and two reloads fill the channel;
two signals put one into the reload the other caused.  Fairness: weak for the
service's loop, the clock, the end of a custom command (it has a timeout of
30 s), the manager's answer (`ManagerLive`) and its dispatch (it has a timeout of
500 ms); weak for the daemon's main task, the manager, the server tasks and the
answer to a client's shutdown, whose waits all have timeouts.

**Listeners**: one listener program with two processes and two calls:
`ListenerControlled`, that is at most one process and none behind STOPPED or
EXITED, every call returns although none has a timeout, and cancellation ends
the task, the process and the wire task.  Two processes make a restart with a
wire task of the old process still there.  Fairness: weak for the actor and for a
wire task's way into its wait; strong for the cancellation branches, because
these selects are not biased: a branch that is ready whenever it is polled is
taken some time.

**Streams**: `RingExact` (reads by offset, following, lines and file windows all
agree with the stream; a ring of four bytes and offsets up to nine, so that it
wraps twice and single writes are longer than the ring), `RotationSound` (no
byte that was accepted is lost, repeated or out of order except by the removal of
the oldest backup or a clear, and the next write finds a file; two backups,
three refusals), `LinesDelivered` (every byte once and in order, child after
child, and one failing destination costs the others nothing).  For the destinations
it says: a file or a memory channel misses exactly the lines whose own write failed
or was aborted; syslog misses besides these the blank ones, those dropped by a full
channel or a failed send, or all of them when there is no socket; the standard
output misses those the system refused.  None has a line twice, and all but that
output have them in order.  Five settings (file and output, file and TCP syslog,
TCP syslog for both streams, memory and datagrams, neither file nor socket), a
channel of one message, so that two lines fill it, blank lines among those written,
two children, one failure.

**Server**: two clients against a manager with a channel of two: `WakeupPending`
(a synchronous start cannot miss the event it waits for) and
`AnswersTrue` (the answer tells what was done); `SessionsSound` (a session opens
what it should as long as it should) on two listeners with every setting;
`DormantWhenIdle` for two clients and two samplers; `EnvelopesKept` (every
envelope is in exactly one place and the oldest goes first) and
`SleepsOnlyIfMissed` for a pool with two listeners, and for one with more events
than the hub's queue and the buffer hold.  The queue of a subscriber holds one
event, so that it lags.  Listeners are symmetric, and the properties name none.

### Findings

Two runs check a statement of the documentation that the code does not keep, and
TLC shows how.

| Run | Statement | What happens |
|---|---|---|
| ManagerStaleOrder | docs/PRD.md:331, stop all | after `remove_process_group` has left a graph that cannot be built, a program added later is in no layer and `stop_all` passes it over |
| DaemonTerm | docs/DESIGN.md:1014 and :409, SIGTERM | `wait_for_shutdown_signal` (`platform/mod.rs:31`) opens its streams on every turn of the loop (`daemon.rs:312`); a SIGTERM during a SIGHUP reload is received by none and the daemon runs on |

Further disagreements met while modelling.  The models have the behaviour, and
the properties above are stated so that they do not depend on it.

Programs and manager:

* a Start served between the death of a child and its being noticed drops the
  dead child, fails to launch and leaves RUNNING published (`process.rs:1316`,
  docs/PRD.md:111); a Start that fails during BACKOFF leaves BACKOFF without a
  timer (`process.rs:1248`, docs/PRD.md:112);
* an Unhealthy verdict of the previous child's probe, still in the channel,
  restarts the new child (`process.rs:1139`, docs/DESIGN.md:875);
* with autorestart Never an unexpected exit is published as EXITED
  (`process.rs:1789`, docs/PRD.md:114); a program without a probe and with
  start_secs is RUNNING with `is_healthy` false (`process.rs:1226`);
* the next layer starts when `start()` has returned, while the prerequisite is
  STARTING (`supervisor.rs:2013`, docs/PRD.md:123); a program that its probe is
  restarting is STOPPED for a moment, and `stop_all` skips it and stops its
  prerequisite under it (`supervisor.rs:2032`, docs/PRD.md:331);
* `add_process_group` asks whether the group is active, not whether its programs
  are (`supervisor.rs:2229`).  A rejected reload has already replaced
  `pending_configs` (`supervisor.rs:2058`); if that file moved a registered
  program into a new group, adding the group starts a second instance beside the
  first, whose handle is dropped only by the insertion afterwards.  TLC finds it
  with a file that moves one program and has another that cannot be instantiated;
  the instances of the runs keep programs in their groups (`StableGroups`);
* group commands order by priority and not by dependencies (`supervisor.rs:1899`,
  docs/PRD.md:174); a reload relaunches a modified program only if it has
  autostart, whatever it was doing before (`supervisor.rs:2119`, docs/PRD.md:160);
* `cron_stop` leaves a program in BACKOFF alone (`supervisor.rs:2374`); a cron
  entry without a next occurrence keeps its past deadline (`cron.rs:174`);
* the handle's deadlines use the default hook and kill allowances, not the
  configured ones, and those of a reload and of `remove_group` do not cover the
  stops they wait for (`supervisor.rs:232`);
* an activity recorded between an actor's look and its wait wakes nobody
  (`process.rs:1068`, docs/PRD.md:349).

Logs:

* a seeded ring reports the file's size as its stream, although it holds only the
  tail; `read_bytes` of everything (length 0) from an offset that is gone returns
  nothing;
* `clear_logs` truncates the file outside the rotator's mutex
  (`process.rs:562`), so a write in progress may go past the new end;
* timestamped backups are pruned in the order of their names; a line of exactly
  `MAX_PUMP_CHUNK_SIZE` bytes is followed by an empty one;
* syslog answers Ok for lines it drops: all of them without a socket, blank ones,
  datagrams that are not sent, messages for a full TCP channel or a connection that
  fails (`syslog/backend.rs:188`, `:206`, `:220`, `:226`, `:149`); errors of the daemon's
  standard output are not reported, and lines written to it may overtake each other
  (`composite.rs:151`);
* a refused truncation or opening in `clear` is ignored by `clear_logs`
  (`process.rs:562`), which truncates the path all the same;
* what is written to a list of destinations is not what is read back: only a
  setting that is one path is found on disk (`destination.rs:371`,
  docs/DESIGN.md:626).

Services and servers:

* a monitored directory matches at any depth (docs/DESIGN.md:1173); a pending
  trigger keeps the action of its first change (README.md:736);
* a synchronous wait by a group's or a pattern's name waits for an event with
  that name, which no program publishes (`api.rs:411`, `:442`); XML-RPC
  `stopProcess` of a program in BACKOFF answers NOT_RUNNING;
* signals during boot, before their handlers exist, kill the daemon with its pid
  file and its first children left behind; a reload by SIGHUP does not repeat the
  command line's overrides (`daemon.rs:327`); a socket whose mode cannot be
  changed stays behind.

Configuration:

* paths are expanded and anchored at load time and again for each instance
  (`transform.rs:178`, docs/DESIGN.md:1272): an escape `%%` is lost on the way, and
  a path that begins with `%(here)s` and mentions a variable of the instance is
  not anchored by the first pass;
* in a list of destinations a sink is taken for a path, and only the first member
  is anchored (`transform.rs:228`, docs/PRD.md:239);
* a program named by two groups gets the one the hash map yields first; streams
  that share a file are rejected also when logs are kept in memory only;
* an included INI file with an empty `[include]` is accepted, and an indented
  `[x]` in a continuation is a header.

## What is proved

All proofs are for every value of the constants.  The assumptions are the named
ones of the modules (`ConfigsAssumption`, `BoundsAssumption`,
`GraphAssumption`, `GensAssumption`, `CommandsAssumption`, `ManagerBounds`,
`PoolAssumption`, `ServerAssumption`, `RequestAssumption`, `WatchAssumption`,
`StdinAssumption`), which give the constants their types, and the hypotheses of the theorems about the manager
(below): `StableGroups`, and for its bulk stops `~Timeouts` and `Probed = {}`; about
the ring, `RingBounds`: it has room for a byte, and a file's newlines lie in it.

**ProgramActor** (`Spec => []...`).  None of the safety properties is inductive
alone: that at most one process exists follows from where it can be, which
depends on what the suspended handler has taken out of `current_child`, which
depends on the branch it serves.  `IInv` says all of it:

* `Ownership`: every live process is in `current_child` or in the local
  `child_info` of the handler that took it, never both, and at which places;
* `Serving`: which branch can be suspended where;
* `Published`: the published state at every place, also while a redundant Start
  is refused;
* `StartTimer`, `BackoffTimer`, `RetryBudget`: whom the timers belong to, and
  that the counter stops at start_retries + 1;
* `StdinGeneration`, `HealthOnlyWhenUp` and the types.

There is one lemma per conjunct, with one case per step (`OwnershipStep`,
`PublishedStep`, ...); the caller and the probe are dealt with once, in
`ActorUntouched`.  From `Invariance` follow `TypeCorrect`, `OneProcess`,
`QuietMeansGone`, `StatusOfThisChild`, `BackoffSound` and `NoStaleGeneration`.
`Refinement` is `Spec => ImplementsLifecycle`: every step maps to one step of `ProgramLifecycle` or to a stutter.

What a caller may rely on needs more, for `IInv` says nothing of the caller: a
command whose caller gave up is still served, and a later one must not be
mistaken for it.  `CallInv` adds `Delivery` (at most one
command has a listener, the last one sent), `Engaged` (the branch being served
and the place it is suspended at), `Leaving` (how the task comes to its end) and
`AtRest` (after an answered stop the actor is back in its loop with an empty
mailbox, no child and no retry timer).  `StopFinal` follows: a
stop that was answered Ok is final although stale commands were queued before it.

`ContractKept` is the second refinement: under `Presented` every step of the
actor is one of the contract's steps of that record or leaves it alone.  An
answer needs `Delivery`, a restart half way needs `Published`.  With it what is
proved about `Manager` rests on the actor, not on an assumption about it.

**Manager**.  While a handler runs, the registries do not tell where an instance
is: a program that is being replaced is registered and dying, its successor is
staged and unregistered, a removed one is in no map.  What tells it is the rest
of the agenda, and `IInv` says how:

* `Accounted`: every instance whose task has not ended is registered, named by a
  shutdown, cancel or join block, or the staged instance of a name that a block
  will install;
* `ClosingSound`, `StagedSound`, `RegisteredSound`: each of the three kinds is what
  it should be: the one on its way out is the registered one or was removed just
  now; the staged one is the newest of its name and untouched until its turn; the
  registered one can be commanded unless it is on its way out;
* `AgendaSound`, `BlocksSound`: the order of blocks (`Follows`), so that what ends an
  instance comes before what starts its successor, and the maps are derived last;
* `Exclusive`: of two instances of a name at most one is not dormant;
* `Tracked`, `ReloadTracked`: what the registries disagree about is still to be
  done.

The first part of `ManagerProofs` has the facts about the contract's steps, about
sequences and about plans, and the actions that only talk to registered programs
(`Neutral`); the second has one lemma per action that touches a registry or
creates instances.  `ProgramsOwned` and `RegistriesKept` follow.  The hypothesis
`StableGroups`, that no file moves a program into another group, is used in one
place, `AddGroupInv`, and is needed: see the finding about
`add_process_group`.

`ReloadSpares` is the action property `ReloadSparesUnchanged`.  It needs one more
invariant, `Spared`: during a reload every block that is left is about a program
that the file changes, and no block is one that a start, stop, cron or restart
command would have.  A program that the file leaves alone is then registered,
alive and not on its way out (from `Tracked`, `RegisteredSound` and
`ClosingSound`), no block can reach its instance (instances have one owner), and
what it does by itself neither fills its mailbox nor sets its token.

`StopsAsReported` is `StopReported`.  Its invariant `StopsTracked` says that every
target of a stop that has not failed is still to be called, is being waited for
with `StopPending`, or is down.  `StopPending` is where commands left behind by
timeouts matter: the stop is the last of the mailbox or the one being served, so
an answer can only be the stop's own, and it is given when the child is gone.

`StopsAll` (`StopAllComplete`) and `StopsOrdered` (the step `StopsInOrder`, which the
run checks as `StopOrder`) are about `stop_all`, alone or before a shutdown, a
cancellation or a restart of the daemon.  They rest on two more invariants:

* `CallsAttended`: whoever waits is waited for by the block in hand, and has in
  his mailbox or in hand the one command he waits for, so an answer is the answer
  to it;
* `LayersTracked`: a layer is told to stop before anything ends a program, and
  when its turn comes (`InTurn`) every program that depends on one of it is down.
  What "when its turn comes" will find is said by `DownBefore(k, m)`: m belongs to an
  earlier layer, or its stop is in hand, or it is dormant already.  At the end
  (`DownAtEnd`) this holds for every program, because the layers of the order
  contain every program (`AllInStopOrder`, proved of the declarative order).

Both theorems have the hypotheses `~Timeouts` and `Probed = {}`, and both are needed: a
stop that times out is logged and passed over, and a program that its probe is
restarting is shown STOPPED between the old and the new child, where `stop_all`
leaves it alone.  `ManagerBulk` checks the two properties where they are claimed;
both invariants were checked with TLC on its second suite (480,830 states).

**EventListener**.  `IInv` places every envelope (in the buffer, with one wire
task, acknowledged, overflowed, or lost with a cancelled task) and relates wire
tasks to processes (`Wired`, `Owned`), so that giving an envelope back after a death
cannot duplicate it.  The order of the buffer needs `Offered`: an envelope that
is given back has been offered before, so it may stand before those that have
not.  From it `EnvelopeAccounting`, `WakeupWindow` (only the window between the
look at the buffer and the creation of the `Notified` future can lose a wake-up)
and `ProcessControl`.

**Sessions and tracker** (`ServerProofs`).  `SessionInv`: a session that was issued
and not ended has its lifetime less the time it was unused, every other one has
none; `SessionsHold` is the action property from it.  `DormantInv` counts the
streams that have been entered and not left against the tracker's counter, step
by step of its atomics; `TrackerDormant` follows.

**Requests** (`ServerProofs`).  Both theorems start from `WireInv`: the command a
handler waits for is in one place only, in the channel, with the manager or
answered.  `WaitsWakeUp` (`WakeupPending`) adds `Alert`: from its look at the state on
a waiting handler is subscribed, and if the program has settled since, the event is
in its queue, or was lost and the handler knows it lags (`blind` excepts a wait that
was begun without an answer to that look).  `AnswersHold` (`AnswersTrue`)
adds `Truthful`: what has been done for a client at every point of its handler's
script, and that no command of it that acts is under way (`Quiet`), or none but
the one it waits for (`Watched`); so a refusal is given with nothing done, and a
success with everything done and nothing to come.

**Watcher, daemon and standard input** (`ServiceProofs`).  `TriggersSettled` (`Settled`) rests on
`TriggerInv`: what is left of a trigger's time and the time its files have been
quiet are together at least the debounce time, and a trigger in the batch has
nothing left, whatever the looks at an unreadable executable put back.
`LeavesClean` (`CleanExit`) rests on `LifeInv`: before the loop nothing of the server
runs and the manager has no programs, and the pid file an early exit leaves
alone is one of an earlier life; so the error paths of the start, which skip the
teardown, leave nothing behind.  `StdinKeepsOrder` (`StdinInOrder`) is about bytes on
their way through three places: what the child has and the buffer are the beginning
of what was accepted, and the messages in the channel lie end to end after it
(`EndToEnd`, stated with the offsets of the messages, because a flattened channel
would be an induction over it); `EndToEndAppend` and `EndToEndTail` say what the two
ends of the channel do to it.

**RingLog** (`RingLogProofs`).  `RingReads` says of a ring of any capacity, and of reads
and files of any size, what `RingExact` says of a small one, except about the line
index.  `RingInv` is that the ring starts where its capacity allows (`RingOk`) and
that each of the last `Capacity` offsets of the stream put into it lies in its own
cell (`Holds`).  The heart is `CopyHolds`: two offsets less than `Capacity` apart
share no cell (`OneCell`), so a write that wraps, or is longer than the ring, puts
every byte it keeps into a cell whose old byte has become too old.  A ring seeded
from a file holds nothing before `first`; what a reader asks for there is excepted
as in the run.

**DependencyGraph**.  `KahnInv` relates `in_degrees` to the number of open edges
(`DegreesCount`), the queue to the programs that are released and not visited
(`QueueSound`), and bounds the queue's layers (`LayersInOrder`).  The step that
pops the queue, `PopStep`, is the heart: because layers leave the queue in
order, the last prerequisite to be visited is the deepest one, so a released
program is one layer above it.  `LoopInvariant`, `Layered` and
`SecondTestNeverFires` follow, the last one because unvisited programs without a
released one among them would all wait for one another.

`OrderReturned` (`LayersSound`) says that what `build` returns is the declarative
order of `DependencyOrder`, and that the reversed layers stop every program once
and before its prerequisites.  `DependencyOrderProofs` has what this needs of the
declarative order alone: an acyclic graph has a layering (`LayeringExists`), only
one (`OneLayering`), numbered without gaps (`LayersWithoutGaps`); a set sorted by
priority and name has every element once (`Sortable`, `ListsAll`).  Each of them is
an induction on paper; here each argues about a least or a greatest natural
number, or a largest partial solution, which the provers can instantiate.

Model-checked only: liveness (`CallAnswered`, `CancelEnds`, `EventsNoticed`,
`ManagerProgress`, `WatchProgress`, `ShutdownEnds`, the liveness part of
`ListenerControlled`), which is outside this prover's reach; the computations of
`Setup` and the ring's line index (`LinesExact`, a part of `RingExact`), which are
inductions over data; `RotationSound` and `LinesDelivered`.

## Plan

Modelled so far: the program actor with its streams, metrics and contract, the
graph, the manager, its handle's deadlines, the watch service, event listeners,
logs, the interfaces with their sessions, loading, and the daemon.  What is left:

1. Listener programs under `Manager`: pools created, reused by name and dropped
   by a reload, and what a rejected reload leaves subscribed.
2. The cron table with deadlines: popped once per occurrence; an entry that has
   no next occurrence.
3. Timestamped backups and the time part of rotation.
4. Proofs: `RotationSound`.

## Not modelled

The command line client and the control protocol (requests, their types and the
formatting of answers), the Windows platform (system calls behind the traits the
Unix one implements), the text of the wire formats (XML, JSON, syslog headers,
listener envelopes), the tables that rename and deserialise single options, and
the web interface's files.  They are translations or I/O around the parts above
and keep no state whose interleavings matter.  `PROJECT.json` lists every part
with the reason.
