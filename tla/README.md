# Formal models of the Appc Daemon

This directory holds TLA+ models of the parts of the daemon (`src/packages`) where requests, callbacks, timers, child
processes, messages and the file system interleave. TLC checks them on small instances; TLAPS proves the most important
results for every instance. File and line references are to this repository.

1. [The system](#1-the-system)
2. [The modules](#2-the-modules)
3. [The runs](#3-the-runs)
4. [Bounds](#4-bounds)
5. [Fairness](#5-fairness)
6. [What is proved](#6-what-is-proved)
7. [What is only model-checked](#7-what-is-only-model-checked)
8. [Disagreements between the code and what is said of it](#8-disagreements-between-the-code-and-what-is-said-of-it)
9. [The plan](#9-the-plan)
10. [What is not modelled, and why](#10-what-is-not-modelled-and-why)

## 1. The system

The daemon is one Node.js process. Everything in it runs on one event loop, so what interleaves are not instructions
but the pieces of asynchronous functions between two awaits, event listeners, timers, and messages from child
processes, websockets and the file system. A piece runs to its end before the next one starts, and what follows an
awaited promise that has been settled runs before the next event. The models take such a piece as one step.

| Component | State | Operations | Interacts with |
|---|---|---|---|
| **Dispatcher** (appcd-dispatcher/dispatcher.js) | ordered list of routes | register, unregister, call, next() | calls every service; a route may be another dispatcher |
| **ServiceDispatcher** (appcd-dispatcher/service-dispatcher.js) | `subscriptions` (sid to topic), `topics` (topic to descriptor with its `subs`) | call, subscribe, unsubscribe, publish | hooks of the service derived from it; 'end' and 'error' of the responses it handed out |
| **Data service** (appcd-dispatcher/data-service-dispatcher.js) | a gawk object and its watches | hooks of ServiceDispatcher | ServiceDispatcher, gawk |
| **Config service** (appcd-config-service) | layers, one file watcher per layer | load, unload, reload, shutdown | FSWatcher |
| **FSWatcher** (appcd-fswatcher) | tree of nodes shared by all watchers, one OS watch per directory, statistics | open, close, events | everything that watches files |
| **PluginManager, PluginPath, Scheme** (appcd-plugin) | registered plugins, plugin paths, one scheme per path, namespaces | register, unregister, detect, 'added', 'removed' | FSWatcher, Dispatcher, config service |
| **Plugin** (plugin.js) | `activeRequests`, `inactivityTimer` | start, stop, dispatch | PluginBase, config service, setTimeout |
| **PluginBase, ExternalPlugin, InternalPlugin** | `info.state`, `info.error`, `tunnel`, `watchers` | start, stop, waitUntil, reload, exit of the host | plugin host (child process), FSWatcher, subprocess manager |
| **Tunnel** (tunnel.js) | `requests` by id; `streams` of the plugin | send, onMessage | the IPC channel to the plugin host, both ways |
| **SubprocessManager** | list of child processes | spawn, kill, shutdown | Dispatcher, child processes |
| **DetectEngine, Detector, RegistryWatcher** (appcd-detect) | detectors, results, watches, refresh timer | start, scan, redetect, stop | tailgate(), FSWatchManager, the Windows registry |
| **Agent** (appcd-agent) | poll timer, ring buffers | start, stop, poll | collectors |
| **Telemetry** (appcd-telemetry) | events on disk, the loop that sends them | add, send, shutdown | HTTP, file system |
| **Server** (appcd-core/server.js, main.js) | subsystems in start order, the pid file | start, shutdown | everything |
| **Websocket sessions** (appcd-core/websocket-session.js) | requests of one socket | handle a message, respond, 'close' | Dispatcher |
| **Client** (appcd-client) | the socket, pending requests by id | connect, request, disconnect, start of the daemon | websocket sessions |
| **Plugin installation** (appcd-core/plugins.js) | plugin directories, the workspaces' package.json | install, uninstall, link | npm, yarn, file system |
| **Asynchronous helpers** (appcd-util) | pending callers by name | mutex, tailgate, cache, debounce | many of the above |

How a request travels, which is what most of the models follow: a client asks for a path over its websocket (**Client**,
**WebSocketSession**); the chain of routes is tried for its handler (**Dispatcher**), which is a service
(**DataService**, **ServiceDispatcher**) or the route of a plugin (**PluginRegistry**). `PluginManager.call()` then
awaits `start()` of the plugin (**PluginLifecycle**), `Plugin.dispatch()` counts the request and holds off the
inactivity timer (**PluginActivity**), and `ExternalPlugin.dispatch()` sends it through the tunnel to the plugin host
(**Tunnel**), whose dispatcher calls a service, often a ServiceDispatcher. The reply or the stream of events comes back
the same way. Around that, the **Daemon** starts and stops its systems, and files are watched by **FSWatcher** for the
plugin registry, the configuration and the **DetectEngine**.

What is hard, and which correctness it threatens:

- *ServiceDispatcher*: 'end' and 'error' of a response come later than their cause, by which time the topic may be
  somebody else's. Correct: nobody registered is cut off, nobody unregistered is published to, one source per topic
  exactly while it has subscribers.
- *Plugin life cycle*: several `start()` and `stop()` calls wait for one another through `state` events while the host
  may fail at every point. Correct: one host at most, a state that is true to it, calls that settle.
- *Tunnel*: both ends may finish a stream, and the host may be gone. Correct: nothing lost, doubled or reordered;
  messages find their request; ends are passed on.
- *Inactivity*: a timer that is set by a function nobody awaits. Correct: no busy plugin is stopped, an idle one is.
- *Plugin registry*: 'added' and 'removed' await between the two halves of what they do, while the files of the plugin
  path change again. Correct: routes and namespaces agree, and what is registered is what is on disk.
- *FSWatcher*: nodes are shared, and an event says what happened some time ago. Correct: no node or watch is left over
  or lost, the tree follows the disk.
- *Daemon*: start and shutdown are sequences of awaits during which everything else goes on; a second daemon, or the
  pid file of a dead one, may be there. Correct: one daemon, named by the pid file; `shutdown()` ends; nothing that was
  to be kept is lost (events, children, file watchers, samples).
- *Client and session*: the connection may end between any two steps of either side. Correct: one answer, subscriptions
  that end with their connection, subscribers that are up to date, no route passed over.
- *Detection*: scans join one another, watches open late. Correct: the results are those of the disk, no watch is left.
- *Installation*: all packages are renamed while yarn runs. Correct: whatever fails, plugins have their name again.

`PROJECT.json` lists each hazard at the line where it bites, with the properties that watch it.

## 2. The modules

| Module | Models | Composition |
|---|---|---|
| `PubSub` | what a publish/subscribe service promises: members, events, one active source per topic | abstract specification |
| `ServiceDispatcher` | `service-dispatcher.js` with any combination of the four hooks, any of which may throw | implements `PubSub` (`Refinement`) |
| `PluginLifecycle` | `plugin-base.js`, `external-plugin.js`, `internal-plugin.js`: start, stop, reload, the host process and both directions of its channel, as far as starting and stopping go | |
| `Tunnel` | `tunnel.js` and the two dispatch paths of `external-plugin.js`: requests of the daemon to a plugin host | |
| `PluginActivity` | `plugin.js`: the counter of requests and the inactivity timer | |
| `PluginRegistry` | `plugin-manager.js`, `plugin-path.js`, `schemes.js` | |
| `FSWatcher` | `fswatcher.js` | |
| `Telemetry`, `ConfigService`, `Agent`, `SubprocessManager` | the package of that name, each with actions and properties of its own | instances in `Daemon` |
| `Daemon` | `server.js`, `main.js`: start and shutdown of the four, the pid file, two processes | composes them |
| `Client`, `WebSocketSession`, `Dispatcher`, `DataService` | `client.js`, `websocket-session.js`, `dispatcher.js`, `data-service-dispatcher.js` | instances in `Conversation` |
| `Conversation` | the connection between the client and the session, and what becomes of a request | composes them |
| `RegistryWatcher` | `registry-watcher.js` | extended by `DetectEngine` |
| `DetectEngine` | `detect-engine.js`, `detector.js` and the watches of `fswatch-manager.js` | extended by `Inventory` |
| `PluginInstall` | `appcd-core/src/plugins.js` | extended by `Inventory` |
| `Inventory` | what is installed and what is detected | composes the last two |
| `...Proofs` | theorems | extend the module of that name |
| `MC...` | values of the constants for TLC | |

The definitions marked "Mutant of X" stand next to the definition X that they change the way a plausible mistake
would; no specification uses them. They show that each property can fail.

`Daemon`, `Conversation` and `Inventory` put components side by side of which some share no state. The steps of such
components commute, so that a behaviour has a *focus*, chosen in its initial state: the component, or the cause of
change, that moves freely, while the others only take the steps that the composition asks of them. What a focus
explores is every interleaving of its own component with start, shutdown and connection loss.

### ServiceDispatcher

A sid is a fresh uuid per subscribe request, so a sid is its request. A descriptor (`{ topic, subs }`) is named by the
sid that created it, which lets the model tell two descriptors of one topic apart, as object identity does in
JavaScript. `desc[s]` is the descriptor in the closure of the request's `cleanup()`; `topics` is what the map holds now.

| Model | Code |
|---|---|
| `Subscribe` | `subscribe()`, lines 145-233, the hooks included; `lost` are requests a hook rejected, whose response nobody received |
| `Unsubscribe`, `NotSubscribed`, `CloseTopic` | `unsubscribe()`, lines 241-312: the branch for an unknown sid, and the tail that tidies up |
| `EndEvent`, `ErrorEvent`, `Cleanup` | the two `once()` listeners, lines 182-198 |
| `ConsumerEnd` | whoever holds the response ends it, for example websocket-session.js:139 |
| `PublishAll`, `PublishOne` | `descriptor.publishAll`, and the `publish` that `onSubscribe()` is given |
| `feeding`, `watching` | what the service does between its hooks: a source per topic, or one per subscriber |

Messages are only their type. A write to an ended response makes `failing` true of it, which allows `ErrorEvent`
later. A service without `onUnsubscribe` has nothing to take its `publish` function back with and is taken not to keep
it: it may only use it at once.

### PluginLifecycle

A *call* of `start()` or `stop()` is at the await that `pc` names; a caller that is done may call again, so a few
callers stand for any number of calls, that many at a time.

| Model | Code |
|---|---|
| `Start`, `WatchSources`, `Spawn`, `SpawnFails` | `start()` (plugin-base.js:365-400) and `startParent()` (external-plugin.js:389-479, 693-697), cut at their awaits |
| `Emit`, `SetState` | `waitUntil()` and `setState()`: the 'state' event and everybody it continues |
| `Stop`, `Stopped` | `stop()` before and after the await of `onStop()` |
| `FileChange`; `Reloaders` | the file watcher, its debounce timer and the reload it runs |
| `HostActivates`, `HostFails`, `HostDeactivates`, `HostDies` | `startChild()` (external-plugin.js:202-221, 345-363) and the death of the process |
| `Activated`, `ActivationError`, `Deactivated`, `HostExited` | the parent's handlers of what the host sends |
| `InternalActivated`, `InternalDeactivated` | internal-plugin.js:42-82 |

Node closes the IPC channel before it emits 'close' of a child, so `exit` is the last message of a host. The exit code
of a process that a signal ended is null, which `~~code` (external-plugin.js:652) turns into 0.

### Tunnel

`requests` is the map of pending requests in the parent, `streams` the set of responses the plugin keeps to unsubscribe
or end them. A request is a single call, a subscription, another stream, or an unsubscribe request for a subscription;
`AutoId` are the unsubscribe requests that `dispatch()` sends itself when a response ends. `response` goes from
"open" over "ended" (`end()` was called) to "closed" ('end' was emitted). `source` is the stream in the host.

### PluginActivity

Time is relative: a pending timer has `left` ticks, `idle` ticks went by since the last dispatch. `resetting` are
requests whose `resetTimer()` awaits the default timeout. A timer that was overwritten in `inactivityTimer` stays in
`DOMAIN left`: only its callback knows it. `started` abstracts the life cycle to what the callback and `resetTimer()`
look at.

### PluginRegistry

A scheme is one object with its plugin schemes below it; `disk` says which directories hold a plugin. An asynchronous
function is a *task*, a sequence of what is left of it, with a strand for each of the directories that a
`Promise.all()` works on side by side.

| Model | Code |
|---|---|
| `Change` | the environment: a plugin appears, goes, or another version takes its place |
| `Deliver`, `TopEvent`, `NestedEvent`, `KidEvent` | the file system watchers of the schemes (schemes.js) |
| `DetectScheme`, `Redetect` | `detectScheme()` and the debounced 'redetect-scheme' (plugin-path.js:51-130) |
| `Step...` | 'added' and 'removed' of PluginManager (plugin-manager.js:230-440), `detect()`, `watch()`, `destroy()` of schemes, each cut at its awaits |
| `StepRefused`, `Orphan` | the config service throws at a config file it cannot load: 'added' fails after the plugin was registered (plugin-manager.js:277), and with it what awaits it |
| `RegisterPluginPath`, `UnregisterPluginPath` | the two calls of PluginManager |
| `Register`, `Name`, `Unlist` | what 'added' and 'removed' do to `registry`, `registered`, `namespaces` and the routes |

A strand goes on at once after its awaits: the config service is called behind promises that settle without waiting for
anything. Only the stop of a plugin that runs takes time, and more than the 200 ms of the debounced redetection only if
`Slow`. `races` counts the changes and calls that came before the last one had been dealt with, `refused` remembers that
a config file could not be loaded. A plugin scheme whose `watch()` failed stays behind as a scheme of its own, whose
watcher is open and which no `destroy()` reaches. A plugin that is not supported is registered and gets no namespace.

### FSWatcher

The functions of `Node` are operators on the tree; a step is one call (`Open`, `Close`) or one event of the operating
system (`Deliver`). A directory has an `inode`, so that a watch on a directory that was moved away and the directory that
took its place are told apart. `hasty` is true after a change of the disk that came while an earlier event was on its
way. Renames are a deletion and a creation of a directory that may be filled already, as the operating system reports
them.

### Daemon and its systems

| Model | Code |
|---|---|
| `Start`, `IsRunning`, `WritePid`, `WatchPid`, `InitTelemetry`, `InitManagers`, `StartMonitor`, `Listen`, `Started` | `start()` of server.js, cut at its awaits |
| `Shutdown`, `StopTelemetry` to `RemovePid` | `shutdown()` and the systems in the order of their creation |
| `StopPlugins`, `held` | `await pluginManager.shutdown()`: it ends, or a plugin's stop does not, or fails |
| `PidDeleted` | the watcher of the pid file |
| `Connect`, `HangUp` | a websocket that `httpServer.close()` waits for |
| `Crash`, `Restart`, `DeletePidFile` | the environment, `MaxTroubles` times |

*Telemetry*: an event is a file; `files` are those on disk, `posted` those the server has taken. `loop` is the
`sendEvents()` under way, with the batch that is read, posted and removed; `pending` the promise that `shutdown()` waits
for. The files of `Faulty` events may fail to be read, and are then removed without having been sent, or to be removed.
*ConfigService*: a layer is a version of its file; a watcher has its events on their way, in order. *Agent*: time is
counted, a timer may fire up to `MaxLate` late, a poll awaits the collectors there were when it began (`asked`); a
collection is a ring of `Size` values with its sum, minimum and maximum. *SubprocessManager*: a child goes by the
request that spawned it; the outcomes of `child_process.spawn()` are a child, none, ETXTBSY and an exception. The
'error' event of a retried spawn has no listener ("unheard").

### Conversation and its components

`up` and `down` are what is on its way over a socket, in order; it is lost when the socket is `cut`. `link` is the
client's end, `peer` the server's. `heard` is what a requester was told. Of the routes, `guard` and `fault` come and go,
one awaits before `next()`, one is a dispatcher of its own. `since` are the routes that have been there since a call
began, `shifted` the calls in front of whose index a route was unregistered. The focus is "connect", "feed", "stream"
or "routes".

A connection may be refused, which leads to a start of the daemon where the request asks for one, or fail otherwise; the
command that starts the daemon may succeed without a daemon (`Starts`), or exit with an error (`StartFails`). A write to
a response of a data service whose `end()` was called fails, and the listener of its 'error' cleans up as that of 'end'
would.

### DetectEngine, RegistryWatcher

A search path has directories, which may hold an item. A scan goes through its paths one by one, each with a detector
that opens its watches on the way; the steps between two awaits are `ScanStale` to `EndScan`. `asks` are rescans on
their way, that `Join` the scan they meet (tailgate) or start their own. FSWatchManager is behind the dispatcher:
`coming` are the answers to subscriptions, `drops` and `stops` wait for those to unsubscriptions. It is one channel that
keeps its order: a subscription is answered after the unsubscriptions that were asked for before it (`Asked`), and what
a watch has reported is delivered before the answer to its unsubscription (`Silent`). Detectors that are to be stopped
are a set, of which any is taken next. `SetPaths` sets the paths in any phase of the engine. The ghosts name what the
code does not promise: `missed` (a rescan was answered by a scan that had gone past the change, threw, or overtook one
with newer paths), `unseen` (since the scan began something changed that no watch acts on: nothing is watched between
the end of one detector and the opening of the next, and the watch of a subdirectory leaves the deletion of the search
path to the path's own watch, which may be gone), `cut` (detectors that were stopped while a scan was about them).

### PluginInstall

A command is a process that goes through `detect`, `choose`, `fetch`, `extract`, `remove`, `symlink`, `update`,
`rename`, `yarn` and the restoring of names, each per plugin where the code has a `Promise.all()`; it may die at any of
them. Linking, writing the workspaces, reading, writing and restoring a name may fail (`Fails`), the last also because
two prunings of node_modules remove the same parent. `clean` says that no command died and no name failed to be changed
or restored. What is left on the disk is where the next command starts.

## 3. The runs

All pass except `REG_ghost`. `CHECK_DEADLOCK FALSE` is set everywhere because every one of these systems may come to
rest: all sids are used up, nobody calls any more, the host is gone.

| Run | Question | Answer |
|---|---|---|
| `SD_service` | a service with topic sources (as DataServiceDispatcher and ConfigService): is every subscriber fed, by one source while there is one, is a hang-up noticed, does it implement `PubSub`? | yes |
| `SD_throw` | all hooks, three of which may throw, two topics: is the registry consistent, does every way out undo the subscription, is every transcript well-formed? | yes |
| `PL_serial` | one starter, two stoppers, reload, all failures: one host, true state, no host after `stop()`, does everybody settle? | yes |
| `PL_starts` | three starters, nobody stops, errors: activated once, everyone gets the tunnel or an error? | yes |
| `TU_relay` | calls, streams, subscriptions, hang-ups, death of the host: relayed exactly, replies routed, ends passed on? | yes |
| `PA_busy` | requests with streams, stops and crashes: exact counter, no busy plugin stopped, an idle one with a timer stopped? | yes |
| `REG_mirror` | plugins that come, go and change, a path that is registered and unregistered: do routes match versions, does all come to rest, and is what is registered then what is on disk? | yes, but for what was refused |
| `REG_ghost` | a path that is unregistered while its plugins run and change: does that remove all? | **no**: a listener that awaits a plugin's stop registers it again |
| `FSW_tree` | three watchers over directories that come, go and are moved: counts and parents right, no watcher lost, the disk mirrored, everybody told? | yes, but for what the properties name |
| `DMN_systems` | two daemons and the four systems of one of them: true pid file, exact list of children, layers that follow their files, true samples, no event lost, a shutdown that ends? | yes; what is lost, or holds the shutdown up, is named |
| `SES_talk` | two requests over two sockets, a daemon that comes and goes, routes that change: one answer, no orphan, no stale subscriber, no route skipped? | yes |
| `INS_inventory` | directories, paths and registry keys that change during scans, stops, and `appcd pm` commands that die or fail: true results, no watch left, plugins kept? | yes |

What some of the properties need said:

- `StateIsSound` is `SerialInv` for an external plugin, which contains `StateMatchesHost` and `OneHost`. They hold for
  one caller of `start()` at a time and not for two (section 8); `OneStart` holds for several as long as nobody stops
  the plugin.
- `StartsSettle` (in `EverybodySettles`) is about external plugins. A `start()` that waits while another one activates
  an *internal* plugin hangs if that activation fails, since `setState()` is called without the error
  (internal-plugin.js:51).
- `RequestsSettle` (in `NewsArrives`) is conditional on the host: one that is asked on its way out never answers,
  nothing rejects `tunnel.requests` when the host exits. It leaves out streams that have not begun, which are resolved
  by their first message or their end, neither of which a service owes. `HangUpReachesService` is about subscriptions:
  the other streams cannot be cancelled in the host at all.
- `IdleStops` starts from a timer that is set or about to be. See section 8 for when there is none.
- `RegistryMirrorsDisk` is about changes and calls that come one after the other, and about config files that can be
  loaded; with overlap (`races > 0`) or after a refusal (`refused`) the registry may rest on something else, while
  `RoutesMatchVersions` and `ComesToRest` hold all the same.
- `ShutdownEnds` excepts what keeps `shutdown()` for ever: a subprocess that must not be signalled, and a plugin whose
  `stop()` does not end (plugin-base.js:422). It says that nothing else does.
- `NothingLost` excepts the event files that could not be read: `sendEvents()` removes them (telemetry.js:371).
- `MirrorsDisk` is about events that are delivered before the disk changes again (`~hasty`); `NothingLeaks` and
  `WatchersKept` are not.
- `NothingLeaks` is about the statistics and the parents of nodes. That no node outlives the last watcher is the second
  part of `WatchersKept`.
- `WatchersKept` names two exceptions and `ToldOfEntries` one, all defects: `isActive()` (fswatcher.js:440) does not
  look below a path that has ceased to be a directory, so that a watcher below is lost; `recursiveUnwatch()`
  (fswatcher.js:709) goes by a listing that may be out of date, so that a node keeps a recursive watch that was closed,
  and stays (section 8); and `notify()` (fswatcher.js:479) passes over a node that is neither the current one nor
  recursive.
- `ResultsAreTrue` (in `DetectionIsTrue`) lets the paths of an engine that polls them be old while its timer is armed to
  look again: `refresh()` compares their number only (detect-engine.js:317).
- `PidFileTrue` excepts what `raced`: two processes that both find no pid file, the second of which writes its own
  before it finds the port taken, and a file that is deleted before it is watched.
- `NoLeakedWatch` leaves out the detectors that were `cut`: their watches do leak (section 8).
- `ListIsExact` (in `SpawnsAreListed`) excepts the children of a retried spawn: the attempt that succeeds is not awaited
  by the request (subprocess-manager/index.js:94). `WatchersOwned` (in `LayersAreWatched`) excepts the watcher that a
  second load of a layer replaces (config-service.js:115).
- `FlushDelivers` (in `EventsAreSent`) owes nothing when the last loop was rejected: `shutdown()` awaits that promise
  and then skips its flush (telemetry.js:417). Nor does it when the flush itself is rejected, by the server or by a file
  that cannot be removed.
- `Settles` and `OneEnd` name what a requester may miss: only the request that opened a socket hears of its end; see
  section 8.
- The first part of `PluginsAreKept` is about commands that were not killed and which failed neither to change a name
  nor to restore one (`clean`); other failures are not excepted. Its second part, that
  a finished command leaves exactly what is installed as workspaces, holds after whatever went wrong before.

## 4. Bounds

| Bound | Value | Why it is enough |
|---|---|---|
| sids | 3 | two subscribers of one topic whose end events are still due when a third creates its next descriptor |
| topics | 1 or 2 | topics only meet in `subscriptions`; two show that they do not mix (`SD_throw`) |
| `MaxSent` | 3 | subscribe, an event and one more, or unsubscribe, per response |
| `Starters` | 1 or 3 | one that starts and two that wait |
| `Stoppers`, `Reloaders` | 2, 1 | one that stops the host, one that waits, and a reload between them |
| `Hosts` | 2 | the host that leaves and the one that comes; `Spawn` waits for a free one |
| pending debounce timer | 1 | `timer` is a flag: the watchers of a plugin share one debounced function |
| requests of `Tunnel`, `MaxEvents` | 2, 1 | a subscription and the request that ends it, or two streams side by side; `MaxEvents` counts `subscribe` too |
| requests, timers of `PluginActivity`, `Timeout` | 2, 3, 2 ticks | two that overwrite one another's timer, and an old one; 1 tick would not tell "just set" from "half way" |
| `REG`: directories, tasks, changes, calls, races | 4, 2, 2 (`REG_ghost` 3), 3, 1 | the path itself, two plugin directories and a nested one; one redetection overlapping another. A change after a refusal overlaps nothing; that an 'add' reaches a scheme whose first plugin scheme was not kept needs one change more |
| `Slow` | TRUE (`REG_ghost` FALSE) | both a stop that outlasts the debounce and one that does not |
| `FSW`: watchers, `MaxChanges`, `MaxOpens` | 3, 3, 3 | a recursive one and two that it covers; a directory that goes, comes back and is filled |
| `DMN`: processes, `MaxTroubles` | 2, 1 | a daemon and a second one beside it; one crash, restart or deletion |
| events, `Faulty`, batch | 3, 1, 2 | more than a batch; a file that may fail to be read or removed |
| `Size`, `PollInterval`, `MaxLate`, `MaxTime` | 2, 2, 2, 5 | a ring that is full, a poll that is late by an interval and leaves a sample to fill in |
| spawns, `MaxTries` | 2, 2 | a stubborn child and one that must not be signalled; one retry |
| `MaxWatchers`, `MaxEdits` | 2, 2 | a layer that is loaded twice; a file that goes and comes back |
| `SES`: requests, sockets, starts, changes, chunks, routes | 2, 2, 1, 1, 2, 3 | two requests that share or race for a socket; one start of the daemon; a route in front of, at and behind the index |
| `NestedOnce` | one level | a dispatcher in a dispatcher: a call never comes back from it, so that a deeper one would repeat the same step |
| `INS`: directories, detectors, watches, `MaxChanges` | 3, 3, 4, 2 | the old and the new detector of a path and one of another; a change during the scan and one behind it |
| plugins, commands | 2, 3 | one plugin that is at work while the other is kept; a command that dies, one that repairs, one that finishes |

## 5. Fairness

All are weak: each of these steps stays possible until it is taken. Nobody is obliged to subscribe, publish, request,
start, stop, or change anything, and no host has to die.

- `ServiceDispatcher`: Node emits 'end' of a response that was ended and is being read.
- `PluginLifecycle`: requests of `startParent()` to the daemon's own services are answered, a spawned host activates or
  fails, a host answers a deactivate request it has received, the parent handles what was sent. These are the event
  loop's and the plugin's `activate()` and `deactivate()` coming to an end.
- `Tunnel`: messages are read, end events emitted, the host's dispatcher settles what it was asked, a stream that the
  service has ended is finished. Services need not emit anything.
- `PluginActivity`: time passes, due timers fire, the config service answers. Requests need not be answered.
- `PluginRegistry`: promises go on, the stop of a plugin ends, timers fire, file system events are delivered.
- `Daemon`: `shutdown()` goes on; the polls, the posts and the processes it waits for come to their end (a post times
  out, a process that has been signalled and does not refuse exits); and clients hang up. The last is what
  `httpServer.close()` needs: webserver.js:235 awaits it, and it waits for the last connection. Nothing is assumed of
  plugins: their stop may hold `shutdown()` for ever.
- `Conversation`: as long as the connection and the daemon do what is asked of them, messages are delivered, 'close'
  events emitted, calls settled. Nothing is assumed of the environment that cuts a connection.

`FSWatcher` and `Inventory` have safety properties only and no fairness; their properties at rest say what must hold
once everything a change has set off has been done.

## 6. What is proved

Each theorem is about the component's own `Spec`, for every value of its constants that satisfies the named assumption.

| Theorem | Module | For |
|---|---|---|
| `TypeCorrect`: `TypeOK` | ServiceDispatcherProofs | all sids, topics, hooks |
| `RegistryCorrect`: `RegistryInv`; `NobodyStranded` | ServiceDispatcherProofs | the same, whichever hooks throw |
| `SourcesCorrect`: `OneSourceWhileNeeded` | ServiceDispatcherProofs | a service with both topic hooks whose clean-up hooks do not throw (`CleanService`) |
| `SubscribersAlwaysFed`: `SubscribersAreFed` | ServiceDispatcherProofs | the same, with an `initSubscription()` that does not throw |
| `LeavingIsComplete`: `LeavingUndoesAll` | ServiceDispatcherProofs | any hooks, of which `onUnsubscribe()` does not throw |
| `TranscriptsAreWellFormed`: `Transcript` | ServiceDispatcherProofs | any hooks, whichever throw |
| `ImplementsPubSub`: `Spec => Refinement` | ServiceDispatcherProofs | the services of `SD_service` |
| `SerialCorrect`: `StateIsSound`; `HostIsUnique`: `OneHost`; `StateIsTrue`: `StateMatchesHost`; `StopEndsHost`: `StopLeavesNoHost` | PluginLifecycleProofs | an external plugin with one caller of `start()` at a time; all sets of stoppers, reloads and hosts, every failure |
| `CountingCorrect`, `BusyIsNeverStopped` | PluginActivityProofs | all finite sets of requests, all timeouts |
| `RoutesCorrect`: `RoutesMatchVersions`; `RegistryTyped`: `TypeOK` | PluginRegistryProofs | all directories, plugins, and functions under way |
| `RegistryCorrect`: `RegistryMirrorsDisk` | PluginRegistryProofs | the same, with config files that may be refused (after which it owes nothing), when a redetection does not overtake a stop (`~Slow`) and plugins differ in name or version (`OneOfAVersion`) |
| `OneActivates`: `OneStart` | PluginLifecycleProofs | plugins of either type, any number of starters, every failure; nobody stops the plugin |
| `StartLeavesTunnel`: `DispatchHasTunnel` | PluginLifecycleProofs | the same, no signal kills the host |
| `PluginsKept`: `PluginsAreKept` | InventoryProofs | all plugins and commands, which may fail or die anywhere |
| `NoneIsLeaked`: `NoLeakedWatch` | InventoryProofs | all disks, registries, paths and options, any number of detectors, watches and changes |
| `KeysFollowed`: `KeysAreMirrored` | InventoryProofs | all trees of registry keys and filters, any number of changes, however late they are reported |
| `DetectionCorrect`: `DetectionIsTrue` | InventoryProofs | what the last two range over, together |
| `SystemsAreUsedAsSpecified`: `TM!Spec /\ CS!Spec /\ SM!Spec` | DaemonProofs | all processes, crashes, restarts and deletions of the pid file, in every focus |
| `DaemonSendsEvents`: `EventsAreSent`; `DaemonLosesNoEvent`: `NothingLost` | DaemonProofs | the same, all events, batch sizes and posts |
| `DaemonListsSpawns`: `SpawnsAreListed` | DaemonProofs | the same, all requests, retries and children that resist |
| `DaemonWatchesLayers`: `LayersAreWatched` | DaemonProofs | the same, all layers, watchers and edits |
| `PidFileNamesDaemon`: `PidFileTrue` | DaemonProofs | the same |
| `AgentSamplesAreTrue`: `AgentIsTrue` | DaemonProofs | the same, all sizes of the window, intervals, samples and delays |
| `TunnelCorrect`: `TunnelIsFaithful` | TunnelProofs | all requests of every kind, all numbers of events |
| `CallsMissNoRoute`: `NoneIsSkipped` | ConversationProofs | all handlers, dispatchers and routes that come and go |
| `RequestsEndOnce`: `OneEnd` | ConversationProofs | all requests and sockets, whatever connections end |
| `SourcesFollowSockets`: `SourcesFollow`; `SubscribersHaveLatest`: `SubscribersAreCurrent` | ConversationProofs | the same, all keys, filters and numbers of changes |

*Assumptions.* Only the named ones of the modules, that `Requests` is finite where it is counted, and the conditions on
hooks, or on the callers of `start()`, that the theorems name. TLC evaluates every assumption. Those of `Telemetry`,
`ConfigService`, `Agent` and `SubprocessManager` are part of `DMAssumption`, those of `Client`, `Dispatcher` and
`DataService` of `CVAssumption`, which also says that the routes a behaviour begins with are lists of handlers, of
`MaxRoutes` at most.

*The registry of subscriptions.* `NoStrandedSubscriber` and `NoGhostSubscriber` are not inductive: to see that
`cleanup()` of one sid cannot delete a descriptor that others use one has to know that the descriptor in its closure is
the one its topic was registered with. `DescriptorsAgree` adds that: a topic's current descriptor has that topic, a
request's descriptor has one, and a descriptor is named by a request that has it. Their conjunction `RegistryInv` is
inductive with `TypeOK`; the critical fact is in `cleanup()`: it looks at `subscriptions` before it deletes, and a sid
that is still there proves that its descriptor is still current.

*The sources.* `SourceInv` adds that a topic has a descriptor only while that has subscribers and that only current
descriptors are fed; `destroySubscription()` then runs exactly when the descriptor is dropped. It is false once clean-up
hooks throw (the descriptor stays, empty), hence `CleanService`.

*Leaving.* `LeavingInv` is inductive with the registry: what a service publishes to by itself is registered, and a
response whose 'error' listener has fired is not. The listener of 'error' runs the same `cleanup()` as that of 'end', so
a sid that is in `subscriptions` has not used up its listener; the registry says that the others are in no `subs`.
`Transcript` needs in addition that nothing is sent to a sid that was not subscribed and that the last message of one
that is registered is not "unsubscribe" (`WellTold`).

*The refinement.* Members of the abstract service are the registered sids, its active topics those with a fed
descriptor. Subscribe, the two ways out, and publish each map to a step of `PubSub`, the rest to stutters; the lemmas
say what each handler does to the mapped state.

*One caller of start().* `StateMatchesHost` and `OneHost` say nothing of the calls under way, so they are not
inductive: a host that exits while another is being spawned would break them. `SerialInv` adds three things.
`StartMatchesState`: STOPPED and STARTED have no `start()` under way, STARTING has one, it has no tunnel until it has
spawned and owns the host behind it afterwards. `HostMatchesTunnel`: a process that has not been waited for is the one
behind the tunnel, and nothing is on the channels of any other. `ChannelsAgree`: 'exit' is the last message of a host,
"deactivated" comes from a host that has exited and answers a request that is no longer in its inbox, and no call has two
requests or answers due. The last makes `StopLeavesNoHost` follow: what ends a `stop()` that waits is either 'exit', or
the answer of the only host there was, which has exited. The theorems ask for one starter because the code needs it: see
section 8 for what two of them do.

*Several callers of start().* While nobody stops the plugin it goes through STARTING once per host. `SharedStart`: while
the plugin is STARTING exactly one `start()` is past its checks, otherwise none; `SharedHost`: the only host that has not been
waited for is the one behind the tunnel, and that one is owned until it has been heard of; `Says`: what is on the channel
of a host agrees with whether it runs. A `start()` that waited returns when STARTED is set or an error is, and STARTED is
set while the tunnel is there. A signal that kills the host breaks the second theorem, as external-plugin.js:675 takes it
for a normal exit; section 8 has the same for a host that is deactivated.

*Inactivity.* The inductive invariant is the count itself together with the types: `activeRequests` is changed in four
places of the code, each where a request enters or leaves the set that is counted. That the timer's callback stops no
busy plugin follows since a positive number of requests is not 0.

*Routes.* The invariant is about `mgr` alone. `Name` and `Unlist` preserve it whatever directory and plugin they are
called with, because each looks at what the namespace holds before it touches the route; so nothing has to be known of
the order in which 'added' and 'removed' go on after their awaits, which is the point of the theorem.

*The registry of plugins.* What is registered becomes true only after several awaits, so the invariant has to say of
every function under way what it is still going to do. `Each` says what the manager has of a directory (`Has`): whether
it is in `registry`, in `registered` and in a namespace, and that those agree on the plugin. `Phase` says where the
program is while nothing overlaps (`races = 0`). At rest, the scheme has watchers on what it covers, what it holds is
what is on disk, and the manager has been shown that; `Handling` the change of one directory, the same but for that
directory, and what is left of the task ends in showing it; `Destroying`, `Destroyed` and `Creating` a scheme, where the
strands of the task name the directories that are yet to be shown or taken away. `OthersDead`: no scheme but that of the
registered path has a watcher or a timer. With `~Slow` a redetection fires only when the handlers are done, which keeps
the phases apart; `REG_mirror` has it TRUE, and finds nothing wrong where a redetection does overtake a stop. A refused
config file ends the strand it is met in, with a plugin registered that has no namespace: from there on nothing is owed
but types. `OneOfAVersion` is needed because `versions` is keyed by the version: a second plugin of the same name and
version takes the place of the first, and removing either removes both (plugin-manager.js:373, 405).

*Installation.* What a finished command leaves follows from what it has chosen, so the invariant follows the set of
packages with their own name through the places of a command: it is what was found while directories are read
(`DetectInv`), the workspaces-to-be without what is yet to be fetched, or with what is yet to be removed (`WorkInv`),
and the workspaces without those that are *away* while names are changed (`RenameInv`). Whatever an earlier command left
broken is moved to `invalid` before anything is chosen, which is why that part needs no assumption on the past. Any of
the steps may fail: a command that does is not finished, and if a name was not changed or not restored `clean` is false;
that a package without its own name is due to be restored, unless a name failed, is `RenameInv` too.

*The watches of detectors.* `NoLeakedWatch` says where the id of an open watch is, and every step that writes an id may
lose another one. `PlacedInv` is stronger: the id of a watch that is open *or has an event to come* is in the place it was
opened for, or on its way there. The rest says why no write hits such a place. `ComingInv`: a place for which an id is on
its way holds no watch, and what was given up there was given up before. `DropsInv`: a place that a drop will clear holds
the dropped id, or none. `StopsInv`: what a `stop()` has passed over is closed, and a detector that is being stopped is
not scanned, unless it is `cut`. `HaltInv`: the detectors that `DetectEngine.stop()` is done with have no watch and are
not scanned, so that it may forget them. `DirsInv`: no two detectors are of one directory, so that a scan keeps each that
has its path. It needs that `searchPaths` is a Set, that ids are new, and that answers and events keep their order; with
answers in any order TLC finds a leak: the answer to a drop clears the place that the next watch has taken.

*Telemetry, subprocesses, layers.* Each has an inductive invariant of its own, proved of the component's own `Spec`.
`TelemetryLoopInv` ties the loop to `pending` and `flushing`, `TelemetryBatchInv` says that a batch is removed only when
the server took it, `TelemetryOwedInv` that what the flush owes is either sent or still on disk and in the loop's list or
batch. `SpawnInv` relates a child to the attempts its request has left, and thereby to whether the request was told;
`ListInv` says that what is known and not closed is listed until `shutdown()` clears the list; `KillInv` that a `kill()`
is resolved only by the exit of the child or after SIGKILL. `WatcherInv` and `LayerInv` follow the watchers of a layer
and the events that are on their way through them: the last of these is what the file has come to.

*The daemon.* `StepsOfSystems` shows that each step of `Daemon` is a step of each of the four systems, or leaves it
alone. So the daemon implements their specifications, and what is proved of them alone holds in it; nothing of the order
of start and shutdown is needed, which the systems' own guards do not rely on. (The agent is begun again by a restart,
so that its `Spec` is not implemented as it stands; its invariants are proved of the daemon's steps.)
`PidFileTrue` is about processes: `PidInv` says that as long as nothing `raced`, at most one process is past
`isRunning()` (server.js:397) and not gone, and that until it has been told of a deletion the file names it; `WatchInv` that
only such a process watches the file.

*The agent.* `AgentIsTrue` has three parts: a poll is under way or planned from `start()` to `stop()`, sum, minimum and
maximum are those of the ring, and successive samples are less than two intervals apart, those included that a late poll
filled in. A poll may add many values, each of which may move one out of the ring: that each of the values filled in
keeps the three true is a fact about a recursive function; see *Induction* below.

*Registry keys.* A KeyWatcher learns of its key by reports that come in order but late. `KeptInv`: when its
key has no report to come, it holds what the key holds. `FollowedInv`: a key within the depth
that the filter lets through and that has no KeyWatcher has a parent with a report to come. `LastInv`: the last report of
a key that exists is not of its deletion. `ValueInv`: the value that was gathered is that of the key unless a `notify()`
is due. At rest there are no reports to come, and an induction on the depth of a key gives `KeysAreMirrored`.

*The results of detection.* What makes `results` true is spread over all that may be due: events, debounced timers,
rescans that have read their paths, stops and drops. `Alarmed` is that any of those is there which a scan will follow;
`Fresh` is that there is none and that the ghosts name nothing. `TruthInv`: while `Fresh`, the results agree with the
disk if no scan is under way, and if one is, it has found what is there *as of now* in the paths that it has done
(`FoundTo`), and in the part of its present path that it has looked at (`LookedAt`). A change of the disk makes that
false of what was found before, so the step has to leave `Fresh`, which it does since the watches of `PlacedInv` have
an event of it to come, or `unseen` is set. The event that arrives without a scan to follow is one of a watch that is no
detector's (`Leaves`). `PollInv` says the same of the paths: an engine that polls them has its timer armed or is about to
arm it, any other scans what `getPaths()` returns.

*Induction.* The library's induction theorems cannot be used by the provers here. Where a fact about a recursive function
or about the depth of a tree is needed, the proofs take a least counterexample instead: the set of numbers for which
the fact fails is a set of naturals, which has a least member if it is not empty (`WFMin`), and the definition at that
member contradicts it.

*The tunnel.* `RelaysExactly` relates what a stream emitted to what the consumer was given and what is on its way, as a
prefix and a rest, counted per request. The messages of all requests share one channel, and whether a message finds its
request depends on what has been answered: `WaitingInv` (what the host was asked is at one place there, pending in the
parent, and unanswered), `MessageInv` (nothing follows the last message of a request, nothing precedes 'subscribe') and
`ParentInv` (what the parent remembers for each stage of a call) are inductive together only.

*The dispatcher.* `WaitsInv` says that a call that awaits a handler has been passed on by every route before that one
that matches and has been there since the call began; `dispatch()` finds the first match from there on
(`FirstFound`), in a nested dispatcher as well (`LandsPast`). An unregistration in front of the index breaks it, and
makes the call `shifted`.

*Answers and subscribers.* `ConversationInv` follows a request both ways. `SentInv`: whoever has a session was sent, once,
over a socket that has been open. `FlowInv` and `FinishInv`: what is on its way to a client belongs to calls that came by
that socket; behind the message that ends a call nothing of it follows, and once a requester has heard "finish" nothing
of it is on its way; so `OneEnd`. `KnowsInv`: a request in `told` is being read or done, and the source of
a stream that was told of a closed socket has ended. `CurrentInv`: the
latest data is the last packet in the stream of a subscriber, or else the last message on its way to the client that
belongs to it, or else what the client has. Each step moves that packet one place on, or appends the new value
behind it; the step that could lose it is `SetData` for a topic that is not watched, which `WatchesFollowSubscribers`
excludes.

## 7. What is only model-checked

- Liveness under fairness, which is out of the prover's reach: `EndedIsForgotten`, `EverybodySettles`, `NewsArrives`,
  `IdleStops`, `ComesToRest`, `ShutdownEnds`, `Settles`, `SubscriptionsEnd`.
- `FSWatcher` as a whole: `NothingLeaks`, `MirrorsDisk`, `WatchersKept`, `ToldOfEntries`. Its functions recurse over
  trees whose shape they change on the way, with RECURSIVE operators, which the provers cannot expand.

Every other invariant and action property of the passing runs is also stated by a theorem, under the conditions that
section 6 names. The runs' own constants meet them, but for `REG_mirror`, whose plugins may stop slowly (`Slow`).

## 8. Disagreements between the code and what is said of it

Shown by a run: `REG_ghost`. plugin-path.js:98 says of `destroy()` that it "Removes all plugins and stops file system
watchers". When the package.json of a plugin that runs changes, the listener of its scheme (schemes.js:209-211) awaits
the 'plugin-deleted' event, and with it the plugin's `stop()` (plugin-path.js:85). If the path is unregistered
meanwhile, its scheme is destroyed and all watchers are closed; the listener then goes on, sets `this.plugin` and emits
'plugin-added': the plugin is registered again, for a path nobody knows, and no watcher will ever see it go.

Found with a model, without a run of its own. Each of these is a counterexample TLC gives for the constants named, which
replace those of the run (and `Types = {"external"}` those of `PL_serial`):

| Where | Constants | Violated | What happens |
|---|---|---|---|
| plugin-base.js:384 | `PL_serial` with `Starters = {c1, c2}`, `Stoppers = {s1}`, `Reloaders = {}`, `Hosts = {h1, h2}`, `Failures = {}` | invariant `OneHost` | A `start()` that waited for STOPPED sets STARTING without looking at the state again. Two of them spawn two hosts, and the tunnel of the first is overwritten. |
| external-plugin.js:675 | `PL_serial` with `Starters = {c1}`, `Stoppers = {s1}`, `Reloaders = {}`, `Failures = {}` | `DispatchHasTunnel` | A host that is deactivated while it starts exits with code 0; that resolves the `start()`, and the dispatch that follows finds no tunnel ("this should probably never happen"). |
| external-plugin.js:436 | `PL_serial` with `Starters = {c1}`, `Stoppers = {}`, `Reloaders = {r1}` | property `ReloadRestarts` | The reload tests `info.autoStart`; the field is `autoStarted` (plugin-base.js:64), and `stop()` clears it. The plugin is not restarted as Plugin System.md:230-231 says. |
| external-plugin.js:450 | the same | invariant `NoLeakedWatcher` | A plugin whose host exited by itself replaces its file watchers without closing them when it is started again. |
| fswatcher.js:709 | `FSW_tree` | invariant `opened = {} => nodes = <<>>` | a/b is created below a recursively watched a, and a/b/c is watched before the event of a/b has come. `recursiveUnwatch()` of a goes through the listing of a, which has no a/b yet, so that a/b remembers the recursive watch that is closed. When the last watcher is closed, /, a and a/b keep their nodes and watches. |
| plugin.js:446 | `PA_busy` with `Streams = FALSE`, `Interrupts = FALSE` | property `NotBeforeTimeout` | `resetTimer()` overwrites `inactivityTimer`. Of two requests that are answered concurrently one timer is out of reach of the `clearTimeout()` of the next dispatch and stops the plugin early. |

Visible in the models, which take the code as it is:

*Plugins.* external-plugin.js:128: `stop()` of a plugin that is STARTING and has no tunnel yet fails inside `onStop()`,
keeps the failure as `info.error`, returns, and the plugin starts nevertheless. external-plugin.js:671: an exit code is
recorded as an error only while the plugin is STARTING, whereas Plugin System.md:58-59 promises it for any non-zero
exit. internal-plugin.js:61: `onStop()` of an internal plugin never sets STOPPED; a second `stop()` or the next
`start()` waits for ever. external-plugin.js:84: nothing takes a response out of `this.streams` when its subscription is
cancelled, so `dispatch()` unsubscribes it again, contrary to the comment at line 85. plugin.js:466: a timer that fires
while a stream is open does nothing, and the end of the stream sets no other. tunnel.js:142: a host that exits with
requests unanswered leaves `activeRequests` above zero for good. plugin-manager.js:277: a config file that cannot be
loaded makes 'added' fail half way: the plugin is registered and in no namespace, the plugins that were to be watched
after it are not, and a plugin scheme whose `watch()` failed (schemes.js:377) keeps an open watcher that nobody will
close.

*File watchers.* fswatcher.js:440: `isActive()` does not look below a path that has ceased to be a directory. :709: see
the table. :479: `notify()` passes over a node that is neither the current one nor recursive.

*Daemon.* agent.js:149: after a late poll the next one is planned from the time that has passed and not from a grid; an
extra poll follows, and the buffers cover less than the 15 minutes the comment at :159 states. webserver.js:213, :235:
`httpServer.close()` waits for the last connection, so that a client that stays delays the shutdown. server.js:364,
main.js:38: a subsystem whose shutdown fails leaves the server STOPPING for ever. server.js:364 awaits the stop of every
plugin, which for an internal plugin that is STOPPING never comes (plugin-base.js:422). telemetry.js:371: an event file
is removed after any failure to read it, not only when it is broken. :417: a rejected `pending` makes `shutdown()` skip
its flush. subprocess-manager/index.js:94: the child of a retried spawn is in no list and its request fails, and if it
got no pid, its 'error' event has no listener (:94-106); :378: `shutdown()` clears a list to which was added meanwhile.
config-service.js:115: a second load of a layer replaces its watcher without closing it.

*Client and sessions.* client.js:91: any socket that exists counts as connected. :101: two requests that both await the
locale open a socket each, and only the one that opened a socket hears of 'close' and 'error'; the `once('close')` is
used up before a retry. :135: an error drops whatever socket there is, which may be another. :156: a daemon that does
not come up is started again without end. :213: `appcd` is not defined there, a ReferenceError. :302-316: a stream's
late error is emitted as a response and 'finish'. websocket-session.js:139: the listener of 'close' is added after
`dispatcher.call()`, too late for a socket that has closed, which leaves the stream without a reader (`told` in the
model); :100: the arguments of the error are in the wrong order. dispatcher.js:173, :433: `splice()` moves the routes
under the index of a call that awaits, and the next route is passed over (`shifted`). :432: a ServiceDispatcher that was
registered is never found by `unregister()`.

*Detection.* detect-engine.js:354: a rescan joins a scan under way (tailgate, util.js:782), so that what it is asked to
find may be missed; rescans may overtake one another in `getPaths()`. :317: `this.detector` is a slip for
`this.detectors`. detector.js:95-102: what changes between the end of one detector and the opening of the next is seen
by no watch (`unseen`). :147: what a watch of a subdirectory reports is for the primary watch to act on when it is the
deletion of the search path; if the primary watch has been closed and that of the subdirectory was left over, nobody
acts on it (found as a counterexample to an earlier `ResultsAreTrue`, now `unseen`). detector.js:95, :136, detect-engine.js:462: `stop()` during a scan leaves watches (`cut`), and
debounced rescans and the refresh timer (:327) survive it. registry-watcher.js: KeyWatchers below the first level have
no filter.

*Installation.* plugins.js:803: names are changed while yarn runs, so that a command that is killed leaves packages
which the next `detectInstalled()` (:216) moves to `invalid`. :851: a package.json that cannot be read makes the
restoring begin while other packages are still on their way to their other name. :853-858: restoring a name may fail,
also because two prunings remove the same parent under tailgate names that differ (:714-716); the package then keeps its
other name. A package that was extracted in part counts as installed when its package.json is there, and yarn's exit
code is only logged. pm.js:24: `appcd pm uninstall default` finds nothing to uninstall. An installation that has nothing
to do leaves a linked workspace listed.

## 9. The plan

1. *Proofs*: `NothingLeaks` of `FSWatcher`, once its recursion over nodes is written as recursive functions.
2. The tunnel's other direction: requests of a plugin to the daemon. It is the same code with the roles swapped, and
   deserves a model where both directions share the ids.
3. `mutex()` and `cache()` of appcd-util with an abstract specification. With `force`, `cache()` joins a tailgate that is
   under way and stores what was computed before the call (util.js:144).
4. Two `appcd pm` commands at once, which nothing in the code keeps apart.
5. Symbolic links in `FSWatcher`.

## 10. What is not modelled, and why

- *Input and output with little state of their own*: command line parsing, appcd-http, appcd-request, appcd-response,
  appcd-logger, appcd-machine-id, appcd-fs, appcd-path, appcd-config, the status monitor, and in plugins.js the search of
  the registry, the creation of projects and finding yarn. Their correctness is a matter of formats.
- *appcd-nodejs* downloads one archive at a time under a mutex and keeps no state but the disk's.
- *Loading a plugin's code*: its meta data, its sandbox, the debugger, statistics, and its configuration subscription.
  Their events do not change what `start()` and `stop()` do.
- *Build, release and demo scripts* are not part of the daemon.
- *Outside of the repository*: the operating system, Node's event loop, npm and yarn, gawk, winreglib. The models use
  them as the code does; the definitions of theirs are marked external in `PROJECT.json`.
