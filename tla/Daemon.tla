---------------------------------- MODULE Daemon ----------------------------------
(***************************************************************************)
(* The daemon: Server (packages/appcd-core/src/server.js) starts the       *)
(* systems one after the other, and main.js shuts them down in the same    *)
(* order.  Telemetry, ConfigService, the Agent of the StatusMonitor and    *)
(* the SubprocessManager are the modules of that name.  Of the plugin      *)
(* manager there is what its shutdown() may come to, of the fs watch       *)
(* manager its place in the order, and logging keeps no state here.        *)
(*                                                                         *)
(* Two processes may start at once: all of them share the pid file and the *)
(* port, and the systems are those of the process Main.  The systems share *)
(* no state, so that their steps commute: a behaviour moves one of them,   *)
(* the focus, and the others only start and shut down.                     *)
(***************************************************************************)
EXTENDS Integers, FiniteSets, Sequences

CONSTANTS
    Procs, Main,
    MaxTroubles, \* bound: how often the pid file is deleted or the daemon started again
    TiEnd,      \* the telemetry event of the shutdown
    Events, Faulty, SendBatchSize,                                          \* Telemetry
    Layers, MaxWatchers, MaxEdits,                                          \* ConfigService
    Own, Collectors, Values, PollInterval, Size, MaxLate, MaxTime, \* Agent
    Spawns, Stubborn, Untouchable, MaxTries                                 \* SubprocessManager

VARIABLES
    focus,    \* the system that moves
    held,     \* the plugin manager's shutdown() of Main does not end, or has failed
    state,    \* process -> the state of its server, "none" and "gone" before and after
    step,     \* process -> what start() has to do next, or shutdown() once it is started
    pidFile,  \* the process it names, or 0
    pidWatch, \* process -> its pidWatcher: "none", "open", or "told" that the file is deleted
    port,     \* the process that listens, or 0
    client,   \* there is an HTTP connection to Main
    raced,    \* two processes found no pid file, or it was deleted before it was watched
    troubles

VARIABLES files, posted, enabled, running, sendTimer, waited, loop, pending, flushing, owed
VARIABLES file, valid, layer, watchers, open, events, replaced, value, edits
VARIABLES now, timer, polls, collectors, asked, stamp, buckets, calls
VARIABLES spawn, tries, child, sent, listed, known, response, trees, kills, timers, shutdown

TM == INSTANCE Telemetry
CS == INSTANCE ConfigService
AG == INSTANCE Agent
SM == INSTANCE SubprocessManager

ASSUME DMAssumption ==
    /\ Main \in Procs /\ 0 \notin Procs /\ TiEnd \in Events /\ MaxTroubles \in Nat
    /\ TM!TMAssumption /\ CS!CSAssumption /\ AG!AGAssumption /\ SM!SMAssumption

tmVars == <<files, posted, enabled, running, sendTimer, waited, loop, pending, flushing, owed>>
csVars == <<file, valid, layer, watchers, open, events, replaced, value, edits>>
agVars == <<now, timer, polls, collectors, asked, stamp, buckets, calls>>
smVars == <<spawn, tries, child, sent, listed, known, response, trees, kills, timers, shutdown>>
pidVars == <<pidFile, pidWatch, port, client, raced, troubles>>
vars == <<focus, held, state, step, pidVars, tmVars, csVars, agVars, smVars>>

StartSteps == <<"check", "pid", "watch", "telemetry", "managers", "monitor", "listen", "announce">>
StopSteps == <<"telemetry", "config", "monitor", "fswatch", "subprocesses", "plugins", "listen", "pid">>
Alive(p) == state[p] \in {"starting", "started", "stopping"}

DMTypeOK ==
    /\ focus \in {"server", "telemetry", "config", "agent", "subprocesses"}
    /\ state \in [Procs -> {"none", "starting", "started", "stopping", "gone"}]
    /\ step \in [Procs -> 1..Len(StartSteps)]
    /\ pidFile \in Procs \cup {0} /\ port \in Procs \cup {0}
    /\ pidWatch \in [Procs -> {"none", "open", "told"}]
    /\ client \in BOOLEAN /\ raced \in BOOLEAN /\ held \in BOOLEAN /\ troubles \in 0..MaxTroubles

Init ==
    /\ focus \in {"server", "telemetry", "config", "agent", "subprocesses"}
    /\ state = [p \in Procs |-> "none"] /\ step = [p \in Procs |-> 1]
    /\ pidFile = 0 /\ port = 0 /\ pidWatch = [p \in Procs |-> "none"]
    /\ client = FALSE /\ raced = FALSE /\ held = FALSE /\ troubles = 0
    /\ TM!Init /\ (focus # "telemetry" => ~enabled /\ files = {})
    /\ CS!Init /\ (focus # "config" => \A l \in Layers : file[l] = 0)
    /\ AG!Init /\ (focus # "agent" => collectors = {})
    /\ SM!Init
-------------------------------------------------------------------------------
(* start() *)

Start(p) ==
    /\ state[p] = "none" /\ (focus = "server" \/ p = Main)
    /\ state' = [state EXCEPT ![p] = "starting"]
    /\ UNCHANGED <<focus, held, step, pidVars, tmVars, csVars, agVars, smVars>>

At(p, s) == state[p] = "starting" /\ StartSteps[step[p]] = s
Advance(p) == step' = [step EXCEPT ![p] = @ + 1] /\ UNCHANGED state

\* The pid file is deleted: its watchers are told.
Unlinked == pidWatch' = [p \in Procs |-> IF pidWatch[p] = "open" THEN "told" ELSE pidWatch[p]]

\* process.exit()
Gone(p) ==
    /\ state' = [state EXCEPT ![p] = "gone"]
    /\ port' = IF port = p THEN 0 ELSE port
    /\ client' = (client /\ p # Main)
    /\ UNCHANGED step

\* isRunning(): the process that the pid file names is alive, or the file is removed.
\* A file that names p itself is what is left of the process that p was before.
IsRunning(p) ==
    /\ At(p, "check")
    /\ IF pidFile \notin {0, p} /\ Alive(pidFile)
         THEN Gone(p) /\ UNCHANGED <<pidFile, pidWatch>>
         ELSE /\ pidFile' = 0
              /\ IF pidFile = 0 THEN UNCHANGED pidWatch ELSE Unlinked
              /\ Advance(p) /\ UNCHANGED <<port, client>>
    /\ raced' = (raced \/ (pidFile = 0 /\ \E q \in Procs \ {p} : Alive(q) /\ ~At(q, "check")))
    /\ UNCHANGED <<focus, held, troubles, tmVars, csVars, agVars, smVars>>

WritePid(p) ==
    /\ At(p, "pid") /\ Advance(p)
    /\ pidFile' = p
    /\ UNCHANGED <<focus, held, pidWatch, port, client, raced, troubles, tmVars, csVars, agVars, smVars>>

\* await getMachineId(); new FSWatcher(this.pidFile)
WatchPid(p) ==
    /\ At(p, "watch") /\ Advance(p)
    /\ pidWatch' = [pidWatch EXCEPT ![p] = "open"]
    /\ UNCHANGED <<focus, held, pidFile, port, client, raced, troubles, tmVars, csVars, agVars, smVars>>

\* await importTiConfig(); await telemetry.init()
InitTelemetry(p) ==
    /\ At(p, "telemetry") /\ Advance(p)
    /\ IF p = Main THEN TM!Start ELSE UNCHANGED tmVars
    /\ UNCHANGED <<focus, held, pidVars, csVars, agVars, smVars>>

\* The config service and the managers
InitManagers(p) ==
    /\ At(p, "managers") /\ Advance(p)
    /\ UNCHANGED <<focus, held, pidVars, tmVars, csVars, agVars, smVars>>

StartMonitor(p) ==
    /\ At(p, "monitor") /\ Advance(p)
    /\ IF p = Main THEN AG!Start ELSE UNCHANGED agVars
    /\ UNCHANGED <<focus, held, pidVars, tmVars, csVars, smVars>>

\* await webserver.listen(): fails with EADDRINUSE, and main.js exits.  The agent's first
\* poll is over before that if there was no collector to wait for.
Listen(p) ==
    /\ At(p, "listen") /\ (p = Main => AG!Waits)
    /\ IF port = 0 THEN port' = p /\ Advance(p) /\ UNCHANGED <<client, pidWatch>>
       ELSE Gone(p) /\ pidWatch' = [pidWatch EXCEPT ![p] = "none"]
    /\ UNCHANGED <<focus, held, pidFile, raced, troubles, tmVars, csVars, agVars, smVars>>

\* await Dispatcher.call('/appcd/telemetry', 'ti.start'); only now main.js listens for
\* SIGTERM.
Started(p) ==
    /\ At(p, "announce")
    /\ state' = [state EXCEPT ![p] = "started"]
    /\ step' = [step EXCEPT ![p] = 1]
    /\ UNCHANGED <<focus, held, pidVars, tmVars, csVars, agVars, smVars>>
-------------------------------------------------------------------------------
(* shutdown() *)

\* ti.end is added before the first system is shut down.
Shutdown(p) ==
    /\ state[p] = "started"
    /\ state' = [state EXCEPT ![p] = "stopping"]
    /\ IF p = Main /\ enabled /\ TiEnd \notin files /\ TiEnd \notin posted
         THEN TM!AddEvent(TiEnd) ELSE UNCHANGED tmVars
    /\ UNCHANGED <<focus, held, step, pidVars, csVars, agVars, smVars>>

Stopping(p, s) == state[p] = "stopping" /\ StopSteps[step[p]] = s

StopTelemetry ==
    /\ Stopping(Main, "telemetry")
    /\ IF flushing = "none" THEN TM!Shutdown /\ UNCHANGED <<state, step>>
       ELSE flushing = "done" /\ Advance(Main) /\ UNCHANGED tmVars
    /\ UNCHANGED <<focus, held, pidVars, csVars, agVars, smVars>>

StopConfig ==
    /\ Stopping(Main, "config") /\ Advance(Main)
    /\ CS!Shutdown
    /\ UNCHANGED <<focus, held, pidVars, tmVars, agVars, smVars>>

StopMonitor ==
    /\ Stopping(Main, "monitor") /\ Advance(Main)
    /\ IF calls = "started" THEN AG!Stop ELSE UNCHANGED agVars
    /\ UNCHANGED <<focus, held, pidVars, tmVars, csVars, smVars>>

\* fswatchManager.shutdown() closes its watchers at once.
StopWatchManager ==
    /\ Stopping(Main, "fswatch") /\ Advance(Main)
    /\ UNCHANGED <<focus, held, pidVars, tmVars, csVars, agVars, smVars>>

\* A subprocess that cannot be killed makes shutdown() fail: main.js logs the error,
\* the state stays STOPPING, and no signal starts another shutdown().
StopSubprocesses ==
    /\ Stopping(Main, "subprocesses")
    /\ IF shutdown = "none" THEN SM!Shutdown /\ UNCHANGED <<state, step>>
       ELSE shutdown = "done" /\ Advance(Main) /\ UNCHANGED smVars
    /\ UNCHANGED <<focus, held, pidVars, tmVars, csVars, agVars>>

\* pluginManager.shutdown() awaits stop() of every plugin.  It comes to its end, or one
\* of them never does: the deactivate() of an internal plugin does not return or fail, or
\* its state is STOPPING already, and nothing sets STOPPED.  A stop() that fails makes
\* shutdown() fail, with the same effect: the process stays, with the state STOPPING.
StopPlugins ==
    /\ Stopping(Main, "plugins") /\ ~held
    /\ \/ Advance(Main) /\ UNCHANGED held
       \/ held' = TRUE /\ UNCHANGED <<state, step>>
    /\ UNCHANGED <<focus, pidVars, tmVars, csVars, agVars, smVars>>

\* A process other than Main has no systems to wait for.
StopOthers(p) ==
    /\ p # Main /\ state[p] = "stopping" /\ StopSteps[step[p]] \notin {"listen", "pid"}
    /\ Advance(p)
    /\ UNCHANGED <<focus, held, pidVars, tmVars, csVars, agVars, smVars>>

\* webserver.shutdown() no longer listens, and ends when the last HTTP connection does:
\* httpServer.close() calls back only then, so that there is none left to be dropped.
StopListening(p) ==
    /\ Stopping(p, "listen")
    /\ port' = IF port = p THEN 0 ELSE port
    /\ IF port = p THEN UNCHANGED <<state, step>> ELSE (p = Main => ~client) /\ Advance(p)
    /\ UNCHANGED <<focus, held, pidFile, pidWatch, client, raced, troubles, tmVars, csVars, agVars, smVars>>

\* The pid file is no longer watched, then removed, whoever it names.
RemovePid(p) ==
    /\ Stopping(p, "pid") /\ Gone(p)
    /\ pidFile' = 0
    /\ pidWatch' = [q \in Procs |-> CASE q = p -> "none"
                                       [] q # p /\ pidWatch[q] = "open" /\ pidFile # 0 -> "told"
                                       [] OTHER -> pidWatch[q]]
    /\ UNCHANGED <<focus, held, raced, troubles, tmVars, csVars, agVars, smVars>>
-------------------------------------------------------------------------------
(* What else happens to the server *)

DeletePidFile ==
    /\ focus = "server" /\ pidFile # 0 /\ troubles < MaxTroubles
    /\ troubles' = troubles + 1 /\ pidFile' = 0 /\ Unlinked
    /\ raced' = (raced \/ pidWatch[pidFile] = "none")
    /\ UNCHANGED <<focus, held, state, step, port, client, tmVars, csVars, agVars, smVars>>

\* Mutant of PidDeleted: the event is ignored.
PidDeletedIgnored(p) ==
    /\ Alive(p) /\ pidWatch[p] = "told"
    /\ pidWatch' = [pidWatch EXCEPT ![p] = "open"]
    /\ UNCHANGED <<focus, held, state, step, pidFile, port, client, raced, troubles, tmVars, csVars, agVars, smVars>>

\* The 'change' listener of pidWatcher writes the file again.
PidDeleted(p) ==
    /\ Alive(p) /\ pidWatch[p] = "told"
    /\ pidWatch' = [pidWatch EXCEPT ![p] = "open"]
    /\ pidFile' = p
    /\ UNCHANGED <<focus, held, state, step, port, client, raced, troubles, tmVars, csVars, agVars, smVars>>

Connect ==
    /\ focus = "server" /\ port = Main /\ ~client /\ client' = TRUE
    /\ UNCHANGED <<focus, held, state, step, pidFile, pidWatch, port, raced, troubles,
                   tmVars, csVars, agVars, smVars>>

HangUp ==
    /\ client /\ client' = FALSE
    /\ UNCHANGED <<focus, held, state, step, pidFile, pidWatch, port, raced, troubles,
                   tmVars, csVars, agVars, smVars>>

\* SIGKILL, SIGTERM before main.js listens for it, or a step of start() that fails,
\* pluginManager.init() for one: main.js exits.  What is on disk stays.
Crash(p) ==
    /\ focus \in {"server", "telemetry"} /\ Alive(p)
    /\ Gone(p)
    /\ pidWatch' = [pidWatch EXCEPT ![p] = "none"]
    /\ IF p = Main THEN TM!Killed ELSE UNCHANGED tmVars
    /\ UNCHANGED <<focus, held, pidFile, raced, troubles, csVars, agVars, smVars>>

\* The next start of the same daemon, which finds the telemetry events of the last.
Restart ==
    /\ focus = "telemetry" /\ state[Main] = "gone" /\ ~running /\ flushing = "none"
    /\ troubles < MaxTroubles /\ troubles' = troubles + 1
    /\ state' = [state EXCEPT ![Main] = "none"] /\ step' = [step EXCEPT ![Main] = 1]
    /\ held' = FALSE /\ AG!Reset
    /\ UNCHANGED <<focus, pidFile, pidWatch, port, client, raced, tmVars, csVars, smVars>>
-------------------------------------------------------------------------------
(* The systems of Main while it lives.  An event that is added while it shuts down *)
(* comes too late for the flush.  The agent and the subprocesses begin to move when *)
(* start() has ended: no step of start() depends on them.                          *)
Created(s) ==
    \/ state[Main] \in {"started", "stopping"}
    \/ state[Main] = "starting" /\ \E i \in 1..step[Main]-1 : StartSteps[i] = s

TelemetryCalls == focus = "telemetry" /\ Created("telemetry") /\ TM!Calls
TelemetryWorks == Alive(Main) /\ (focus # "telemetry" => ~sendTimer) /\ TM!Work
ConfigMoves    == focus = "config" /\ Created("managers") /\ (CS!Calls \/ CS!Edits \/ CS!Work)
AgentMoves     == focus = "agent" /\ Created("announce") /\ (AG!Fire \/ AG!Tick
                    \/ \E c \in Collectors : AG!SetCollectors(c))
AgentPolls     == Alive(Main) /\ (AG!Poll \/ AG!PollFails)
Spawning       == focus = "subprocesses" /\ Created("announce") /\ SM!Requests
SpawnWorks     == Alive(Main) /\ SM!Work
Exiting        == SM!Exits

OfTelemetry == TelemetryCalls \/ TelemetryWorks
OfAgent     == AgentMoves \/ AgentPolls
OfSpawns    == Spawning \/ SpawnWorks \/ Exiting
ServerOnly == UNCHANGED <<focus, held, state, step, pidVars>>

TelemetryStep == ServerOnly /\ OfTelemetry /\ UNCHANGED <<csVars, agVars, smVars>>
ConfigStep    == ServerOnly /\ ConfigMoves /\ UNCHANGED <<tmVars, agVars, smVars>>
AgentStep     == ServerOnly /\ OfAgent /\ UNCHANGED <<tmVars, csVars, smVars>>
SpawnStep     == ServerOnly /\ OfSpawns /\ UNCHANGED <<tmVars, csVars, agVars>>

StartStep(p) ==
    \/ IsRunning(p) \/ WritePid(p) \/ WatchPid(p) \/ InitTelemetry(p) \/ InitManagers(p)
    \/ StartMonitor(p) \/ Listen(p) \/ Started(p)
StopStep(p) ==
    \/ p = Main /\ (StopTelemetry \/ StopConfig \/ StopMonitor \/ StopWatchManager
                   \/ StopSubprocesses \/ StopPlugins)
    \/ StopOthers(p) \/ StopListening(p) \/ RemovePid(p)

Next ==
    \/ \E p \in Procs : Start(p) \/ StartStep(p) \/ Shutdown(p) \/ StopStep(p)
                          \/ PidDeleted(p) \/ Crash(p)
    \/ DeletePidFile \/ Restart \/ Connect \/ HangUp
    \/ TelemetryStep \/ ConfigStep \/ AgentStep \/ SpawnStep

Spec == Init /\ [][Next]_vars

\* What shutdown() waits for happens: its own steps and those of the systems, psTree()
\* calls back, timers fire, a process that is killed exits, and the client of an HTTP
\* connection hangs up (a stream that never ends would hold shutdown() up for ever).
\* Nothing is assumed of the plugins.
ShutsDown(r) ==
    \/ SM!Close(r) \/ SM!ForceKill(r) \/ (SM!Doomed(r) /\ SM!Exit(r))
    \/ \E s \in SM!Signals : SM!KillTree([of |-> r, signal |-> s, by |-> "shutdown"])
Fairness ==
    /\ WF_vars(StopStep(Main)) /\ WF_vars(HangUp)
    /\ WF_vars(ServerOnly /\ AgentPolls /\ UNCHANGED <<tmVars, csVars, smVars>>)
    /\ WF_vars(ServerOnly /\ TelemetryWorks /\ UNCHANGED <<csVars, agVars, smVars>>)
    /\ WF_vars(/\ shutdown = "waiting" /\ ServerOnly /\ Alive(Main)
               /\ SM!ShutdownSettles \/ \E r \in Spawns : ShutsDown(r)
               /\ UNCHANGED <<tmVars, csVars, agVars>>)

FairSpec == Spec /\ Fairness
-------------------------------------------------------------------------------
TypeOK == DMTypeOK /\ TM!TMTypeOK /\ CS!CSTypeOK /\ AG!AGTypeOK /\ SM!SMTypeOK

\* While the daemon runs, the pid file names it, unless its deletion is still to be
\* noticed.  This fails after a race only: a second process that found no pid file
\* writes its own pid before it finds the port taken, and a file that is deleted
\* before it is watched stays away.  (And every variable has its type.)
PidFileTrue ==
    TypeOK /\ (state[Main] = "started" /\ pidWatch[Main] # "told" /\ ~raced => pidFile = Main)

\* SpawnsAreListed of the subprocess manager
SpawnsAreListed == SM!SpawnsAreListed

\* The layers of the config service, and the watchers of their files
LayersAreWatched == CS!WatchersOwned /\ CS!LayersFollowFiles

\* The samples of the agent, their times, and its polling until it is stopped
AgentIsTrue == AG!CollectionsTrue /\ AG!PollsUntilStopped /\ AG!NoGaps

\* EventsAreSent of telemetry: its loop, and its flush
EventsAreSent == TM!EventsAreSent

\* NothingLost of telemetry: no event is deleted that was not sent, but for a file that
\* could not be read.
NothingLost == TM!NothingLost

\* A shutdown() comes to its end, whatever telemetry, the config service, the agent,
\* the subprocesses and the web server were doing.  Two things hold it up for ever: a
\* subprocess that must not be signalled, and a plugin whose stop() does not end.
ShutdownEnds ==
    state[Main] = "stopping" ~> state[Main] = "gone" \/ shutdown = "failed" \/ held
=============================================================================
