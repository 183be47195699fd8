---------------------------- MODULE PluginLifecycle ----------------------------
(***************************************************************************)
(* The life of one plugin: PluginBase.start(), stop() and waitUntil()      *)
(* (packages/appcd-plugin/src/plugin-base.js) over the onStart() and       *)
(* onStop() of an external plugin (external-plugin.js: a plugin host child *)
(* process behind an IPC tunnel, and a debounced reload when its source    *)
(* changes) or of an internal one (internal-plugin.js).                    *)
(*                                                                         *)
(* The calls of start() and stop() are asynchronous functions that run     *)
(* concurrently; pc says which await each of them is at.  What follows an  *)
(* awaited promise runs as a microtask, before the next event, so it       *)
(* belongs to the step that settles the promise: one 'state' event         *)
(* continues all the calls that waitUntil() it.  A host and its parent     *)
(* exchange messages over two FIFO channels; the 'exit' event comes after  *)
(* every message of the host.                                              *)
(***************************************************************************)
EXTENDS Naturals, Sequences, FiniteSets

CONSTANTS
    Starters,    \* whoever calls start(): requests, the plugin manager
    Stoppers,    \* whoever calls stop(): /stop, the plugin path, inactivity
    Reloaders,   \* runs of the debounced onFilesystemChange()
    Hosts,       \* bound: plugin host processes at one time
    None,        \* no tunnel, no owner
    Types,       \* the types a plugin may be of
    AutoReload,  \* the setting plugins.autoReload
    Failures     \* what may go wrong: see FailureKinds

Closers == Stoppers \cup Reloaders
Calls == Starters \cup Closers

\* spawning fails, activate() or deactivate() throws, the host dies with an
\* error code, the host is killed by a signal.
FailureKinds == {"spawn", "activate", "deactivate", "crash", "kill"}

ASSUME PLAssumption ==
    /\ None \notin Hosts /\ None \notin Calls
    /\ Starters \cap Closers = {} /\ Stoppers \cap Reloaders = {}
    /\ Types \subseteq {"external", "internal"}
    /\ AutoReload \in BOOLEAN
    /\ Failures \subseteq FailureKinds

VARIABLES
    type,      \* plugin.type
    state,     \* info.state
    error,     \* info.error is set
    watchers,  \* the FS watchers in this.watchers
    leaked,    \* watchers that were replaced while open
    timer,     \* the debounce timer of onFilesystemChange is pending
    tunnel,    \* the host at the other end of this.tunnel
    pc,        \* call -> where it is
    host,      \* host -> the state of the process
    owner,     \* host -> the start() that awaits its activation
    inbox,     \* host -> the deactivate requests sent to it
    outbox     \* host -> what it sent and the parent has not handled

parentVars == <<type, state, error, watchers, leaked, timer, tunnel, pc>>
hostVars == <<host, owner, inbox, outbox>>
vars == <<parentVars, hostVars>>

-------------------------------------------------------------------------------
Idle == {"returned", "rejected"}
Launching == {"configuring", "spawning", "activating"}
Waiting == {"waitStarted", "waitStopped", "waitStop"}

Alive(h) == host[h] \in {"activating", "active"}

\* Where start() is once it has set STARTING and called onStart().
OnStart == IF type = "external" THEN "configuring" ELSE "activating"

Init ==
    /\ type \in Types
    /\ state = "STOPPED" /\ error = FALSE
    /\ watchers = FALSE /\ leaked = FALSE /\ timer = FALSE
    /\ tunnel = None
    /\ pc = [c \in Calls |-> "returned"]
    /\ host = [h \in Hosts |-> "none"]
    /\ owner = [h \in Hosts |-> None]
    /\ inbox = [h \in Hosts |-> <<>>]
    /\ outbox = [h \in Hosts |-> <<>>]

\* The listeners waitUntil() registered, called with (st, err).
Emit(st, err) ==
    [c \in Calls |->
        CASE pc[c] \in Waiting /\ err                         -> "rejected"
          [] pc[c] = "waitStarted" /\ st = "STARTED" /\ ~err -> "returned"
          [] pc[c] = "waitStop" /\ st = "STOPPED" /\ ~err    -> "returned"
          [] pc[c] = "waitStopped" /\ st = "STOPPED" /\ ~err -> OnStart
          [] OTHER                                            -> pc[c]]

\* setState(): the calls in own are at own[c] afterwards whatever is emitted; a
\* start() that waited for STOPPED goes straight on to STARTING.
SetState(st, err, own) ==
    LET after == IF st = state THEN pc ELSE Emit(st, err)
    IN  /\ pc' = [c \in Calls |-> IF c \in DOMAIN own THEN own[c] ELSE after[c]]
        /\ state' = IF \E c \in Calls : pc[c] = "waitStopped" /\ after[c] = OnStart
                    THEN "STARTING" ELSE st

\* A reload whose stop() has returned clears info.error.  The plugin is not
\* started again: the test reads info.autoStart, and info has no such field.
SetError(e) ==
    error' = (e /\ ~\E r \in Reloaders : pc[r] \notin Idle /\ pc'[r] = "returned")

-------------------------------------------------------------------------------
\* Mutant of Start: it waits neither for STARTED nor for STOPPED.
StartSkipsWait(c) ==
    /\ pc[c] \in Idle /\ state # "STARTED"
    /\ pc' = [pc EXCEPT ![c] = OnStart]
    /\ state' = "STARTING"
    /\ UNCHANGED <<error, watchers, leaked, type, timer, tunnel, hostVars>>

\* start()
Start(c) ==
    /\ pc[c] \in Idle
    /\ \/ /\ state = "STARTED"
          /\ pc' = [pc EXCEPT ![c] = "returned"]
          /\ UNCHANGED state
       \/ /\ state = "STARTING"
          /\ pc' = [pc EXCEPT ![c] = "waitStarted"]
          /\ UNCHANGED state
       \/ /\ state = "STOPPING"
          /\ pc' = [pc EXCEPT ![c] = "waitStopped"]
          /\ UNCHANGED state
       \/ /\ state = "STOPPED"
          /\ pc' = [pc EXCEPT ![c] = OnStart]
          /\ state' = "STARTING"
    /\ UNCHANGED <<error, watchers, leaked, type, timer, tunnel, hostVars>>

\* startParent() has read plugins.autoReload: it watches the source directories,
\* replacing the watchers it finds, and requests the plugin host.
WatchSources(c) ==
    /\ pc[c] = "configuring"
    /\ pc' = [pc EXCEPT ![c] = "spawning"]
    /\ watchers' = (watchers \/ AutoReload)
    /\ leaked' = (leaked \/ (watchers /\ AutoReload))
    /\ UNCHANGED <<type, state, error, timer, tunnel, hostVars>>

Spawn(c) ==
    /\ pc[c] = "spawning"
    /\ \E h \in Hosts :
         /\ host[h] = "none"
         /\ host' = [host EXCEPT ![h] = "activating"]
         /\ owner' = [owner EXCEPT ![h] = c]
         /\ tunnel' = h
    /\ pc' = [pc EXCEPT ![c] = "activating"]
    /\ UNCHANGED <<state, error, watchers, leaked, type, timer, inbox, outbox>>

SpawnFails(c) ==
    /\ "spawn" \in Failures
    /\ pc[c] = "spawning"
    /\ SetState("STOPPED", TRUE, [x \in {c} |-> "rejected"])
    /\ SetError(error)
    /\ UNCHANGED <<watchers, leaked, type, timer, tunnel, hostVars>>

\* stop(), up to the await of onStop(): without a tunnel onStop() throws, which
\* stop() records as the plugin's error; a message to a dead host is lost.
Stop(c) ==
    /\ pc[c] \in Idle
    /\ c \in Reloaders => timer
    /\ timer' = (timer /\ c \notin Reloaders)
    /\ \/ /\ state = "STOPPED"
          /\ pc' = [pc EXCEPT ![c] = "returned"]
          /\ watchers' = FALSE
          /\ error' = (error /\ c \notin Reloaders)
          /\ UNCHANGED <<state, inbox>>
       \/ /\ state = "STOPPING"
          /\ pc' = [pc EXCEPT ![c] = "waitStop"]
          /\ UNCHANGED <<state, watchers, error, inbox>>
       \/ /\ state \in {"STARTING", "STARTED"}
          /\ state' = IF state = "STARTED" THEN "STOPPING" ELSE state
          /\ IF type = "external" /\ tunnel = None
             THEN /\ pc' = [pc EXCEPT ![c] = "returned"]
                  /\ watchers' = FALSE
                  /\ error' = (c \notin Reloaders)
                  /\ UNCHANGED inbox
             ELSE /\ pc' = [pc EXCEPT ![c] = "stopping"]
                  /\ inbox' = IF type = "external" /\ Alive(tunnel)
                              THEN [inbox EXCEPT ![tunnel] = Append(@, c)] ELSE inbox
                  /\ UNCHANGED <<watchers, error>>
    /\ UNCHANGED <<leaked, type, tunnel, host, owner, outbox>>

\* The rest of stop(): onStop() has settled.
Stopped(c, failed) ==
    /\ pc[c] = "stopping"
    /\ pc' = [pc EXCEPT ![c] = "returned"]
    /\ watchers' = FALSE
    /\ SetError(error \/ failed)

\* A source file changes: the debounce timer is set, and outlives the watchers.
FileChange ==
    /\ watchers \/ leaked
    /\ ~timer
    /\ timer' = TRUE
    /\ UNCHANGED <<state, error, watchers, leaked, type, tunnel, pc, hostVars>>

-------------------------------------------------------------------------------
\* The plugin host.  A signal leaves no exit code, which the parent reads as 0.
Send(h, m) == outbox' = [outbox EXCEPT ![h] = @ \o m]

Exit(code) == [type |-> "exit", code |-> code]

HostActivates(h) ==
    /\ host[h] = "activating"
    /\ host' = [host EXCEPT ![h] = "active"]
    /\ Send(h, <<[type |-> "activated"]>>)
    /\ UNCHANGED <<parentVars, owner, inbox>>

HostFails(h) ==
    /\ "activate" \in Failures
    /\ host[h] = "activating"
    /\ host' = [host EXCEPT ![h] = "exited"]
    /\ Send(h, <<[type |-> "activation_error"], Exit(6)>>)
    /\ UNCHANGED <<parentVars, owner, inbox>>

\* Mutant of HostDeactivates: the host answers and stays.
HostDeactivatesStays(h) ==
    /\ Alive(h) /\ inbox[h] # <<>>
    /\ Send(h, <<[type |-> "deactivated", call |-> Head(inbox[h]), failed |-> FALSE]>>)
    /\ inbox' = [inbox EXCEPT ![h] = Tail(@)]
    /\ UNCHANGED <<parentVars, owner, host>>

HostDeactivates(h) ==
    /\ Alive(h) /\ inbox[h] # <<>>
    /\ \E failed \in BOOLEAN :
         /\ failed => "deactivate" \in Failures
         /\ Send(h, <<[type |-> "deactivated", call |-> Head(inbox[h]), failed |-> failed],
                      Exit(0)>>)
    /\ inbox' = [inbox EXCEPT ![h] = Tail(@)]
    /\ host' = [host EXCEPT ![h] = "exited"]
    /\ UNCHANGED <<parentVars, owner>>

HostDies(h) ==
    /\ Alive(h)
    /\ \/ "crash" \in Failures /\ Send(h, <<Exit(1)>>)
       \/ "kill" \in Failures /\ Send(h, <<Exit(0)>>)
    /\ host' = [host EXCEPT ![h] = "exited"]
    /\ UNCHANGED <<parentVars, owner, inbox>>

-------------------------------------------------------------------------------
\* The parent handles the next message of a host.
Receive(h, kind) ==
    /\ outbox[h] # <<>> /\ Head(outbox[h]).type = kind
    /\ outbox' = [outbox EXCEPT ![h] = Tail(@)]

\* The start() that spawned the host continues: a plugin that is no longer
\* STARTING is left alone.
Activated(h) ==
    /\ Receive(h, "activated")
    /\ SetState(IF state = "STARTING" THEN "STARTED" ELSE state, FALSE,
                [c \in {owner[h]} |-> "returned"])
    /\ owner' = [owner EXCEPT ![h] = None]
    /\ UNCHANGED <<error, watchers, leaked, type, timer, tunnel, host, inbox>>

ActivationError(h) ==
    /\ Receive(h, "activation_error")
    /\ error' = TRUE
    /\ UNCHANGED <<state, watchers, leaked, type, timer, tunnel, pc, host, owner, inbox>>

Deactivated(h) ==
    /\ Receive(h, "deactivated")
    /\ Stopped(Head(outbox[h]).call, Head(outbox[h]).failed)
    /\ UNCHANGED <<state, leaked, type, timer, tunnel, host, owner, inbox>>

\* Mutants of ExitError and ExitSettles: the exit code is ignored; the start() is
\* left waiting.
ExitErrorNever(code) == FALSE
ExitSettlesNobody(h) == {}

\* A host that exits while the plugin is STARTING settles its start(), which
\* resolves when the exit code is 0.  Only then is the error recorded.
ExitError(code) == state = "STARTING" /\ code # 0
ExitSettles(h) == IF state = "STARTING" THEN {owner[h]} \ {None} ELSE {}

HostExited(h) ==
    /\ Receive(h, "exit")
    /\ tunnel' = None
    /\ LET err == ExitError(Head(outbox[h]).code)
       IN  /\ SetState("STOPPED", err,
                       [c \in ExitSettles(h) |-> IF err THEN "rejected" ELSE "returned"])
           /\ SetError(error \/ err)
    /\ host' = [host EXCEPT ![h] = "none"]
    /\ owner' = [owner EXCEPT ![h] = None]
    /\ inbox' = [inbox EXCEPT ![h] = <<>>]
    /\ UNCHANGED <<watchers, leaked, type, timer>>

\* An internal plugin is activated and deactivated in this process; nothing
\* reports it STOPPED once it has been deactivated.
InternalActivated(c) ==
    /\ type = "internal" /\ pc[c] = "activating"
    /\ \/ /\ SetState(IF state = "STARTING" THEN "STARTED" ELSE state, FALSE,
                      [x \in {c} |-> "returned"])
          /\ UNCHANGED error
       \/ /\ "activate" \in Failures
          /\ SetState("STOPPED", FALSE, [x \in {c} |-> "rejected"])
          /\ error' = TRUE
    /\ UNCHANGED <<watchers, leaked, type, timer, tunnel, hostVars>>

InternalDeactivated(c) ==
    /\ type = "internal"
    /\ \E failed \in BOOLEAN :
         /\ failed => "deactivate" \in Failures
         /\ Stopped(c, failed)
    /\ UNCHANGED <<state, leaked, type, timer, tunnel, hostVars>>

-------------------------------------------------------------------------------
ParentReceives(h) == Activated(h) \/ ActivationError(h) \/ Deactivated(h) \/ HostExited(h)

Next ==
    \/ \E c \in Starters : Start(c) \/ WatchSources(c) \/ Spawn(c) \/ SpawnFails(c)
                           \/ InternalActivated(c)
    \/ \E c \in Closers : Stop(c) \/ InternalDeactivated(c)
    \/ FileChange
    \/ \E h \in Hosts : HostActivates(h) \/ HostFails(h) \/ HostDeactivates(h) \/ HostDies(h)
    \/ \E h \in Hosts : ParentReceives(h)

Spec == Init /\ [][Next]_vars

\* The event loop runs what is ready, requests to the daemon's own services are
\* answered, and a plugin's activate() and deactivate() come to an end.  Nobody
\* has to call start() or stop(), change a file, or kill a host.
Fairness ==
    /\ \A c \in Starters :
         /\ WF_vars(WatchSources(c))
         /\ WF_vars(Spawn(c) \/ SpawnFails(c))
         /\ WF_vars(InternalActivated(c))
    /\ \A c \in Closers : WF_vars(InternalDeactivated(c))
    /\ \A h \in Hosts :
         /\ WF_vars(HostActivates(h) \/ HostFails(h))
         /\ WF_vars(HostDeactivates(h))
         /\ WF_vars(ParentReceives(h))

FairSpec == Spec /\ Fairness

-------------------------------------------------------------------------------
Message == [type : {"activated", "activation_error"}]
             \cup [type : {"deactivated"}, call : Closers, failed : BOOLEAN]
             \cup [type : {"exit"}, code : {0, 1, 6}]

\* Every variable has its type; a call awaits what some other step settles, and
\* a message names a call that is there to take it.
TypeOK ==
    /\ type \in Types
    /\ state \in {"STOPPED", "STARTING", "STARTED", "STOPPING"}
    /\ error \in BOOLEAN /\ watchers \in BOOLEAN /\ leaked \in BOOLEAN /\ timer \in BOOLEAN
    /\ tunnel \in Hosts \cup {None}
    /\ pc \in [Calls -> Idle \cup Launching \cup Waiting \cup {"stopping"}]
    /\ \A c \in Calls : pc[c] \in Launching \cup {"waitStarted", "waitStopped"} => c \in Starters
    /\ host \in [Hosts -> {"none", "activating", "active", "exited"}]
    /\ owner \in [Hosts -> Starters \cup {None}]
    /\ \A h \in Hosts : owner[h] # None => pc[owner[h]] = "activating"
    /\ inbox \in [Hosts -> Seq(Closers)] /\ outbox \in [Hosts -> Seq(Message)]
    /\ \A h \in Hosts : \A i \in 1..Len(inbox[h]) : pc[inbox[h][i]] = "stopping"
    /\ \A h \in Hosts : \A i \in 1..Len(outbox[h]) :
          outbox[h][i].type = "deactivated" => pc[outbox[h][i].call] = "stopping"

\* No two calls of start() activate the plugin at the same time.
OneStart == Cardinality({c \in Starters : pc[c] \in Launching}) <= 1

\* At most one start() is past its checks, so a plugin has at most one host
\* process that runs or is about to be spawned.
OneHost ==
    Cardinality({h \in Hosts : Alive(h)})
      + Cardinality({c \in Calls : pc[c] \in {"configuring", "spawning"}}) <= 1

\* info.state, which decides what start() and stop() do, agrees with the host: a
\* STOPPED plugin has none, and one that is STARTED or STOPPING has a tunnel to
\* the one host there is.
StateMatchesHost ==
    /\ state = "STOPPED" => tunnel = None /\ \A h \in Hosts : host[h] = "none"
    /\ state \in {"STARTED", "STOPPING"} =>
         tunnel # None /\ \A h \in Hosts : host[h] # "none" <=> h = tunnel

(***************************************************************************)
(* The inductive form of these for an external plugin that one caller      *)
(* starts.  What the state says of start(): a plugin that stops or is      *)
(* started has no start() under way, and one that is STARTING has one,     *)
(* which owns the host behind the tunnel as soon as there is one.  What    *)
(* the channels hold: 'exit' is the last message of a host, "deactivated"  *)
(* comes from a host that has exited, and a stop() waits for one message.  *)
(***************************************************************************)
StartMatchesState ==
    \A c \in Starters :
        /\ state = "STOPPED" => pc[c] \in Idle
        /\ state = "STARTING" => pc[c] \in Launching
        /\ state = "STARTED" => pc[c] \in Idle
        /\ state = "STOPPING" => pc[c] \in Idle \cup {"waitStopped"}
        /\ pc[c] \in {"configuring", "spawning"} => tunnel = None
        /\ pc[c] = "activating" => tunnel # None /\ owner[tunnel] = c

HostMatchesTunnel ==
    /\ state = "STOPPED" => tunnel = None
    /\ state \in {"STARTED", "STOPPING"} => tunnel # None
    /\ \A h \in Hosts : host[h] # "none" <=> h = tunnel
    /\ \A h \in Hosts : host[h] = "none" =>
          owner[h] = None /\ inbox[h] = <<>> /\ outbox[h] = <<>>

Channel(in, out, process) ==
    /\ \A i \in 1..Len(out) :
         /\ out[i].type = "exit" => i = Len(out) /\ process = "exited"
         /\ out[i].type = "deactivated" =>
              /\ process = "exited"
              /\ \A j \in 1..Len(in) : in[j] # out[i].call
              /\ \A j \in 1..Len(out) : out[j].type = "deactivated" => i = j
    /\ \A i, j \in 1..Len(in) : in[i] = in[j] => i = j

ChannelsAgree == \A h \in Hosts : Channel(inbox[h], outbox[h], host[h])

\* Of an external plugin that one caller starts: the call of start() under way, the host,
\* the tunnel, info.state and the messages on the channels agree in every state, whatever
\* is stopped, reloaded or fails meanwhile (plugin-base.js:349-467, external-plugin.js:389-697).
SerialInv == type = "external" /\ StartMatchesState /\ HostMatchesTunnel /\ ChannelsAgree

\* The state of an external plugin agrees with the calls under way, with the host and
\* with what is on its channels: OneHost and StateMatchesHost follow.
StateIsSound == type = "external" => SerialInv

Returns(c) == pc[c] \notin Idle /\ pc'[c] = "returned"

\* When stop() returns, no host of the plugin runs any more.
StopLeavesNoHost ==
    [][\A c \in Closers : Returns(c) => \A h \in Hosts : ~Alive(h)']_vars

\* A request is dispatched to an external plugin when start() has returned:
\* "this should probably never happen" says dispatch() of a plugin without tunnel
\* (external-plugin.js:67).
DispatchHasTunnel ==
    [][\A c \in Starters : type = "external" /\ Returns(c) => tunnel' # None]_vars

\* "If the plugin stops without error, it is automatically restarted" (Plugin
\* System.md:230, of appcd.autoStart): a reload that stopped the plugin without
\* an error goes on with start().
ReloadRestarts ==
    [][\A c \in Reloaders : Returns(c) /\ ~error => state' = "STARTING"]_vars

\* No FS watcher is replaced before it was closed: it would be out of reach of
\* deactivate() and stop the plugin at every change of its source.
NoLeakedWatcher == ~leaked

\* An external plugin that is STOPPING does not stay so.  (An internal one does:
\* nothing sets it STOPPED.)
StoppingEnds == type = "external" /\ state = "STOPPING" ~> state # "STOPPING"

\* "if the plugin is already stopping, then wait for it to be stopped before
\* resolving" (plugin-base.js:419): that wait comes to an end.
StopWaitEnds ==
    \A c \in Stoppers : type = "external" /\ pc[c] = "waitStop" ~> pc[c] \in Idle

\* Every start() of an external plugin settles, however often the plugin is stopped
\* and its host dies meanwhile.  (One that waits for the activation of an internal
\* plugin which then fails does not: setState() passes no error on.)
StartsSettle ==
    \A c \in Starters : type = "external" /\ pc[c] \notin Idle ~> pc[c] \in Idle

\* Nobody waits for ever for what a plugin does next: not the plugin itself that
\* is STOPPING, not a stop() that found it so, and not a start().
EverybodySettles == StoppingEnds /\ StopWaitEnds /\ StartsSettle

=============================================================================
