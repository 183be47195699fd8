------------------------------ MODULE PluginRegistry ------------------------------
(***************************************************************************)
(* How the plugin manager learns which plugins there are: PluginManager    *)
(* (packages/appcd-plugin/src/plugin-manager.js), the PluginPath of a      *)
(* registered directory (plugin-path.js) and its scheme (schemes.js).      *)
(*                                                                         *)
(* A scheme is one object here, with the plugin schemes below it: "kids"   *)
(* are the directories for which it has one, "open" those that have a file *)
(* system watcher, "held" the plugin each of them found.  An asynchronous  *)
(* function under way is a task, the sequence of what is left of it; a     *)
(* task has a strand for every directory, for the plugins that one         *)
(* Promise.all() removes side by side, and the strand Main, which goes on  *)
(* when those have ended.                                                  *)
(***************************************************************************)
EXTENDS Integers, Sequences, FiniteSets, SequencesExt

CONSTANTS
    Dirs,       \* the directories that may hold a plugin
    Root,       \* the plugin path itself
    Main,       \* the main strand of a task
    None,
    Depth,      \* how far a directory is below the plugin path: 0, 1 or 2
    Plugins,    \* [name, version, config, supported, autoStart]: what a directory may hold;
                \* the config service refuses to load a config file that is "bad"
    Slow,       \* the stop of a plugin may take more than the 200 ms after which a
                \* redetection fires
    MaxTasks,   \* bound: asynchronous functions under way
    MaxChanges, \* bound: file system changes
    MaxCalls,   \* bound: calls of the plugin manager
    MaxRaces    \* bound: changes and calls while earlier ones are dealt with

ASSUME PRAssumption ==
    /\ Root \in Dirs /\ Main \notin Dirs
    /\ Depth \in [Dirs -> 0..2] /\ \A d \in Dirs : Depth[d] = 0 <=> d = Root
    /\ None \notin Plugins /\ None \notin Dirs /\ Slow \in BOOLEAN
    /\ IsFiniteSet(Dirs) /\ MaxTasks \in Nat /\ MaxRaces \in Nat

VARIABLES
    disk,       \* directory -> the plugin in it, or None
    pluginPath, \* pluginPaths[path]: its PluginPath, or 0
    insts,      \* PluginPath -> its scheme, and the scheme of its onRedetect
    schemes,
    events,     \* the file system events that are not delivered yet
    tasks,
    mgr,        \* registry, registered, namespaces, and the dispatcher's routes
    running,    \* the plugins that have been started
    refused,    \* a config file could not be loaded: 'added' has failed half way
    races,      \* the changes and calls that came before the last one was dealt with
    changes, calls

vars == <<disk, pluginPath, insts, schemes, events, tasks, mgr, running, refused, races, changes, calls>>
-------------------------------------------------------------------------------
Names == {p.name : p \in Plugins}
Idle == [x \in Dirs \cup {Main} |-> <<>>]
TaskIds == 1..MaxTasks

Init ==
    /\ disk \in [Dirs -> Plugins \cup {None}]
    /\ \A d, e \in Dirs : disk[d] = disk[e] => d = e \/ disk[d] = None
    /\ pluginPath = 0 /\ insts = <<>> /\ schemes = <<>> /\ events = <<>>
    /\ tasks = [t \in TaskIds |-> Idle]
    /\ mgr = [registry   |-> [d \in Dirs |-> None],
              registered |-> [d \in Dirs |-> <<>>],
              versions   |-> [n \in Names |-> {}],
              routes     |-> [n \in Names |-> 0]]
    /\ running = {} /\ refused = FALSE /\ races = 0 /\ changes = 0 /\ calls = 0

\* Nothing is under way: no task, no event, no debounced redetection.
Quiet ==
    /\ \A t \in TaskIds : tasks[t] = Idle
    /\ events = <<>>
    /\ \A s \in 1..Len(schemes) : ~schemes[s].timer

\* A promise that has settled goes on before any timer, event or request.  Only the stop
\* of a running plugin takes time: the config service answers without waiting for
\* anything.
Waits(t, x) ==
    tasks[t][x] # <<>> =>
      LET h == Head(tasks[t][x])
      IN \/ h.do = "stop" /\ [dir |-> h.d, plugin |-> h.p] \in running
         \/ h.do = "destroyed" /\ \E d \in Dirs : tasks[t][d] # <<>>
Settled == \A t \in TaskIds, x \in Dirs \cup {Main} : Waits(t, x)

\* A change or a call comes in.
Race ==
    /\ Settled
    /\ Quiet \/ races < MaxRaces
    /\ races' = IF Quiet THEN races ELSE races + 1

\* detectScheme(): the class of the scheme, as the depth of its plugins; 3 stands
\* for InvalidScheme.
DetectScheme ==
    CHOOSE k \in 0..3 :
      /\ k = 3 \/ \E d \in Dirs : Depth[d] = k /\ disk[d] # None
      /\ \A j \in 0..k-1 : \A d \in Dirs : Depth[d] = j => disk[d] = None

\* The detect() of each scheme: the directories it has plugin schemes for.
DetectPlugin == {Root}
DetectPluginsDir == {d \in Dirs : Depth[d] = 1 /\ disk[d] # None}
DetectNested == {d \in Dirs : Depth[d] = 2 /\ disk[d] # None}
Detect(kind) == CASE kind = 0 -> DetectPlugin
                  [] kind = 1 -> DetectPluginsDir
                  [] kind = 2 -> DetectNested
                  [] kind = 3 -> {}

-------------------------------------------------------------------------------
(* The 'added' and 'removed' handlers of the manager, between their awaits. *)

\* ns.versions[plugin.version] = plugin; the namespace is registered with the
\* dispatcher when this is its first version.  A plugin that is not supported gets none.
Name(m, d, p) ==
    LET others == {v \in m.versions[p.name] : v.plugin.version # p.version}
    IN IF ~p.supported THEN m
       ELSE [m EXCEPT !.versions[p.name] = others \cup {[dir |-> d, plugin |-> p]},
                      !.routes[p.name] = IF m.versions[p.name] = {} THEN @ + 1 ELSE @]

Register(m, d, p) == [m EXCEPT !.registry[d] = p, !.registered[d] = Append(@, p)]

\* Mutant of Unlist: the version is not looked for, the route goes whenever none is left.
UnlistUnchecked(m, d, p) ==
    LET left == {v \in m.versions[p.name] : v.plugin.version # p.version}
    IN [m EXCEPT !.registered[d] = IF @ = <<>> THEN @ ELSE Tail(@),
                 !.versions[p.name] = left,
                 !.routes[p.name] = IF left = {} THEN @ - 1 ELSE @]

\* Mutant of Unlist: the route of a namespace outlives its last version.
UnlistKeepsRoute(m, d, p) ==
    [m EXCEPT !.registered[d] = IF @ = <<>> THEN @ ELSE Tail(@),
              !.versions[p.name] = {v \in @ : v.plugin.version # p.version}]

\* The rest of 'removed', once the config service has unloaded the config: the
\* first plugin of that path leaves the list, the version its namespace, and the
\* last version takes the route with it.
Unlist(m, d, p) ==
    LET left == {v \in m.versions[p.name] : v.plugin.version # p.version}
    IN [m EXCEPT !.registered[d] = IF @ = <<>> THEN @ ELSE Tail(@),
                 !.versions[p.name] = left,
                 !.routes[p.name] = IF left = {} /\ m.versions[p.name] # {} THEN @ - 1 ELSE @]

-------------------------------------------------------------------------------
(* What is left of an asynchronous function is a sequence of these steps.   *)
Do(step, s, d, p) == [do |-> step, s |-> s, d |-> d, p |-> p]

\* await emit('plugin-deleted', plugin); this.plugin = null
Deletion(s, d, p) ==
    <<Do("stop", s, d, p), Do("removed", s, d, p), Do("hold", s, d, None)>>

FreeTasks == {t \in TaskIds : tasks[t] = Idle}
FreeTask == CHOOSE t \in FreeTasks : \A u \in FreeTasks : t <= u
Spawn(x, work) == tasks' = [tasks EXCEPT ![FreeTask][x] = work]

\* PluginPath.destroy() and Scheme.destroy(): the pending redetection is cancelled,
\* the watchers are closed, and the plugins are removed side by side.
Destroy(i, t, then, known) ==
    LET s == insts[i].scheme
        gone == IF s = 0 THEN {} ELSE {d \in known[s].kids : known[s].held[d] # None}
        Cancelled(x) == [known[x] EXCEPT !.timer = @ /\ x # insts[i].redetect]
    IN /\ tasks' = [tasks EXCEPT ![t] = [x \in Dirs \cup {Main} |->
            IF x = Main THEN (IF s = 0 THEN <<>> ELSE <<[do |-> "destroyed", i |-> i]>>) \o then
            ELSE IF x \in gone THEN Deletion(s, x, known[s].held[x]) ELSE <<>>]]
       /\ insts' = [insts EXCEPT ![i].redetect = 0]
       /\ schemes' = [x \in 1..Len(known) |->
            IF x = s THEN [Cancelled(x) EXCEPT !.top = FALSE, !.open = @ \ known[x].kids]
            ELSE Cancelled(x)]

-------------------------------------------------------------------------------
(* The calls of the manager, and the file system.                           *)

\* registerPluginPath(): detect() of a new PluginPath.
RegisterPluginPath ==
    /\ calls < MaxCalls /\ FreeTasks # {} /\ pluginPath = 0
    /\ calls' = calls + 1 /\ Race
    /\ insts' = Append(insts, [scheme |-> 0, redetect |-> 0])
    /\ pluginPath' = Len(insts')
    /\ Spawn(Main, <<[do |-> "create", i |-> pluginPath', kind |-> DetectScheme]>>)
    /\ UNCHANGED <<disk, schemes, events, mgr, running, refused, changes>>

\* Mutant of UnregisterPluginPath: the path is forgotten, its scheme lives on.
UnregisterForgetsOnly ==
    /\ calls < MaxCalls /\ FreeTasks # {} /\ pluginPath # 0
    /\ calls' = calls + 1 /\ Race
    /\ pluginPath' = 0
    /\ UNCHANGED <<disk, insts, schemes, tasks, events, mgr, running, refused, changes>>

\* unregisterPluginPath(); shutdown() is this for every path.
UnregisterPluginPath ==
    /\ calls < MaxCalls /\ FreeTasks # {} /\ pluginPath # 0
    /\ calls' = calls + 1 /\ Race
    /\ Destroy(pluginPath, FreeTask, <<[do |-> "forget"]>>, schemes)
    /\ UNCHANGED <<disk, pluginPath, events, mgr, running, refused, changes>>

\* A request reaches the handler of a namespace, which starts a version of it.
Dispatch(n) ==
    /\ calls < MaxCalls /\ mgr.routes[n] > 0
    /\ calls' = calls + 1 /\ Race
    /\ \E v \in mgr.versions[n] : running' = running \cup {v}
    /\ UNCHANGED <<disk, pluginPath, insts, schemes, events, tasks, mgr, refused, changes>>

\* init() starts the newest version of every plugin that wants to be.
AutoStart ==
    /\ calls < MaxCalls /\ pluginPath # 0 /\ \A t \in TaskIds : tasks[t][Main] = <<>>
    /\ calls' = calls + 1 /\ Race
    /\ running' = running \cup
         {v \in UNION {mgr.versions[n] : n \in Names} :
            /\ v.plugin.autoStart
            /\ \A w \in mgr.versions[v.plugin.name] :
                 w.plugin.autoStart => w.plugin.version <= v.plugin.version}
    /\ UNCHANGED <<disk, pluginPath, insts, schemes, events, tasks, mgr, refused, changes>>

\* '/stop': the plugins of that name that are registered and run are stopped.
StopPlugins(n) ==
    /\ calls < MaxCalls
    /\ calls' = calls + 1 /\ Race
    /\ running' = {v \in running : ~(v.plugin.name = n /\ mgr.registry[v.dir] = v.plugin)}
    /\ UNCHANGED <<disk, pluginPath, insts, schemes, events, tasks, mgr, refused, changes>>

\* A directory's plugin is added, replaced or deleted; every open watcher that
\* covers the directory has an event of it.
Change(d, p, act) ==
    /\ changes < MaxChanges /\ disk[d] # p
    /\ \A e \in Dirs : p # None => disk[e] # p
    /\ act = (CASE disk[d] = None -> "add" [] p = None -> "delete" [] OTHER -> "change")
    /\ changes' = changes + 1 /\ Race
    /\ disk' = [disk EXCEPT ![d] = p]
    /\ events' = events \o FlattenSeq([s \in 1..Len(schemes) |->
         LET sc == schemes[s] IN
         (IF sc.top THEN <<[s |-> s, at |-> "top", d |-> d, act |-> act]>> ELSE <<>>) \o
         (IF d \in sc.open /\ ~(d = Root /\ act = "delete")
          THEN <<[s |-> s, at |-> "kid", d |-> d, act |-> act]>> ELSE <<>>) \o
         (IF Root \in sc.open /\ (d = Root => act = "delete") /\ Depth[d] < 2
          THEN <<[s |-> s, at |-> "kid", d |-> Root, act |-> "other"]>> ELSE <<>>)])
    /\ UNCHANGED <<pluginPath, insts, schemes, tasks, mgr, running, refused, calls>>

-------------------------------------------------------------------------------
(* The listeners of the file system watchers, up to their first await.      *)
Watched(e) == IF e.at = "top" THEN schemes[e.s].top ELSE e.d \in schemes[e.s].open

\* The watcher of a directory of plugins: a new directory gets a plugin scheme,
\* anything else, the package.json in it too, is a reason to detect the scheme anew.
TopEvent(e) ==
    LET sc == schemes[e.s]
        due == [sc EXCEPT !.timer = TRUE]
        p == disk[e.d]
    IN IF sc.kind # Depth[e.d] \/ p = None \/ e.act = "change"
       THEN schemes' = [schemes EXCEPT ![e.s] = due] /\ UNCHANGED tasks
       ELSE \/ /\ e.act = "add" /\ e.d \notin sc.kids
               /\ schemes' = [schemes EXCEPT ![e.s] =
                    [due EXCEPT !.open = @ \cup {e.d}, !.held[e.d] = p]]
               /\ Spawn(e.d, <<Do("added", e.s, e.d, p), Do("keep", e.s, e.d, None)>>)
            \/ /\ e.act = "delete" /\ e.d \in sc.kids
               /\ schemes' = [schemes EXCEPT ![e.s] = [due EXCEPT !.open = @ \ {e.d}]]
               /\ Spawn(e.d, (IF sc.held[e.d] = None THEN <<>> ELSE Deletion(e.s, e.d, sc.held[e.d]))
                               \o <<Do("drop", e.s, e.d, None)>>)
            \/ /\ ~(e.act = "add" /\ e.d \notin sc.kids)
               /\ ~(e.act = "delete" /\ e.d \in sc.kids)
               /\ schemes' = [schemes EXCEPT ![e.s] = due]
               /\ UNCHANGED tasks

\* NestedPluginsDirScheme does the same one level further down.
NestedEvent(e) == TopEvent(e)

\* The watcher of a plugin directory.  Where a plugin is found, its 'added' is tried, and
\* the scheme detected anew if that fails; elsewhere a failure ends the listener.
KidEvent(e) ==
    LET held == schemes[e.s].held[e.d]
        p == disk[e.d]
        redetect == <<Do("redetect", e.s, e.d, None)>>
        failed == IF p # None /\ p.config = "bad" /\ mgr.registry[e.d] = None THEN redetect ELSE <<>>
    IN \/ /\ e.act = "delete" /\ held # None
          /\ Spawn(e.d, Deletion(e.s, e.d, held) \o redetect)
          /\ UNCHANGED schemes
       \/ /\ e.act = "change" /\ held # None
          /\ IF p \in {held, None} THEN UNCHANGED tasks
             ELSE Spawn(e.d, Deletion(e.s, e.d, held) \o
                             <<Do("hold", e.s, e.d, p), Do("added", e.s, e.d, p)>>)
          /\ UNCHANGED schemes
       \/ /\ held = None /\ p # None
          /\ schemes' = [schemes EXCEPT ![e.s].held[e.d] = p]
          /\ Spawn(e.d, <<Do("added", e.s, e.d, p)>> \o failed)
       \/ /\ IF held = None THEN p = None ELSE e.act \notin {"delete", "change"}
          /\ Spawn(e.d, redetect)
          /\ UNCHANGED schemes

Deliver ==
    /\ Settled
    /\ events # <<>> /\ FreeTasks # {}
    /\ events' = Tail(events)
    /\ LET e == Head(events)
       IN IF ~Watched(e) THEN UNCHANGED <<schemes, tasks>>
          ELSE IF e.at = "kid" THEN KidEvent(e)
          ELSE IF schemes[e.s].kind = 2 THEN NestedEvent(e) ELSE TopEvent(e)
    /\ UNCHANGED <<disk, pluginPath, insts, mgr, running, refused, races, changes, calls>>

\* Mutant of Redetect: the timer is an interval.
RedetectRepeats(s) ==
    LET i == schemes[s].owner
        now == insts[i].scheme
    IN /\ Settled /\ (Slow \/ FreeTasks = TaskIds)
       /\ schemes[s].timer /\ FreeTasks # {}
       /\ IF now # 0 /\ schemes[now].kind = DetectScheme
          THEN UNCHANGED <<insts, tasks, schemes>>
          ELSE Destroy(i, FreeTask, <<[do |-> "create", i |-> i, kind |-> DetectScheme]>>, schemes)
       /\ UNCHANGED <<disk, pluginPath, events, mgr, running, refused, races, changes, calls>>

\* The debounced redetection: PluginPath.detect() of the scheme's owner, up to the
\* destruction of the scheme it has.
Redetect(s) ==
    LET i == schemes[s].owner
        now == insts[i].scheme
        fired == [schemes EXCEPT ![s].timer = FALSE]
    IN /\ Settled /\ (Slow \/ FreeTasks = TaskIds)
       /\ schemes[s].timer /\ FreeTasks # {}
       /\ IF now # 0 /\ schemes[now].kind = DetectScheme
          THEN schemes' = fired /\ UNCHANGED <<insts, tasks>>
          ELSE Destroy(i, FreeTask, <<[do |-> "create", i |-> i, kind |-> DetectScheme]>>, fired)
       /\ UNCHANGED <<disk, pluginPath, events, mgr, running, refused, races, changes, calls>>

-------------------------------------------------------------------------------
(* A task goes on: the next step of one of its strands.                     *)
Goes(t, x, step) == tasks[t][x] # <<>> /\ Head(tasks[t][x]).do = step
Rest(t, x, more) == tasks' = [tasks EXCEPT ![t][x] = more \o Tail(@)]
Now(t, x) == Head(tasks[t][x])

\* await plugin.stop()
StepStop(t, x) ==
    /\ Goes(t, x, "stop")
    /\ running' = running \ {[dir |-> Now(t, x).d, plugin |-> Now(t, x).p]}
    /\ Rest(t, x, <<>>)
    /\ UNCHANGED <<schemes, insts, pluginPath, mgr>>

\* 'removed', up to the call of the config service for a plugin with a config file,
\* and what follows it.
StepRemoved(t, x) ==
    LET d == Now(t, x).d
        p == Now(t, x).p
        gone == [mgr EXCEPT !.registry[d] = None]
    IN /\ Goes(t, x, "removed")
       /\ IF p.config # "none"
          THEN mgr' = gone /\ Rest(t, x, <<Do("unloaded", Now(t, x).s, d, p)>>)
          ELSE mgr' = Unlist(gone, d, p) /\ Rest(t, x, <<>>)
       /\ UNCHANGED <<schemes, insts, pluginPath, running>>

StepUnloaded(t, x) ==
    /\ Goes(t, x, "unloaded")
    /\ mgr' = Unlist(mgr, Now(t, x).d, Now(t, x).p)
    /\ Rest(t, x, <<>>)
    /\ UNCHANGED <<schemes, insts, pluginPath, running>>

\* 'added', up to the call of the config service, and what follows it.
StepAdded(t, x) ==
    LET d == Now(t, x).d
        p == Now(t, x).p
    IN /\ Goes(t, x, "added")
       /\ IF mgr.registry[d] # None THEN UNCHANGED mgr /\ Rest(t, x, <<>>)
          ELSE IF p.config # "none"
          THEN mgr' = Register(mgr, d, p) /\ Rest(t, x, <<Do("loaded", Now(t, x).s, d, p)>>)
          ELSE mgr' = Name(Register(mgr, d, p), d, p) /\ Rest(t, x, <<>>)
       /\ UNCHANGED <<schemes, insts, pluginPath, running>>

\* The config service throws at a file that it cannot parse, or that does not match its
\* schema.
IsRefused(t, x) == Goes(t, x, "loaded") /\ Now(t, x).p.config = "bad"

StepLoaded(t, x) ==
    /\ Goes(t, x, "loaded") /\ ~IsRefused(t, x)
    /\ mgr' = Name(mgr, Now(t, x).d, Now(t, x).p)
    /\ Rest(t, x, <<>>)
    /\ UNCHANGED <<schemes, insts, pluginPath, running>>

\* A PluginScheme that is not kept, for its watch() has failed: its watcher stays open
\* and it holds its plugin, but the scheme above it does not know of it.
Orphan(s, d) ==
    Append([schemes EXCEPT ![s].open = @ \ {d}],
           [owner |-> schemes[s].owner, kind |-> 0, kids |-> {d}, top |-> FALSE, open |-> {d},
            held |-> [e \in Dirs |-> IF e = d THEN schemes[s].held[d] ELSE None],
            timer |-> FALSE, up |-> s])

\* 'added' fails where it awaits the config service, and with it all that awaits it: a
\* plugin is registered that has no namespace, and the plugins that were to be watched
\* after it are not.
StepRefused(t, x) ==
    LET s == Now(t, x).s
        d == Now(t, x).d
        rest == Tail(tasks[t][x])
        Follows(do) == rest # <<>> /\ Head(rest).do = do
    IN /\ IsRefused(t, x)
       /\ tasks' = [tasks EXCEPT ![t][x] = IF Follows("redetect") THEN rest ELSE <<>>]
       /\ schemes' = IF Follows("keep") THEN Orphan(s, d) ELSE schemes
       /\ UNCHANGED <<mgr, insts, pluginPath, running>>

\* this.plugin = plugin, or null
StepHold(t, x) ==
    /\ Goes(t, x, "hold")
    /\ schemes' = [schemes EXCEPT ![Now(t, x).s].held[Now(t, x).d] = Now(t, x).p]
    /\ Rest(t, x, <<>>)
    /\ UNCHANGED <<mgr, insts, pluginPath, running>>

\* pluginSchemes[dir] is set, or deleted.
StepKeepOrDrop(t, x) ==
    /\ \/ /\ Goes(t, x, "keep")
          /\ schemes' = [schemes EXCEPT ![Now(t, x).s].kids = @ \cup {Now(t, x).d}]
       \/ /\ Goes(t, x, "drop")
          /\ schemes' = [schemes EXCEPT ![Now(t, x).s].kids = @ \ {Now(t, x).d}]
    /\ Rest(t, x, <<>>)
    /\ UNCHANGED <<mgr, insts, pluginPath, running>>

\* emit('redetect-scheme') of the plugin scheme, which the scheme above it passes on
StepRedetect(t, x) ==
    /\ Goes(t, x, "redetect")
    /\ schemes' = [schemes EXCEPT ![schemes[Now(t, x).s].up].timer = TRUE]
    /\ Rest(t, x, <<>>)
    /\ UNCHANGED <<mgr, insts, pluginPath, running>>

\* await scheme.watch(true): the watcher is opened and the plugin, if any, added.
StepWatch(t, x) ==
    LET s == Now(t, x).s
        d == Now(t, x).d
        p == schemes[s].held[d]
    IN /\ Goes(t, x, "watch")
       /\ schemes' = [schemes EXCEPT ![s].open = @ \cup {d}]
       /\ Rest(t, x, IF p = None \/ d \in schemes[s].open THEN <<>> ELSE <<Do("added", s, d, p)>>)
       /\ UNCHANGED <<mgr, insts, pluginPath, running>>

\* The strands of the removed plugins have ended: this.scheme = null
StepDestroyed(t, x) ==
    /\ Goes(t, x, "destroyed") /\ \A d \in Dirs : tasks[t][d] = <<>>
    /\ insts' = [insts EXCEPT ![Now(t, x).i].scheme = 0]
    /\ Rest(t, x, <<>>)
    /\ UNCHANGED <<mgr, schemes, pluginPath, running>>

\* Its plugin schemes are watched one after the other, each when the plugin of the
\* one before has been added.
WatchAll(s, order) == [n \in 1..Len(order) |-> Do("watch", s, order[n], None)]

\* The new scheme: it is watched, its plugins are detected and added one by one.
StepCreate(t, x) ==
    LET i == Now(t, x).i
        kind == Now(t, x).kind
        s == Len(schemes) + 1
        kids == Detect(kind)
    IN /\ Goes(t, x, "create")
       /\ insts' = [insts EXCEPT ![i] = [scheme |-> s, redetect |-> s]]
       /\ schemes' = Append(schemes,
            [owner |-> i, kind |-> kind, kids |-> kids, top |-> kind # 0, open |-> {},
             held |-> [d \in Dirs |-> IF d \in kids THEN disk[d] ELSE None], timer |-> FALSE, up |-> s])
       /\ \E order \in SetToSeqs(kids) : Rest(t, x, WatchAll(s, order))
       /\ UNCHANGED <<mgr, pluginPath, running>>

\* delete this.pluginPaths[pluginPath]
StepForget(t, x) ==
    /\ Goes(t, x, "forget")
    /\ pluginPath' = 0
    /\ Rest(t, x, <<>>)
    /\ UNCHANGED <<mgr, schemes, insts, running>>

Step == \E t \in TaskIds, x \in Dirs \cup {Main} :
    /\ Settled \/ ~Waits(t, x)
    /\ \/ StepStop(t, x) \/ StepRemoved(t, x) \/ StepUnloaded(t, x)
       \/ StepAdded(t, x) \/ StepLoaded(t, x) \/ StepRefused(t, x) \/ StepHold(t, x) \/ StepKeepOrDrop(t, x)
       \/ StepRedetect(t, x) \/ StepWatch(t, x)
       \/ StepDestroyed(t, x) \/ StepCreate(t, x) \/ StepForget(t, x)
    /\ refused' = (refused \/ IsRefused(t, x))
    /\ UNCHANGED <<disk, events, races, changes, calls>>

Next ==
    \/ RegisterPluginPath \/ UnregisterPluginPath \/ AutoStart
    \/ \E n \in Names : Dispatch(n) \/ StopPlugins(n)
    \/ \E d \in Dirs, p \in Plugins \cup {None}, act \in {"add", "change", "delete"} : Change(d, p, act)
    \/ Deliver \/ Step
    \/ \E s \in 1..Len(schemes) : Redetect(s)

Spec == Init /\ [][Next]_vars

\* Promises go on, timers fire, and file system events are delivered.
Fairness ==
    /\ WF_vars(Deliver) /\ WF_vars(Step)
    /\ WF_vars(\E s \in 1..Len(schemes) : Redetect(s))
FairSpec == Spec /\ Fairness

-------------------------------------------------------------------------------
Instances == [dir : Dirs, plugin : Plugins]

TypeOK ==
    /\ disk \in [Dirs -> Plugins \cup {None}]
    /\ pluginPath \in 0..Len(insts)
    /\ \A i \in 1..Len(insts) : insts[i] \in [scheme : 0..Len(schemes), redetect : 0..Len(schemes)]
    /\ \A s \in 1..Len(schemes) :
         schemes[s] \in [owner : 1..Len(insts), kind : 0..3, kids : SUBSET Dirs, top : BOOLEAN,
                         open : SUBSET Dirs, held : [Dirs -> Plugins \cup {None}], timer : BOOLEAN,
                         up : Nat]
    /\ mgr.registry \in [Dirs -> Plugins \cup {None}]
    /\ \A d \in Dirs : mgr.registered[d] \in Seq(Plugins)
    /\ mgr.versions \in [Names -> SUBSET Instances]
    /\ mgr.routes \in [Names -> Nat]
    /\ running \in SUBSET Instances /\ refused \in BOOLEAN
    /\ races \in 0..MaxRaces

\* A namespace has a route in the dispatcher exactly while it has a version, and
\* never two, whatever order plugins come and go in: its handler is registered with
\* the first and taken away with the last (plugin-manager.js:291-373, 403-411).
RoutesMatchVersions ==
    \A n \in Names :
      /\ mgr.routes[n] = IF mgr.versions[n] = {} THEN 0 ELSE 1
      /\ \A v, w \in mgr.versions[n] : v.plugin.version = w.plugin.version => v = w

\* What the registry should hold: the plugins of the directories that the scheme of
\* the registered path covers.
Expected(d) == IF pluginPath # 0 /\ Depth[d] = DetectScheme THEN disk[d] ELSE None

\* When everything has been dealt with, the registry and the list of registered plugins
\* hold exactly the plugins that are on disk below the registered path, the namespaces
\* those of them that are supported, and no plugin runs that is not among them: plugins
\* are not lost, left over or added twice by the redetection of the scheme.  This is so
\* as long as no change or call came in before the last one had been dealt with, and no
\* config file was refused.  (And every variable has its type.)
RegistryMirrorsDisk ==
    TypeOK /\ (Quiet /\ races = 0 /\ ~refused =>
      /\ mgr.registry = [d \in Dirs |-> Expected(d)]
      /\ \A d \in Dirs : mgr.registered[d] = IF Expected(d) = None THEN <<>> ELSE <<Expected(d)>>
      /\ UNION {mgr.versions[n] : n \in Names} =
           {[dir |-> d, plugin |-> disk[d]] : d \in {e \in Dirs : Expected(e) # None /\ Expected(e).supported}}
      /\ running \subseteq UNION {mgr.versions[n] : n \in Names})

\* What the comment of destroy() says of it, "Removes all plugins and stops file
\* system watchers" (plugin-path.js:98): when a path has been unregistered and all
\* has come to rest, no plugin of it is registered and none of its watchers is open.
UnregisterRemovesAll ==
    Quiet /\ pluginPath = 0 =>
      /\ \A d \in Dirs : mgr.registry[d] = None
      /\ \A s \in 1..Len(schemes) : ~schemes[s].top /\ schemes[s].open = {}

\* Every change and call is dealt with in the end: no task waits for ever, no
\* redetection causes the next one.
ComesToRest == []<>Quiet
=============================================================================
