----------------------------- MODULE DetectEngine -----------------------------
(***************************************************************************)
(* The detection engine (packages/appcd-detect/src): DetectEngine scans    *)
(* its search paths for items of interest, with a Detector per path, and   *)
(* scans them again when a detector's file system watches, the watched     *)
(* registry key, the caller or a timer asks for it.  Its scans run one at  *)
(* a time: one that is asked for during another is given the results of    *)
(* the other (tailgate).  The watches belong to FSWatchManager             *)
(* (packages/appcd-fswatch-manager/src/fswatch-manager.js), which is       *)
(* reached through the dispatcher, hence asynchronously; what they report  *)
(* is the contract of FSWatcher.tla.                                       *)
(***************************************************************************)
EXTENDS RegistryWatcher, FiniteSets, FiniteSetsExt, SequencesExt

CONSTANTS
    Pending,         \* the id of a watch that is being asked for
    Nodes, Parent,   \* the directories, and the search path a directory is in
    PathLists,       \* what `paths` may be set to
    Options,         \* the ways the engine is configured
    Detectors, Watches,   \* names for Detector instances and subscription ids
    Disks,           \* the directories, and those with an item, that there are at first
    MaxChanges       \* bound: changes made to the disk, the paths or the registry

Roots == {n \in Nodes : Parent[n] = n}

\* searchPaths is a Set: no path is in it twice.  A directory is in one that exists.
ASSUME DEAssumption ==
    /\ IsFiniteSet(Nodes) /\ Parent \in [Nodes -> Nodes] /\ \A n \in Nodes : Parent[n] \in Roots
    /\ Roots # {} /\ Detectors # {} /\ MaxChanges \in Nat
    /\ Options \subseteq [multiple : BOOLEAN, recursive : BOOLEAN, redetect : BOOLEAN,
                          polled : BOOLEAN]
    /\ None \notin Watches /\ None \notin Nodes /\ Pending \notin Watches
    /\ Folders \subseteq Roots
    /\ PathLists \subseteq Seq(Roots) /\ \A list \in PathLists : IsInjective(list)
    /\ \A x \in Disks : /\ x.items \subseteq x.dirs /\ x.dirs \subseteq Nodes
                         /\ \A n \in x.dirs : Parent[n] \in x.dirs

VARIABLES
    disk, items,     \* the directories that exist, and those with an item in them
    options,         \* opts: multiple, recursive, redetect, and polled
    paths,           \* opts.paths
    answer,          \* what opts.registryCallback() finds
    changes,         \* how many changes were made
    phase,           \* the engine: "new", "running", "stopping" or "stopped"
    detectors,       \* engine.detectors, in order
    results,         \* engine.results, as the directories they were found in
    scan,            \* the scan that is under way
    asks,            \* rescans on their way to scan(), with the paths they have read
    refresh,         \* the refreshPathsTimer is armed
    dirOf, sid, sids, \* a Detector: its dir, its watch, its watches by subdirectory
    timer,           \* detectors whose debounced 'rescan' is due
    open, watchOf,   \* FSWatchManager.watchers: the open watches, and each one's terms
    events,          \* watch -> the events on their way to its onFSEvent()
    stops,           \* calls of Detector.stop() under way
    drops,           \* subdirectory watches being dropped since the directory went
    halting,         \* the detectors that stop() has yet to stop
    missed,          \* ghost: the last scan was not told all: a rescan was given its results,
                     \* it failed, or its paths had been set again before it began
    unseen,          \* ghost: since the scan began something changed that no watch acts on
    cut              \* ghost: detectors that were stopped while a scan was about them

diskVars == <<disk, items, options, paths, answer, changes>>
engineVars == <<phase, detectors, results, scan, asks, refresh, halting>>
detectorVars == <<dirOf, sid, sids, timer, stops, drops>>
watchVars == <<open, watchOf, events>>
ghosts == <<missed, unseen, cut>>
vars == <<keyVars, diskVars, engineVars, detectorVars, watchVars, ghosts>>

NoScan == [at |-> "idle", stale |-> {}, todo |-> <<>>, left |-> <<>>,
           found |-> {}, here |-> {}, coming |-> {}, arms |-> {}]

Term == [dir : Nodes, recursive : BOOLEAN, det : Detectors, sub : Nodes \cup {None}]
NoTerm == [dir |-> CHOOSE n \in Nodes : TRUE, recursive |-> FALSE,
           det |-> CHOOSE d \in Detectors : TRUE, sub |-> None]

DetectTypeOK ==
    /\ items \subseteq disk /\ disk \subseteq Nodes
    /\ options \in Options /\ paths \in PathLists /\ answer \in Roots \cup {None}
    /\ changes \in 0..MaxChanges
    /\ phase \in {"new", "running", "stopping", "stopped"}
    /\ ToSet(detectors) \subseteq Detectors /\ IsInjective(detectors)
    /\ results \subseteq Nodes
    /\ scan.at \in {"idle", "stale", "next", "check", "primary", "subs"}
    /\ ToSet(scan.todo) \subseteq Detectors /\ scan.found \subseteq Nodes
    /\ refresh \in BOOLEAN
    /\ dirOf \in [Detectors -> Roots]
    /\ sid \in [Detectors -> Watches \cup {None}]
    /\ sids \in [Detectors -> [Nodes -> Watches \cup {None, Pending}]]
    /\ timer \subseteq Detectors /\ open \subseteq Watches /\ cut \subseteq Detectors
    /\ watchOf \in [Watches -> Term]

DetectInit ==
    /\ RegistryInit
    /\ \E x \in Disks : disk = x.dirs /\ items = x.items
    /\ options \in Options /\ paths \in PathLists /\ answer = None /\ changes = 0
    /\ phase = "new" /\ detectors = <<>> /\ results = {}
    /\ scan = NoScan /\ asks = {} /\ refresh = FALSE /\ halting = {}
    /\ dirOf = [d \in Detectors |-> CHOOSE n \in Roots : TRUE]
    /\ sid = [d \in Detectors |-> None]
    /\ sids = [d \in Detectors |-> [n \in Nodes |-> None]]
    /\ timer = {} /\ stops = {} /\ drops = {}
    /\ open = {} /\ watchOf = [w \in Watches |-> NoTerm]
    /\ events = [w \in Watches |-> <<>>]
    /\ missed = FALSE /\ unseen = FALSE /\ cut = {}

-------------------------------------------------------------------------------
\* checkDir(dir, depth): the directories a search path finds items in.
Subdirs(p) == {n \in Nodes \ Roots : Parent[n] = p}
FoundIn(p) == IF p \in items THEN {p} ELSE items \cap Subdirs(p)

\* The scan of the paths, in their order; without `multiple` the first path
\* that holds something is the last one looked at.
Reference(list) ==
    LET seen == {i \in DOMAIN list :
                    options.multiple \/ \A j \in 1..(i - 1) : FoundIn(list[j]) = {}}
    IN  UNION {FoundIn(list[i]) : i \in seen}

\* getPaths(): the given paths, then those the registry adds.
With(list, p) == IF p = None \/ p \in ToSet(list) THEN list ELSE Append(list, p)
GetPaths(list) == With(With(list, IF options.polled THEN answer ELSE None), values)

\* Without `multiple`, the results have to be one of the first path's.
Agrees(rs, list) ==
    IF options.multiple THEN rs = Reference(list)
    ELSE rs \subseteq Reference(list) /\ (Reference(list) # {} => Cardinality(rs) = 1)

-------------------------------------------------------------------------------
\* The names in use: a Detector or a watch that nothing refers to can be named again.
Scanned == scan.stale \cup ToSet(scan.todo)
Held(d) == {w \in Watches : sid[d] = w \/ \E n \in Nodes : sids[d][n] = w}
Referred == ToSet(detectors) \cup Scanned \cup timer \cup {s.det : s \in stops}
                \cup {x.det : x \in drops}
                \cup {watchOf[w].det : w \in open \cup {v \in Watches : events[v] # <<>>}}
FreeDetectors == Detectors \ Referred
FreeWatches == {w \in Watches \ open : /\ events[w] = <<>>
                                       /\ \A d \in Referred : w \notin Held(d)
                                       /\ \A x \in drops : x.sid # w
                                       /\ \A c \in scan.coming : c.sid # w}
NewWatch == CHOOSE w \in FreeWatches : TRUE

\* A change of the disk is reported to the watches of the directory, of the
\* one it is in and, when they are recursive, of any above; a change in a
\* directory that is not recursive only to its own.
Sees(w, n, action) ==
    LET t == watchOf[w]
    IN  \/ t.dir = n
        \/ t.dir = Parent[n] /\ (t.recursive \/ action # "change")

\* What a watch is told of a change.
Heard(w, told) ==
    LET h[i \in 0..Len(told)] ==
          IF i = 0 THEN <<>>
          ELSE IF Sees(w, told[i].file, told[i].action) THEN Append(h[i - 1], told[i])
          ELSE h[i - 1]
    IN  h[Len(told)]
Tell(told) ==
    events' = [w \in Watches |-> IF w \in open THEN events[w] \o Heard(w, told) ELSE events[w]]

\* The listener of a subdirectory leaves the deletion of the search path to the path's own.
Leaves(w, e) ==
    watchOf[w].sub # None /\ e.file = dirOf[watchOf[w].det] /\ e.action = "delete"
ActsOn(w, told) ==
    \E i \in DOMAIN told : Sees(w, told[i].file, told[i].action) /\ ~Leaves(w, told[i])

Event(n, action) == <<[file |-> n, action |-> action]>>

\* The events of a directory that goes: its subdirectories' first.
Gone(n) ==
    LET subs == SetToSeq(Subdirs(n) \cap disk)
    IN  [i \in DOMAIN subs |-> [file |-> subs[i], action |-> "delete"]] \o Event(n, "delete")

Changed(told) ==
    /\ changes < MaxChanges /\ changes' = changes + 1
    /\ Tell(told)
    /\ unseen' = (unseen \/ ~\E w \in open : ActsOn(w, told))
    /\ UNCHANGED <<keyVars, options, paths, answer, engineVars, detectorVars, open, watchOf,
                   missed, cut>>

\* The environment: a directory is made or removed, an item comes or goes.
MakeDir(n) ==
    /\ n \notin disk /\ Parent[n] \in disk \cup {n}
    /\ disk' = disk \cup {n} /\ items' = items /\ Changed(Event(n, "add"))
RemoveDir(n) ==
    LET gone == {n} \cup IF n \in Roots THEN Subdirs(n) ELSE {}
    IN  /\ n \in disk /\ disk' = disk \ gone /\ items' = items \ gone /\ Changed(Gone(n))
ToggleItem(n) ==
    /\ n \in disk /\ disk' = disk
    /\ items' = (items \ {n}) \cup ({n} \ items) /\ Changed(Event(n, "change"))

\* The caller sets engine.paths, in any phase, which asks for a rescan; or the
\* registry callback would find another.
SetPaths(list) ==
    /\ changes < MaxChanges /\ changes' = changes + 1
    /\ paths' = list
    /\ asks' = asks \cup {[by |-> "paths", paths |-> list]}
    /\ UNCHANGED <<keyVars, disk, items, options, answer, phase, detectors, results, scan, refresh,
                   halting, detectorVars, watchVars, ghosts>>
MoveAnswer(p) ==
    /\ changes < MaxChanges /\ changes' = changes + 1
    /\ options.polled /\ answer' = p /\ p # answer
    /\ UNCHANGED <<keyVars, disk, items, options, paths, engineVars, detectorVars, watchVars, ghosts>>

-------------------------------------------------------------------------------
\* start(): the registry watchers, then a rescan that arms the timer when it is done.
Start ==
    /\ phase \in {"new", "stopped"}
    /\ changes' = IF phase = "new" THEN 0 ELSE changes + 1
    /\ changes' <= MaxChanges
    /\ phase' = "running" /\ StartKeys
    /\ asks' = asks \cup {[by |-> "start", paths |-> paths]}
    /\ UNCHANGED <<disk, items, options, paths, answer, detectors, results, scan, refresh, halting,
                   detectorVars, watchVars, ghosts>>

\* A debounced 'rescan' of a detector, or the 'change' of the registry watcher.
Fire(d) ==
    /\ d \in timer /\ timer' = timer \ {d}
    /\ asks' = asks \cup {[by |-> "detector", paths |-> paths]}
    /\ UNCHANGED <<keyVars, diskVars, phase, detectors, results, scan, refresh, halting, dirOf, sid,
                   sids, stops, drops, watchVars, ghosts>>
RegistryChanged ==
    /\ NotifyKeys
    /\ asks' = asks \cup {[by |-> "registry", paths |-> paths]}
    /\ UNCHANGED <<diskVars, phase, detectors, results, scan, refresh, halting, detectorVars, watchVars,
                   ghosts>>

\* The refreshPathsTimer fires.
RefreshPaths ==
    /\ refresh /\ refresh' = FALSE
    /\ asks' = asks \cup {[by |-> "refresh", paths |-> paths]}
    /\ UNCHANGED <<keyVars, diskVars, phase, detectors, results, scan, halting, detectorVars,
                   watchVars, ghosts>>

-------------------------------------------------------------------------------
\* scan(): the paths that had a detector keep it, the others get a new one; the
\* paths are stale when they were set again while getPaths() looked for the rest.
Begin(list, arms, stale) ==
    LET keeps == {d \in ToSet(detectors) : dirOf[d] \in ToSet(list)}
        added == {i \in DOMAIN list : \A d \in keeps : dirOf[d] # list[i]}
        naming == CHOOSE f \in Injection(added, FreeDetectors) : TRUE
        now == [i \in DOMAIN list |->
                   IF i \in added THEN naming[i] ELSE CHOOSE d \in keeps : dirOf[d] = list[i]]
        new == {now[i] : i \in added}
    IN  /\ ExistsInjection(added, FreeDetectors)
        /\ detectors' = now
        /\ scan' = [NoScan EXCEPT !.at = "stale", !.arms = arms, !.todo = now,
                       !.stale = ToSet(detectors) \ keeps]
        /\ dirOf' = [d \in Detectors |-> IF d \in new THEN list[CHOOSE i \in added : now[i] = d]
                                         ELSE dirOf[d]]
        /\ sid' = [d \in Detectors |-> IF d \in new THEN None ELSE sid[d]]
        /\ sids' = [d \in Detectors |-> IF d \in new THEN [n \in Nodes |-> None] ELSE sids[d]]
        /\ halting' = halting \ keeps
        /\ missed' = stale /\ unseen' = FALSE
        /\ cut' = (cut \ new) \cup (IF phase = "stopping" THEN ToSet(now)
                                    ELSE {s.det : s \in stops} \cap ToSet(now))
        /\ UNCHANGED refresh

\* tailgate(): another scan is under way, and its results are this one's too.
Join(arms) ==
    /\ scan' = [scan EXCEPT !.arms = @ \cup arms]
    /\ missed' = TRUE
    /\ UNCHANGED <<detectors, dirOf, sid, sids, halting, unseen, cut, refresh>>

\* refreshPaths() compares the numbers of paths and detectors; when they agree
\* it trips over this.detector, which there is not, and waits for the next time.
Trips(a) == a.by = "refresh" /\ Len(GetPaths(a.paths)) = Len(detectors)

\* getPaths() is done; scan() is called with what it found.
Rescan(a) ==
    /\ a \in asks /\ asks' = asks \ {a}
    /\ LET arms == {a.by} \cap {"start", "refresh"}
       IN  IF Trips(a)
           THEN /\ refresh' = TRUE
                /\ UNCHANGED <<scan, detectors, dirOf, sid, sids, halting, missed, unseen, cut>>
           ELSE IF scan.at = "idle" THEN Begin(GetPaths(a.paths), arms, a.paths # paths)
           ELSE Join(arms)
    /\ UNCHANGED <<keyVars, diskVars, phase, results, timer, stops, drops, watchVars>>

-------------------------------------------------------------------------------
\* Detector.stop(): the watches of its subdirectories one by one, its own last.
Stopping(d, by) == [det |-> d, by |-> by, at |-> "subs", seen |-> {}]

\* mutant: the listener of a directory that is gone asks for nothing.
StoppedSilently(s) ==
    /\ scan' = IF s.by = "scan" THEN [scan EXCEPT !.stale = @ \ {s.det}] ELSE scan
    /\ halting' = halting \ {s.det}
    /\ timer' = timer

\* What the caller of stop() does next: the scan and the engine go on with the
\* next detector, the listener of a directory that is gone asks for a rescan.
Stopped(s) ==
    /\ scan' = IF s.by = "scan" THEN [scan EXCEPT !.stale = @ \ {s.det}] ELSE scan
    /\ halting' = IF s.by = "event" THEN halting
                  ELSE halting \ {s.det}
    /\ timer' = IF s.by = "event" THEN timer \cup {s.det} ELSE timer

\* What a watch has reported comes before the answer to its unsubscription.
Silent(w) == w \in Watches => events[w] = <<>>

StopStep(s) ==
    LET d == s.det
        rest == {n \in Nodes : sids[d][n] # None /\ n \notin s.seen}
        still == UNCHANGED <<scan, halting, timer>>
    IN  /\ s \in stops
        /\ \A n \in s.seen : Silent(sids[d][n])
        /\ \/ /\ s.at = "subs" /\ \E n \in rest :
                  /\ open' = open \ {sids[d][n]}
                  /\ stops' = (stops \ {s}) \cup {[s EXCEPT !.seen = @ \cup {n}]}
              /\ still /\ UNCHANGED <<sid, sids>>
           \/ /\ s.at = "subs" /\ rest = {}
              /\ sids' = [sids EXCEPT ![d] = [n \in Nodes |-> None]]
              /\ open' = open \ {sid[d]}
              /\ IF sid[d] = None THEN stops' = stops \ {s} /\ Stopped(s)
                 ELSE stops' = (stops \ {s}) \cup {[s EXCEPT !.at = "primary"]} /\ still
              /\ UNCHANGED sid
           \/ /\ s.at = "primary" /\ Silent(sid[d])
              /\ sid' = [sid EXCEPT ![d] = None] /\ stops' = stops \ {s} /\ Stopped(s)
              /\ UNCHANGED <<sids, open>>
        /\ UNCHANGED <<keyVars, diskVars, phase, detectors, results, asks, refresh, dirOf, drops,
                       watchOf, events, ghosts>>

StopDetector(d, by) ==
    /\ stops' = stops \cup {Stopping(d, by)}
    /\ cut' = cut \cup ({d} \cap ToSet(scan.todo))

\* engine.stop(): timers and registry watchers at once, then the detectors in turn.
Stop ==
    /\ phase = "running" /\ phase' = "stopping"
    /\ refresh' = FALSE /\ StopKeys /\ halting' = ToSet(detectors)
    /\ UNCHANGED <<diskVars, detectors, results, scan, asks, detectorVars, watchVars, ghosts>>
StopNext ==
    /\ phase = "stopping" /\ ~\E s \in stops : s.by = "engine"
    /\ IF halting # {}
       THEN /\ \E d \in halting : StopDetector(d, "engine")
            /\ UNCHANGED <<phase, detectors, scan>>
       ELSE /\ phase' = "stopped" /\ detectors' = <<>>
            /\ scan' = IF scan.at \in {"idle", "stale", "next"} THEN [scan EXCEPT !.todo = <<>>]
                       ELSE [scan EXCEPT !.todo = <<Head(@)>>]
            /\ UNCHANGED <<stops, cut>>
    /\ UNCHANGED <<keyVars, diskVars, results, asks, refresh, halting, dirOf, sid, sids, timer, drops,
                   watchVars, missed, unseen>>

-------------------------------------------------------------------------------
\* The steps of the scan.  First the detectors that lost their path are stopped.
ScanVars(next) ==
    /\ scan' = next
    /\ UNCHANGED <<keyVars, diskVars, phase, detectors, results, asks, refresh, halting, dirOf,
                   timer, drops, events, missed, unseen>>
Still == UNCHANGED <<sid, sids, stops, open, watchOf, cut>>

ScanStale ==
    /\ scan.at = "stale"
    /\ IF scan.stale = {} THEN ScanVars([scan EXCEPT !.at = "next"]) /\ Still
       ELSE /\ ~\E s \in stops : s.by = "scan"
            /\ \E d \in scan.stale : StopDetector(d, "scan")
            /\ ScanVars(scan)
            /\ UNCHANGED <<sid, sids, open, watchOf>>

Enough == scan.found # {} /\ ~options.multiple

\* Detector.scan(): checkDir() of its path and, when nothing is there, of each
\* subdirectory, which it lists at that moment.
ScanRoot ==
    /\ scan.at = "next" /\ scan.todo # <<>> /\ ~Enough
    /\ LET p == dirOf[Head(scan.todo)]
           here == {p} \cap items
       IN  ScanVars([scan EXCEPT !.at = "check", !.found = @ \cup here, !.here = here,
                       !.left = IF p \notin disk \/ here # {} THEN <<>>
                                ELSE SetToSeq(Subdirs(p) \cap disk)])
    /\ Still
ScanSub ==
    /\ scan.at = "check" /\ scan.left # <<>>
    /\ LET here == {Head(scan.left)} \cap items
       IN  ScanVars([scan EXCEPT !.found = @ \cup here, !.here = @ \cup here,
                       !.left = IF here # {} /\ ~options.multiple THEN <<>> ELSE Tail(@)])
    /\ Still

\* FSWatchManager.onSubscribe(): a watch of its own for the subscription.
Opens(w, dir, recursive, d, sub) ==
    /\ open' = open \cup {w}
    /\ watchOf' = [watchOf EXCEPT ![w] = [dir |-> dir, recursive |-> recursive, det |-> d, sub |-> sub]]

\* A subscription is answered after what was asked for before it.
Asked(sub) == [sub |-> sub, sid |-> NewWatch, after |-> drops]

\* mutant: whether a subdirectory is watched already is not looked at.
BeneathAgain(d) == IF options.redetect /\ ~options.recursive THEN scan.here ELSE {}

\* Once its path is watched, a detector watches the subdirectories where it
\* found something, unless the path is watched with everything beneath it; the
\* ones that it watches, or is about to, are left out.
Beneath(d) ==
    IF options.redetect /\ ~options.recursive
    THEN {n \in scan.here : sids[d][n] = None} ELSE {}
WatchBeneath(d) ==
    /\ sids' = [sids EXCEPT ![d] = [n \in Nodes |-> IF n \in Beneath(d) THEN Pending ELSE @[n]]]
    /\ ScanVars([scan EXCEPT !.at = "subs", !.here = Beneath(d), !.coming = {}])

WatchRoot ==
    /\ scan.at = "check" /\ scan.left = <<>>
    /\ LET d == Head(scan.todo)
       IN  IF sid[d] # None THEN WatchBeneath(d) /\ UNCHANGED <<sid, stops, open, watchOf, cut>>
           ELSE /\ FreeWatches # {}
                /\ Opens(NewWatch, dirOf[d], options.recursive /\ options.redetect, d, None)
                /\ ScanVars([scan EXCEPT !.at = "primary", !.coming = {Asked(None)}])
                /\ UNCHANGED <<sid, sids, stops, cut>>
RootWatched ==
    /\ scan.at = "primary"
    /\ \E c \in scan.coming :
         /\ c.after \cap drops = {}
         /\ sid' = [sid EXCEPT ![Head(scan.todo)] = c.sid]
    /\ WatchBeneath(Head(scan.todo))
    /\ UNCHANGED <<stops, open, watchOf, cut>>
WatchSub(n) ==
    /\ scan.at = "subs" /\ n \in scan.here /\ FreeWatches # {}
    /\ Opens(NewWatch, n, options.recursive, Head(scan.todo), n)
    /\ ScanVars([scan EXCEPT !.here = @ \ {n}, !.coming = @ \cup {Asked(n)}])
    /\ UNCHANGED <<sid, sids, stops, cut>>
SubWatched(c) ==
    /\ scan.at = "subs" /\ c \in scan.coming /\ c.after \cap drops = {}
    /\ sids' = [sids EXCEPT ![Head(scan.todo)][c.sub] = c.sid]
    /\ ScanVars([scan EXCEPT !.coming = @ \ {c}])
    /\ UNCHANGED <<sid, stops, open, watchOf, cut>>
ScanNext ==
    /\ scan.at = "subs" /\ scan.here = {} /\ scan.coming = {}
    /\ ScanVars([scan EXCEPT !.at = "next", !.todo = Tail(@)]) /\ Still

\* processResults(); the callers of scan() go on.
EndScan ==
    /\ scan.at = "next" /\ (scan.todo = <<>> \/ Enough)
    /\ results' = scan.found /\ scan' = NoScan
    /\ refresh' = (refresh \/ (options.polled /\ scan.arms # {}))
    /\ UNCHANGED <<keyVars, diskVars, phase, detectors, asks, halting, detectorVars, watchVars, ghosts>>

\* opts.checkDir() throws: so do scan() and its callers.
FailScan ==
    /\ scan.at = "check" /\ changes < MaxChanges /\ changes' = changes + 1
    /\ scan' = NoScan /\ missed' = TRUE
    /\ refresh' = (refresh \/ (options.polled /\ "refresh" \in scan.arms))
    /\ UNCHANGED <<keyVars, disk, items, options, paths, answer, phase, detectors, results, asks,
                   halting, detectorVars, watchVars, unseen, cut>>

-------------------------------------------------------------------------------
\* onFSEvent().  The answer to the subscription comes first.
Deliver(w) ==
    LET e == Head(events[w])
        t == watchOf[w]
        root == dirOf[t.det]
        gone == e.action = "delete" /\ e.file = (IF t.sub = None THEN root ELSE t.sub)
    IN  /\ events[w] # <<>> /\ \A c \in scan.coming : c.sid # w
        /\ events' = [events EXCEPT ![w] = Tail(@)]
        /\ IF Leaves(w, e) THEN UNCHANGED <<stops, drops, timer, open, cut>>
           ELSE IF ~gone THEN timer' = timer \cup {t.det} /\ UNCHANGED <<stops, drops, open, cut>>
           ELSE IF t.sub = None THEN StopDetector(t.det, "event") /\ UNCHANGED <<drops, timer, open>>
           ELSE /\ open' = open \ {w}
                /\ drops' = drops \cup {[det |-> t.det, sub |-> t.sub, sid |-> w]}
                /\ UNCHANGED <<stops, timer, cut>>
        /\ UNCHANGED <<keyVars, diskVars, engineVars, dirOf, sid, sids, watchOf, missed, unseen>>

\* The watch of a subdirectory that is gone was given up.
Dropped(x) ==
    /\ x \in drops /\ Silent(x.sid) /\ drops' = drops \ {x}
    /\ sids' = [sids EXCEPT ![x.det][x.sub] = None]
    /\ timer' = timer \cup {x.det}
    /\ UNCHANGED <<keyVars, diskVars, engineVars, dirOf, sid, stops, watchVars, ghosts>>

-------------------------------------------------------------------------------
Rest == UNCHANGED <<diskVars, engineVars, detectorVars, watchVars, ghosts>>
EditKeys(Act) == /\ changes < MaxChanges /\ changes' = changes + 1 /\ Act
                 /\ UNCHANGED <<disk, items, options, paths, answer, engineVars, detectorVars,
                                watchVars, ghosts>>
Works ==
    \/ \E d \in Detectors : Fire(d)
    \/ RegistryChanged \/ RefreshPaths \/ \E a \in asks : Rescan(a)
    \/ \E k \in Keys : HearKey(k) /\ Rest
    \/ \E s \in stops : StopStep(s)
    \/ StopNext \/ ScanStale \/ ScanRoot \/ ScanSub \/ WatchRoot \/ RootWatched
    \/ \E n \in scan.here : WatchSub(n)
    \/ \E c \in scan.coming : SubWatched(c)
    \/ ScanNext \/ EndScan
    \/ \E w \in Watches : Deliver(w)
    \/ \E x \in drops : Dropped(x)

-------------------------------------------------------------------------------
AtRest ==
    /\ phase = "running" /\ scan.at = "idle" /\ asks = {} /\ timer = {} /\ ~notifying
    /\ KeysAtRest /\ stops = {} /\ drops = {} /\ \A w \in Watches : events[w] = <<>>

Scanning == [i \in DOMAIN detectors |-> dirOf[detectors[i]]]

(* Once the engine has nothing left to do, its results are what a scan of the *)
(* disk would find now, unless the last change is one that no watch acts on,  *)
(* or a rescan was answered by the scan it came during (detect-engine.js:354, *)
(* where a change made behind that scan is lost), threw, or overtook one that *)
(* knew newer paths; and it scans the paths that getPaths() would return, or  *)
(* polls them and has its timer armed to look again (when that only compares  *)
(* their number, detect-engine.js:317, it may still miss another path).       *)
ResultsAreTrue ==
    AtRest /\ ~missed /\ ~unseen =>
        /\ Agrees(results, Scanning)
        /\ \/ ToSet(Scanning) = ToSet(GetPaths(paths))
           \/ options.polled /\ refresh

(* A watch is open because a detector of the engine, or one that is being     *)
(* stopped, holds its id or waits for it: none is opened twice or outlives    *)
(* its detector.  Detectors that were stopped while a scan was about them are *)
(* left out, they do leak (detector.js:95, :136, detect-engine.js:462).       *)
NoLeakedWatch ==
    \A w \in open : LET d == watchOf[w].det IN d \notin cut =>
        /\ w \in Held(d) \/ \E c \in scan.coming : c.sid = w
        /\ d \in ToSet(detectors) \cup Scanned \cup {s.det : s \in stops}
================================================================================
