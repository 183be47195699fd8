-------------------------------- MODULE FSWatcher --------------------------------
(***************************************************************************)
(* appcd-fswatcher (packages/appcd-fswatcher/src/fswatcher.js): a tree of  *)
(* nodes that all FSWatcher instances of the process share.  A node stands *)
(* for a path that is watched or leads to one; it has a watch of the       *)
(* operating system while its path is a directory.                         *)
(*                                                                         *)
(* The functions of Node are operators on the tree t: the nodes, the       *)
(* statistics, and the 'change' events emitted by the call under way.      *)
(* Symbolic links and directories without read permission are left out.    *)
(***************************************************************************)
EXTENDS Naturals, Sequences, FiniteSets, SequencesExt

CONSTANTS
    Paths,      \* the paths there may be: sequences of names, closed under Front
    Watchers,
    PathOf,     \* FSWatcher.path
    Recursive,  \* FSWatcher.recursive: how far down, 0 for not at all
    MaxChanges, \* bound: changes of the disk
    MaxOpens    \* bound: calls of open()

ASSUME FWAssumption ==
    /\ <<>> \in Paths
    /\ \A p \in Paths : p # <<>> => Front(p) \in Paths
    /\ PathOf \in [Watchers -> Paths \ {<<>>}] /\ Recursive \in [Watchers -> Nat]

VARIABLES
    disk,    \* path -> "none", "file" or "dir"
    inode,   \* path -> how often it has been created
    nodes,   \* path -> its node, for those that have one
    stats,
    opened,  \* the watchers that have been opened and not closed
    queue,   \* the operating system's events on their way
    hasty,   \* the disk changed while an earlier event was on its way
    last,    \* the events that the last step emitted
    changes, opens

vars == <<disk, inode, nodes, stats, opened, queue, hasty, last, changes, opens>>
-------------------------------------------------------------------------------
Below(p, q) == IsStrictPrefix(p, q)
KidsOnDisk(p) == {q \in Paths : q # <<>> /\ Front(q) = p /\ disk[q] # "none"}
NodesBelow(t, p) == {q \in DOMAIN t.nodes : Below(p, q)}
Kids(t, p) == {q \in NodesBelow(t, p) : Front(q) = p}

Tree == [nodes |-> nodes, stats |-> stats, sent |-> <<>>]
Set(t, p, n) == [t EXCEPT !.nodes = [q \in DOMAIN t.nodes \cup {p} |-> IF q = p THEN n ELSE t.nodes[q]]]

Init ==
    /\ disk \in [Paths -> {"none", "dir", "file"}]
    /\ disk[<<>>] = "dir"
    /\ \A p \in Paths \ {<<>>} : disk[p] # "none" => disk[Front(p)] = "dir"
    /\ inode = [p \in Paths |-> 1]
    /\ nodes = [p \in {} |-> 0]
    /\ stats = [nodes |-> 0, fswatchers |-> 0, watchers |-> 0]
    /\ opened = {} /\ queue = <<>> /\ hasty = FALSE /\ last = <<>> /\ changes = 0 /\ opens = 0

-------------------------------------------------------------------------------
(* Node                                                                     *)

\* isRecursive: a recursive watch, of this node or of one above, covers it.
IsRecursive(t, p) == DOMAIN t.nodes[p].depths # {}
IsParentRecursive(t, p) == \E q \in DOMAIN t.nodes : Below(q, p) /\ IsRecursive(t, q)

\* isActive(): the node has watchers, or a child that is active; a node whose path
\* is no directory does not look at its children.
IsActive(t, p) ==
    \E q \in NodesBelow(t, p) \cup {p} :
      /\ t.nodes[q].watchers # {}
      /\ \A r \in DOMAIN t.nodes : (r = p \/ Below(p, r)) /\ Below(r, q) => t.nodes[r].type = "dir"

\* notify(): the watchers of the node hear of the event, and those of the nodes above
\* that are covered by a recursive watch.
Notify(t, p, action, file, isNewDir) ==
    LET Distance(q) == LET d == Len(p) - Len(q) IN IF isNewDir /\ d > 0 THEN d - 1 ELSE d
        Hears(q, w) ==
          /\ w \in t.nodes[q].watchers
          /\ q = p \/ Below(q, p)
          /\ q = p \/ IsRecursive(t, q)
          /\ Recursive[w] = 0 \/ Recursive[w] >= Distance(q)
    IN [t EXCEPT !.sent = Append(@,
         [action |-> action, file |-> file,
          to |-> {w \in Watchers : \E q \in DOMAIN t.nodes : Hears(q, w)}])]

NotifyChildWatchers(t, p, action) ==
    [t EXCEPT !.sent = Append(@, [action |-> action, file |-> p, to |-> t.nodes[p].watchers])]

\* Mutant of CloseFSWatcher: it is counted as closed a second time.
CloseFSWatcherAlways(t, p) == [t EXCEPT !.nodes[p].fswatcher = 0, !.stats.fswatchers = @ - 1]

CloseFSWatcher(t, p) ==
    IF t.nodes[p].fswatcher = 0 THEN t
    ELSE [t EXCEPT !.nodes[p].fswatcher = 0, !.stats.fswatchers = @ - 1]

\* Mutant of Destroy: the watchers of the nodes below are still counted.
DestroyCountsOne(t, p) ==
    LET gone == NodesBelow(t, p) \cup {p}
    IN [t EXCEPT !.nodes = [q \in DOMAIN t.nodes \ gone |-> t.nodes[q]],
                 !.stats = [nodes |-> @.nodes - Cardinality(gone),
                            fswatchers |-> @.fswatchers - Cardinality({q \in gone : t.nodes[q].fswatcher # 0}),
                            watchers |-> @.watchers - Cardinality(t.nodes[p].watchers)]]

\* destroy(), of the node and of all below it
Destroy(t, p) ==
    LET gone == NodesBelow(t, p) \cup {p}
    IN [t EXCEPT !.nodes = [q \in DOMAIN t.nodes \ gone |-> t.nodes[q]],
                 !.stats = [nodes |-> @.nodes - Cardinality(gone),
                            fswatchers |-> @.fswatchers - Cardinality({q \in gone : t.nodes[q].fswatcher # 0}),
                            watchers |-> @.watchers - Cardinality(UNION {t.nodes[q].watchers : q \in gone})]]

\* new Node() and stat()
NewNode(t, p) ==
    [Set(t, p, [type |-> disk[p], watchers |-> {}, depths |-> <<>>, files |-> <<>>, listed |-> FALSE,
                fswatcher |-> 0]) EXCEPT !.stats.nodes = @ + 1]
Stat(t, p) == [t EXCEPT !.nodes[p].type = disk[p]]

\* The depths a node inherits from its parent.
Inherited(t, p) ==
    LET mine == t.nodes[p].depths
        above == IF p = <<>> THEN <<>> ELSE t.nodes[Front(p)].depths
        down == {w \in DOMAIN above : above[w] > 0}
    IN [w \in DOMAIN mine \cup down |-> IF w \in down THEN above[w] - 1 ELSE mine[w]]

RECURSIVE InitNode(_, _, _), OnDeleted(_, _), RecursiveWatch(_, _, _), RecursiveUnwatch(_, _, _)

\* Mutant of AddChild: nobody is told of the new directory.
AddChildSilently(t, p, action, dirOnly) ==
    IF dirOnly /\ disk[p] # "dir" THEN t ELSE InitNode(NewNode(t, p), p, "")

\* addChild(): with dirOnly, nothing is kept of a path that is no directory.
AddChild(t, p, action, dirOnly) ==
    IF dirOnly /\ disk[p] # "dir" THEN t ELSE InitNode(NewNode(t, p), p, action)

\* Mutant of InitEntry: the directories in a new directory get no nodes.
InitEntryOnlyTells(t, p, q, action) ==
    IF q \in DOMAIN t.nodes
    THEN Notify(InitNode(Stat(t, q), q, action), p, action, q, FALSE)
    ELSE Notify(t, p, action, q, FALSE)

\* What init() does with an entry of the directory.
InitEntry(t, p, q, action) ==
    IF q \in DOMAIN t.nodes
    THEN Notify(InitNode(Stat(t, q), q, action), p, action, q, FALSE)
    ELSE IF (\E w \in DOMAIN t.nodes[p].depths : t.nodes[p].depths[w] > 0) /\ disk[q] = "dir"
    THEN AddChild(t, q, action, TRUE)
    ELSE Notify(t, p, action, q, FALSE)

\* init(): the directory is watched and listed, and with an action the watchers are
\* told of it and of all that is in it.
InitNode(t, p, action) ==
    IF t.nodes[p].type = "dir"
    THEN LET watched == [t EXCEPT !.nodes[p].depths = Inherited(t, p),
                                  !.nodes[p].fswatcher = IF @ = 0 THEN inode[p] ELSE @,
                                  !.nodes[p].listed = TRUE,
                                  !.nodes[p].files = [q \in KidsOnDisk(p) |-> "listed"],
                                  !.stats.fswatchers = IF t.nodes[p].fswatcher = 0 THEN @ + 1 ELSE @]
             told == IF action = "add" THEN Notify(watched, p, action, p, TRUE) ELSE watched
         IN IF action = "" THEN told
            ELSE FoldLeft(LAMBDA acc, q : InitEntry(acc, p, q, action), told, SetToSeq(KidsOnDisk(p)))
    ELSE LET closed == CloseFSWatcher(t, p)
         IN IF action = "" THEN closed ELSE Notify(closed, p, action, p, FALSE)

\* Mutant of Prune: a child with watchers goes too.
PruneWatched(t, p) == IF Kids(t, p) = {} THEN Destroy(t, p) ELSE t

\* A child that has nobody left to tell goes away.
Prune(t, p) ==
    IF t.nodes[p].watchers = {} /\ Kids(t, p) = {} THEN Destroy(t, p) ELSE t

\* A child of the deleted directory is told that it is gone, unless it knows.
DeletedChild(t, q) ==
    Prune(IF t.nodes[q].type = "none" THEN t ELSE NotifyChildWatchers(OnDeleted(t, q), q, "delete"), q)

\* onDeleted(), for a node whose path did exist
OnDeleted(t, p) ==
    LET gone == CloseFSWatcher([t EXCEPT !.nodes[p].type = "none"], p)
        below == FoldLeft(DeletedChild, gone, SetToSeq(Kids(t, p)))
        told == FoldLeft(LAMBDA acc, q : Notify(acc, p, "delete", q, FALSE), below,
                         SetToSeq(DOMAIN t.nodes[p].files))
    IN [told EXCEPT !.nodes[p].files = <<>>, !.nodes[p].listed = FALSE]

RecursiveWatch(t, p, depth) ==
    IF t.nodes[p].type # "dir" \/ ~t.nodes[p].listed \/ depth = 0 THEN t
    ELSE FoldLeft(LAMBDA acc, q :
                    IF q \in DOMAIN acc.nodes THEN RecursiveWatch(acc, q, depth - 1)
                    ELSE IF disk[q] # "dir" THEN acc
                    ELSE RecursiveWatch(InitNode(NewNode(acc, q), q, ""), q, depth - 1),
                  t, SetToSeq(DOMAIN t.nodes[p].files))

RecursiveUnwatch(t, p, w) ==
    LET forgot == [t EXCEPT !.nodes[p].depths = [v \in DOMAIN @ \ {w} |-> @[v]]]
    IN IF t.nodes[p].type # "dir" \/ ~t.nodes[p].listed THEN forgot
       ELSE FoldLeft(LAMBDA acc, q : IF q \in DOMAIN acc.nodes THEN RecursiveUnwatch(acc, q, w) ELSE acc,
                     forgot, SetToSeq(DOMAIN t.nodes[p].files))

\* watch() and unwatch()
Watch(t, p, w) ==
    LET added == [t EXCEPT !.nodes[p].watchers = @ \cup {w}, !.stats.watchers = @ + 1]
    IN IF Recursive[w] = 0 THEN added
       ELSE RecursiveWatch([added EXCEPT !.nodes[p].depths =
              [v \in DOMAIN @ \cup {w} |-> IF v = w THEN Recursive[w] ELSE @[v]]], p, Recursive[w])

Unwatch(t, p, w) ==
    IF w \notin t.nodes[p].watchers THEN t
    ELSE LET gone == [t EXCEPT !.nodes[p].watchers = @ \ {w}, !.stats.watchers = @ - 1]
         IN IF Recursive[w] = 0 THEN gone ELSE RecursiveUnwatch(gone, p, w)

-------------------------------------------------------------------------------
(* register() and unregister()                                              *)
PathsTo(p) == [n \in 1..Len(p) + 1 |-> SubSeq(p, 1, n - 1)]

Register(t, p) ==
    FoldLeft(LAMBDA acc, q : IF q \in DOMAIN acc.nodes THEN acc ELSE AddChild(acc, q, "", FALSE), t, PathsTo(p))

\* From the node up, those that are no longer active go, up to the first that is: the
\* highest one takes the others with it.
Unregister(t, p, w) ==
    IF p \notin DOMAIN t.nodes THEN t
    ELSE LET left == Unwatch(t, p, w)
             Idle(q) == ~IsActive(left, q)
             gone == {n \in 0..Len(p) : \A m \in n..Len(p) : Idle(SubSeq(p, 1, m))}
         IN IF gone = {} \/ IsParentRecursive(left, p) THEN left
            ELSE Destroy(left, SubSeq(p, 1, CHOOSE n \in gone : \A m \in gone : n <= m))

-------------------------------------------------------------------------------
(* onFSEvent(), for a directory that still exists                           *)
OnFSEvent(t, p, q) ==
    LET known == q \in DOMAIN t.nodes[p].files
        action == IF disk[q] = "none" THEN "delete" ELSE IF known THEN "change" ELSE "add"
        seen == [t EXCEPT !.nodes[p].files =
                   IF action = "delete" THEN [r \in DOMAIN @ \ {q} |-> @[r]]
                   ELSE [r \in DOMAIN @ \cup {q} |-> IF r = q THEN "event" ELSE @[r]]]
    IN IF action = "delete" /\ ~known THEN t
       ELSE IF q \in DOMAIN t.nodes
       THEN Notify(IF action = "delete" THEN DeletedChild(seen, q) ELSE InitNode(Stat(seen, q), q, action),
                   p, action, q, FALSE)
       ELSE IF action = "add" /\ (IsRecursive(t, p) \/ IsParentRecursive(t, p)) /\ disk[q] = "dir"
       THEN AddChild(seen, q, "add", TRUE)
       ELSE Notify(seen, p, action, q, FALSE)

Becomes(t) == nodes' = t.nodes /\ stats' = t.stats /\ last' = t.sent

\* The operating system's event of an entry reaches the node that watches the
\* directory; a second event of an entry within 100 ms may be dropped.
Deliver ==
    LET e == Head(queue)
        Live == e.dir \in DOMAIN nodes /\ nodes[e.dir].fswatcher = e.inode /\ disk[e.dir] = "dir"
        Redundant == e.file \in DOMAIN nodes[e.dir].files /\ nodes[e.dir].files[e.file] = "event" /\ disk[e.file] # "none"
    IN /\ queue # <<>>
       /\ queue' = Tail(queue)
       /\ \/ Live /\ Becomes(OnFSEvent(Tree, e.dir, e.file))
          \/ (Live => Redundant) /\ last' = <<>> /\ UNCHANGED <<nodes, stats>>
       /\ UNCHANGED <<disk, inode, opened, hasty, changes, opens>>

\* A path is created, alone or with a tree of directories below it, deleted with all
\* below it, or changed: the watch of its directory has one event of it.
Change(p, kind) ==
    LET New(q) == IF q = p THEN (IF kind = "tree" THEN "dir" ELSE kind)
                  ELSE IF ~Below(p, q) \/ disk[p] = kind THEN disk[q]
                  ELSE IF kind = "tree" THEN "dir" ELSE "none"
    IN
    /\ changes < MaxChanges
    /\ p # <<>> /\ disk[Front(p)] = "dir"
    /\ IF disk[p] = "none" THEN kind # "none" ELSE kind \in {"none", disk[p]}
    /\ changes' = changes + 1
    /\ hasty' = (hasty \/ queue # <<>>)
    /\ disk' = [q \in Paths |-> New(q)]
    /\ inode' = [q \in Paths |-> IF disk[q] = "none" /\ New(q) # "none" THEN inode[q] + 1 ELSE inode[q]]
    /\ LET d == Front(p)
       IN queue' = IF d \in DOMAIN nodes /\ nodes[d].fswatcher = inode[d]
                   THEN Append(queue, [dir |-> d, inode |-> inode[d], file |-> p]) ELSE queue
    /\ last' = <<>>
    /\ UNCHANGED <<nodes, stats, opened, opens>>

\* new FSWatcher(), or open()
Open(w) ==
    /\ opens < MaxOpens /\ w \notin opened
    /\ opens' = opens + 1
    /\ opened' = opened \cup {w}
    /\ Becomes(Watch(Register(Tree, PathOf[w]), PathOf[w], w))
    /\ UNCHANGED <<disk, inode, queue, hasty, changes>>

Close(w) ==
    /\ w \in opened
    /\ opened' = opened \ {w}
    /\ Becomes(Unregister(Tree, PathOf[w], w))
    /\ UNCHANGED <<disk, inode, queue, hasty, changes, opens>>

Next ==
    \/ Deliver
    \/ \E p \in Paths, kind \in {"none", "file", "dir", "tree"} : Change(p, kind)
    \/ \E w \in Watchers : Open(w) \/ Close(w)

Spec == Init /\ [][Next]_vars

-------------------------------------------------------------------------------
TypeOK ==
    /\ DOMAIN nodes \subseteq Paths
    /\ \A p \in DOMAIN nodes :
         /\ nodes[p].type \in {"none", "file", "dir"}
         /\ nodes[p].watchers \subseteq Watchers /\ DOMAIN nodes[p].depths \subseteq Watchers
         /\ DOMAIN nodes[p].files \subseteq Paths
         /\ nodes[p].fswatcher \in Nat
    /\ opened \subseteq Watchers
    /\ stats \in [nodes : Nat, fswatchers : Nat, watchers : Nat]

\* Nothing leaks: the statistics count what there is (fswatcher.js:54-62), and every node
\* but the root has its parent, whatever happened to the disk.  (And every variable has
\* its type.)
NothingLeaks ==
    /\ TypeOK
    /\ stats = [nodes |-> Cardinality(DOMAIN nodes),
                fswatchers |-> Cardinality({p \in DOMAIN nodes : nodes[p].fswatcher # 0}),
                watchers |-> Cardinality(UNION {{<<p, w>> : w \in nodes[p].watchers} : p \in DOMAIN nodes})]
    /\ \A p \in DOMAIN nodes : p # <<>> => Front(p) \in DOMAIN nodes

\* When the events of the disk have been dealt with, each before the disk changed again,
\* the nodes agree with the disk: every directory among them is listed as it is and
\* watched in its present incarnation, and where a recursive watch reaches further down,
\* every directory below is a node too, the ones that were created or moved in later
\* included.
MirrorsDisk ==
    queue = <<>> /\ ~hasty =>
      \A p \in DOMAIN nodes :
        /\ nodes[p].type = disk[p]
        /\ nodes[p].fswatcher = IF disk[p] = "dir" THEN inode[p] ELSE 0
        /\ disk[p] = "dir" => DOMAIN nodes[p].files = KidsOnDisk(p)
        /\ (\E w \in DOMAIN nodes[p].depths : nodes[p].depths[w] > 0) =>
             \A q \in KidsOnDisk(p) : disk[q] = "dir" => q \in DOMAIN nodes

\* A watcher that is open keeps its node, until it is closed; only when the path of a
\* node above has ceased to be a directory does closing that one's watcher lose it
\* (isActive(), fswatcher.js:440, does not look at the children then).  And the last one
\* that is closed takes all nodes with it, unless a node above remembers a recursive watch
\* that was closed before: recursiveUnwatch() (fswatcher.js:709) looks for the nodes below
\* in a listing that may be out of date.
WatchersKept ==
    [][/\ \A w \in opened \cap opened' :
            LET p == PathOf[w] IN
            p \in DOMAIN nodes /\ w \in nodes[p].watchers =>
              \/ p \in DOMAIN nodes' /\ w \in nodes'[p].watchers
              \/ /\ opened' # opened
                 /\ \E q \in DOMAIN nodes : Below(q, p) /\ nodes[q].type # "dir"
       /\ \A w \in Watchers : opened = {w} /\ opened' = {} =>
            \/ nodes' = <<>>
            \/ \E q \in DOMAIN nodes' : Below(q, PathOf[w]) /\ DOMAIN nodes'[q].depths # {}]_vars

\* The watchers of a directory are told of each event of an entry, once when the entry has
\* no node of its own.  The exception is a directory that only a recursive watch opened
\* later covers: its own watchers miss the directories created in it (notify(),
\* fswatcher.js:479, passes over a node that is neither the current nor recursive).
ToldOfEntries ==
    [][Len(queue') < Len(queue) /\ (last' # <<>> \/ nodes' # nodes) =>
         LET e == Head(queue)
             Told(w) == {i \in 1..Len(last') : last'[i].file = e.file /\ w \in last'[i].to}
         IN IsRecursive(Tree, e.dir) \/ ~IsParentRecursive(Tree, e.dir) =>
              \A w \in nodes[e.dir].watchers :
                /\ Told(w) # {}
                /\ e.file \notin DOMAIN nodes => Cardinality(Told(w)) = 1]_vars
=============================================================================
