--------------------------- MODULE SubprocessManager ---------------------------
(***************************************************************************)
(* The service that spawns processes for others: SubprocessManager         *)
(* (packages/appcd-subprocess-manager/src/index.js) and spawn()            *)
(* (packages/appcd-subprocess/src/index.js).                               *)
(*                                                                         *)
(* A request of '/spawn' ends with one child at most, so that a child goes *)
(* by its request.  The output of a child, what it is sent, and the        *)
(* processes that it spawns itself are left out.                           *)
(***************************************************************************)
EXTENDS Integers, FiniteSets

CONSTANTS
    Spawns,      \* the requests of '/spawn'
    Stubborn,    \* those whose child ignores SIGTERM
    Untouchable, \* those whose child the daemon has no permission to signal
    MaxTries     \* how often ETXTBSY is retried (5 in the code)

SMAssumption == MaxTries \in Nat \ {0}

VARIABLES
    spawn,    \* what became of the request
    tries,    \* the attempts it has left
    child,    \* its child process
    sent,     \* the signals that child was sent
    listed,   \* subprocesses.data: the children that the manager knows to run
    known,    \* the children whose 'close' event the manager listens for
    response, \* the stream of the request, and who ended it
    trees,    \* calls of kill() that wait for psTree()
    kills,    \* the promises of proc.kill() that shutdown() waits for
    timers,   \* their timers
    shutdown  \* the call of shutdown()

smVars == <<spawn, tries, child, sent, listed, known, response, trees, kills, timers, shutdown>>

Signals == {"SIGTERM", "SIGKILL"}
Running(r) == child[r] = "running"

\* What may come of a call of child_process.spawn(): a child, none (an 'error'
\* event follows), or an exception.
Outcomes == {"spawned", "no pid", "ETXTBSY", "invalid"}

SMTypeOK ==
    /\ spawn \in [Spawns -> {"none", "trying", "sleeping", "no pid", "unheard", "resolved", "rejected"}]
    /\ tries \in [Spawns -> 0..MaxTries]
    /\ child \in [Spawns -> {"none", "running", "exited", "closed"}]
    /\ sent \in [Spawns -> SUBSET Signals]
    /\ listed \subseteq Spawns /\ known \subseteq Spawns
    /\ response \in [Spawns -> {"open", "left", "ended"}]
    /\ trees \subseteq [of : Spawns, signal : Signals, by : {"call", "shutdown"}]
    /\ kills \in [Spawns -> {"none", "pending", "resolved", "rejected"}]
    /\ timers \subseteq Spawns
    /\ shutdown \in {"none", "waiting", "done", "failed"}

Init ==
    /\ spawn = [r \in Spawns |-> "none"] /\ tries = [r \in Spawns |-> MaxTries]
    /\ child = [r \in Spawns |-> "none"] /\ sent = [r \in Spawns |-> {}]
    /\ listed = {} /\ known = {} /\ response = [r \in Spawns |-> "open"]
    /\ trees = {} /\ kills = [r \in Spawns |-> "none"] /\ timers = {}
    /\ shutdown = "none"
-------------------------------------------------------------------------------
\* '/spawn', or '/spawn/node' once the Node.js executable is there.
Spawn(r) ==
    /\ spawn[r] = "none"
    /\ spawn' = [spawn EXCEPT ![r] = "trying"]
    /\ UNCHANGED <<tries, child, sent, listed, known, response, trees, kills, timers, shutdown>>

\* Mutant of Track: the child is listed when its first output arrives.
TrackUnlisted(r) == known' = known \cup {r} /\ UNCHANGED listed

\* The process is listed, and its 'close' event listened for.
Track(r) ==
    /\ known' = known \cup {r}
    /\ listed' = listed \cup {r}

MayRetry(r) == tries[r] > 1

\* trySpawn().  The catch() handler that retries returns nothing: the then() that
\* follows fails on the result, whatever came of the retry, and rejects the request.
\* It was to listen for the child's 'error' event, which nobody hears then.
TrySpawn(r, outcome) ==
    LET first == tries[r] = MaxTries IN
    /\ spawn[r] = "trying"
    /\ tries' = [tries EXCEPT ![r] = @ - 1]
    /\ spawn' = [spawn EXCEPT ![r] =
         CASE outcome = "ETXTBSY" /\ MayRetry(r) -> "sleeping"
           [] outcome = "spawned" /\ first -> "resolved"
           [] outcome = "no pid" -> IF first THEN "no pid" ELSE "unheard"
           [] OTHER -> "rejected"]
    /\ child' = [child EXCEPT ![r] = IF outcome = "spawned" THEN "running" ELSE @]
    /\ IF outcome = "spawned" /\ first THEN Track(r) ELSE UNCHANGED <<listed, known>>
    /\ UNCHANGED <<sent, response, trees, kills, timers, shutdown>>

Retry(r) ==
    /\ spawn[r] = "sleeping"
    /\ spawn' = [spawn EXCEPT ![r] = "trying"]
    /\ UNCHANGED <<tries, child, sent, listed, known, response, trees, kills, timers, shutdown>>

\* The 'error' event of a child without a pid: the listener rejects the request; with
\* none, the event is an uncaught exception, which main.js only logs.
SpawnError(r) ==
    /\ spawn[r] \in {"no pid", "unheard"}
    /\ spawn' = [spawn EXCEPT ![r] = "rejected"]
    /\ UNCHANGED <<tries, child, sent, listed, known, response, trees, kills, timers, shutdown>>

Signalled(r, signal) ==
    sent' = [sent EXCEPT ![r] = IF Running(r) /\ r \notin Untouchable THEN @ \cup {signal} ELSE @]

\* The other end closes the response stream: the child is killed.
ResponseEnd(r) ==
    /\ spawn[r] = "resolved" /\ response[r] = "open"
    /\ response' = [response EXCEPT ![r] = "left"]
    /\ Signalled(r, "SIGTERM")
    /\ UNCHANGED <<spawn, tries, child, listed, known, trees, kills, timers, shutdown>>

\* A child comes to its end, by itself or by a signal.
Exit(r) ==
    /\ Running(r)
    /\ child' = [child EXCEPT ![r] = "exited"]
    /\ UNCHANGED <<spawn, tries, sent, listed, known, response, trees, kills, timers, shutdown>>

Settle(r, how) == kills' = [kills EXCEPT ![r] = IF @ = "pending" THEN how ELSE @]

\* child.once('close'), and the 'exit' listeners of proc.kill().
Close(r) ==
    /\ child[r] = "exited" /\ r \in known
    /\ child' = [child EXCEPT ![r] = "closed"]
    /\ listed' = listed \ {r}
    /\ response' = [response EXCEPT ![r] = IF @ = "open" THEN "ended" ELSE @]
    /\ Settle(r, "resolved") /\ timers' = timers \ {r}
    /\ UNCHANGED <<spawn, tries, sent, known, trees, shutdown>>
-------------------------------------------------------------------------------
\* '/kill/:pid' with the default signal; bound: one such call at a time.
KillCall(r) ==
    /\ child[r] # "none" /\ \A t \in trees : t.by # "call"
    /\ trees' = trees \cup {[of |-> r, signal |-> "SIGTERM", by |-> "call"]}
    /\ UNCHANGED <<spawn, tries, child, sent, listed, known, response, kills, timers, shutdown>>

\* psTree() calls back, and kill() sends the signal.  For shutdown(), a process that
\* is not found settles proc.kill(), one that may not be signalled rejects it, and
\* SIGKILL settles it at once.
KillTree(t) ==
    LET r == t.of
        denied == Running(r) /\ r \in Untouchable
        forced == t.signal = "SIGKILL"
    IN /\ t \in trees
       /\ trees' = trees \ {t}
       /\ Signalled(r, t.signal)
       /\ IF t.by = "shutdown" /\ (denied \/ ~Running(r) \/ forced)
            THEN /\ Settle(r, IF denied THEN "rejected" ELSE "resolved")
                 /\ timers' = timers \ {r}
            ELSE UNCHANGED <<kills, timers>>
       /\ UNCHANGED <<spawn, tries, child, listed, known, response, shutdown>>

\* The timer of proc.kill(forceTimeout)
ForceKill(r) ==
    /\ r \in timers
    /\ timers' = timers \ {r}
    /\ trees' = trees \cup {[of |-> r, signal |-> "SIGKILL", by |-> "shutdown"]}
    /\ UNCHANGED <<spawn, tries, child, sent, listed, known, response, kills, shutdown>>

\* shutdown(): proc.kill(2000) of every process on the list.
Shutdown ==
    /\ shutdown = "none"
    /\ shutdown' = "waiting"
    /\ kills' = [r \in Spawns |-> IF r \in listed THEN "pending" ELSE kills[r]]
    /\ timers' = listed
    /\ trees' = trees \cup {[of |-> r, signal |-> "SIGTERM", by |-> "shutdown"] : r \in listed}
    /\ UNCHANGED <<spawn, tries, child, sent, listed, known, response>>

\* Mutant of ShutdownSettles: shutdown() does not wait for the processes.
ShutdownSettlesAtOnce ==
    /\ shutdown = "waiting"
    /\ shutdown' = "done" /\ listed' = {}
    /\ UNCHANGED <<spawn, tries, child, sent, known, response, trees, kills, timers>>

\* Promise.all() settles.  The whole list is cleared, and what was spawned meanwhile
\* with it.
ShutdownSettles ==
    /\ shutdown = "waiting"
    /\ \/ /\ \E r \in Spawns : kills[r] = "rejected"
          /\ shutdown' = "failed" /\ UNCHANGED listed
       \/ /\ \A r \in Spawns : kills[r] \in {"none", "resolved"}
          /\ shutdown' = "done" /\ listed' = {}
    /\ UNCHANGED <<spawn, tries, child, sent, known, response, trees, kills, timers>>
-------------------------------------------------------------------------------
Requests == \E r \in Spawns : Spawn(r) \/ ResponseEnd(r) \/ KillCall(r)

Work ==
    \/ \E r \in Spawns :
         \/ \E o \in Outcomes : TrySpawn(r, o)
         \/ Retry(r) \/ SpawnError(r) \/ Close(r) \/ ForceKill(r)
    \/ \E t \in trees : KillTree(t)
    \/ ShutdownSettles

Exits == \E r \in Spawns : Exit(r)

Next == Requests \/ Work \/ Exits \/ Shutdown

Spec == Init /\ [][Next]_smVars
-------------------------------------------------------------------------------
\* A child that was asked to exit and does not refuse to.
Doomed(r) == Running(r) /\ ((sent[r] # {} /\ r \notin Stubborn) \/ "SIGKILL" \in sent[r])

\* The list holds the children that run, and nothing else: except those whose spawn
\* was retried (their request fails, and nobody knows of them), and, once shutdown()
\* has cleared the list, those that were spawned while it waited.
ListIsExact ==
    /\ \A r \in listed : r \in known /\ child[r] \in {"running", "exited"}
    /\ \A r \in Spawns :
         Running(r) /\ r \notin listed => tries[r] < MaxTries - 1 \/ shutdown = "done"

\* Whoever shutdown() waited for has exited or has been sent SIGKILL when it is done,
\* so that what runs on is what it never knew of.
ShutdownReachesAll ==
    shutdown = "done" =>
      \A r \in Spawns :
        kills[r] # "none" /\ Running(r) => "SIGKILL" \in sent[r]

\* What runs is in the list, as far as the manager can know, and shutdown() lets nobody
\* in it run on that could be stopped.
SpawnsAreListed == ListIsExact /\ ShutdownReachesAll
=============================================================================
