----------------------------- MODULE PluginActivity -----------------------------
(***************************************************************************)
(* The inactivity timer of an external plugin: Plugin.dispatch(), its      *)
(* resetTimer() and Plugin.stop() (packages/appcd-plugin/src/plugin.js),   *)
(* and the start() with which the plugin manager precedes every dispatch   *)
(* (plugin-manager.js).                                                    *)
(*                                                                         *)
(* resetTimer() is asynchronous: it may have to ask the config service for *)
(* the timeout, and nobody awaits it.  Time is counted in ticks, relative  *)
(* to the two things that matter: the ticks a pending timer has left, and  *)
(* the ticks since the last request.                                       *)
(***************************************************************************)
EXTENDS Naturals, FiniteSets

CONSTANTS
    Requests,  \* bound: requests at one time
    Timers,    \* bound: pending timers at one time
    None,      \* no timer
    Timeout,   \* the inactivity timeout, in ticks
    Streams,   \* a request may be answered with a stream
    Interrupts \* the plugin may stop, or its host exit, while it has requests

ASSUME PAAssumption ==
    /\ None \notin Timers
    /\ Timeout \in Nat \ {0}
    /\ Streams \in BOOLEAN /\ Interrupts \in BOOLEAN

VARIABLES
    started,          \* info.state = STARTED
    activeRequests,
    inactivityTimer,
    req,              \* request -> what it is at
    resetting,        \* the requests whose resetTimer() awaits the timeout
    left,             \* pending timer -> the ticks it has left
    idle              \* the ticks since a request was dispatched, up to Timeout

vars == <<started, activeRequests, inactivityTimer, req, resetting, left, idle>>

-------------------------------------------------------------------------------
Init ==
    /\ started = FALSE
    /\ activeRequests = 0
    /\ inactivityTimer = None
    /\ req = [r \in Requests |-> "none"]
    /\ resetting = {}
    /\ left = [t \in {} |-> 0]
    /\ idle = 0

Pending == DOMAIN left
Without(f, t) == [x \in (DOMAIN f) \ {t} |-> f[x]]

\* clearTimeout(this.inactivityTimer); this.inactivityTimer = null
ClearTimer(timers) ==
    /\ left' = Without(timers, inactivityTimer)
    /\ inactivityTimer' = None

Start ==
    /\ ~started
    /\ started' = TRUE
    /\ UNCHANGED <<activeRequests, inactivityTimer, req, resetting, left, idle>>

\* Mutant of Dispatch: the timer of the request before goes on.
DispatchKeepsTimer(r) ==
    /\ started \/ Interrupts
    /\ req[r] = "none" /\ r \notin resetting
    /\ req' = [req EXCEPT ![r] = "running"]
    /\ activeRequests' = activeRequests + 1
    /\ idle' = 0
    /\ UNCHANGED <<started, resetting, left, inactivityTimer>>

\* dispatch(), once start() has returned: it also does when the plugin has been
\* stopped meanwhile.
Dispatch(r) ==
    /\ started \/ Interrupts
    /\ req[r] = "none" /\ r \notin resetting
    /\ req' = [req EXCEPT ![r] = "running"]
    /\ activeRequests' = activeRequests + 1
    /\ ClearTimer(left)
    /\ idle' = 0
    /\ UNCHANGED <<started, resetting>>

\* impl.dispatch() settled: with a value or an error, the request is over.
Answer(r) ==
    /\ req[r] = "running"
    /\ req' = [req EXCEPT ![r] = "none"]
    /\ activeRequests' = activeRequests - 1
    /\ resetting' = resetting \cup {r}
    /\ UNCHANGED <<started, inactivityTimer, left, idle>>

\* Mutant of AnswerStream: the request is counted as over at once.
AnswerStreamIsOver(r) ==
    /\ Streams
    /\ req[r] = "running"
    /\ req' = [req EXCEPT ![r] = "streaming"]
    /\ activeRequests' = activeRequests - 1
    /\ resetting' = resetting \cup {r}
    /\ UNCHANGED <<started, inactivityTimer, left, idle>>

\* With a stream it is over when the stream has ended.
AnswerStream(r) ==
    /\ Streams
    /\ req[r] = "running"
    /\ req' = [req EXCEPT ![r] = "streaming"]
    /\ resetting' = resetting \cup {r}
    /\ UNCHANGED <<started, activeRequests, inactivityTimer, left, idle>>

StreamEnd(r) ==
    /\ req[r] = "streaming"
    /\ req' = [req EXCEPT ![r] = "none"]
    /\ activeRequests' = activeRequests - 1
    /\ UNCHANGED <<started, inactivityTimer, resetting, left, idle>>

\* Mutant of ResetTimer: the timer is only set when there is none.
ResetTimerOnce(r) ==
    /\ r \in resetting
    /\ resetting' = resetting \ {r}
    /\ IF started /\ inactivityTimer = None
       THEN \E t \in Timers \ Pending :
              /\ left' = [x \in Pending \cup {t} |-> IF x = t THEN Timeout ELSE left[x]]
              /\ inactivityTimer' = t
       ELSE UNCHANGED <<left, inactivityTimer>>
    /\ UNCHANGED <<started, activeRequests, req, idle>>

\* The rest of resetTimer(): the timer it sets replaces, and does not clear, the
\* one it finds.
ResetTimer(r) ==
    /\ r \in resetting
    /\ resetting' = resetting \ {r}
    /\ IF started
       THEN \E t \in Timers \ Pending :
              /\ left' = [x \in Pending \cup {t} |-> IF x = t THEN Timeout ELSE left[x]]
              /\ inactivityTimer' = t
       ELSE UNCHANGED <<left, inactivityTimer>>
    /\ UNCHANGED <<started, activeRequests, req, idle>>

Tick ==
    /\ started \/ Pending # {}
    /\ left' = [t \in Pending |-> IF left[t] = 0 THEN 0 ELSE left[t] - 1]
    /\ idle' = IF idle = Timeout THEN Timeout ELSE idle + 1
    /\ <<left', idle'>> # <<left, idle>>
    /\ UNCHANGED <<started, activeRequests, inactivityTimer, req, resetting>>

\* Mutant of Fire: it does not look for active requests.
FireAlways(t) ==
    /\ t \in Pending /\ left[t] = 0
    /\ ClearTimer(Without(left, t))
    /\ started' = FALSE
    /\ UNCHANGED <<activeRequests, req, resetting, idle>>

\* The timer elapses: an idle plugin is stopped, a busy one left alone.
Fire(t) ==
    /\ t \in Pending /\ left[t] = 0
    /\ IF activeRequests = 0
       THEN ClearTimer(Without(left, t)) /\ started' = FALSE
       ELSE left' = Without(left, t) /\ UNCHANGED <<inactivityTimer, started>>
    /\ UNCHANGED <<activeRequests, req, resetting, idle>>

\* What the plugin host had not answered it will not answer; a stream ends.
Lost == [r \in Requests |-> IF req[r] = "running" THEN "lost" ELSE req[r]]

\* stop() of anybody else, of a plugin that is started or not.
Stop ==
    /\ started \/ inactivityTimer # None
    /\ Interrupts \/ activeRequests = 0
    /\ started' = FALSE
    /\ ClearTimer(left)
    /\ req' = IF started THEN Lost ELSE req
    /\ UNCHANGED <<activeRequests, resetting, idle>>

\* The plugin host exits.
Crash ==
    /\ Interrupts
    /\ started
    /\ started' = FALSE
    /\ req' = Lost
    /\ UNCHANGED <<activeRequests, inactivityTimer, resetting, left, idle>>

Next ==
    \/ \E r \in Requests :
         Dispatch(r) \/ Answer(r) \/ AnswerStream(r) \/ StreamEnd(r) \/ ResetTimer(r)
    \/ \E t \in Timers : Fire(t)
    \/ Start \/ Tick \/ Stop \/ Crash

Spec == Init /\ [][Next]_vars

\* Time passes, timers fire and the config service answers.
Fairness ==
    /\ WF_vars(Tick)
    /\ \A t \in Timers : WF_vars(Fire(t))
    /\ \A r \in Requests : WF_vars(ResetTimer(r))

FairSpec == Spec /\ Fairness

-------------------------------------------------------------------------------
\* Every variable has its type.
TypeOK ==
    /\ started \in BOOLEAN
    /\ activeRequests \in 0..Cardinality(Requests)
    /\ inactivityTimer \in Timers \cup {None}
    /\ req \in [Requests -> {"none", "running", "streaming", "lost"}]
    /\ resetting \subseteq Requests
    /\ Pending \subseteq Timers /\ left \in [Pending -> 0..Timeout]
    /\ idle \in 0..Timeout

\* activeRequests counts the requests that have not been answered, and those whose
\* stream goes on.
ActiveRequestsExact == activeRequests = Cardinality({r \in Requests : req[r] # "none"})

\* Inactivity never stops a plugin that is answering a request.
NeverStopsBusy ==
    [][\A t \in Timers : Fire(t) /\ started /\ ~started' =>
         \A r \in Requests : req[r] \notin {"running", "streaming"}]_vars

\* "The number of milliseconds to wait since the last request to the plugin before
\* it's automatically deactivated" (Plugin System.md:268): no plugin is stopped
\* for inactivity before.
NotBeforeTimeout ==
    [][\A t \in Timers : Fire(t) /\ started /\ ~started' => idle = Timeout]_vars

\* The same sentence: a plugin whose timer is set, or about to be, is stopped unless
\* a request comes first.  (A plugin need not have one: see the README.)
Quiet == \A r \in Requests : req[r] = "none"

IdleStops ==
    started /\ Quiet /\ (Pending # {} \/ resetting # {}) ~> ~started \/ ~Quiet

=============================================================================
