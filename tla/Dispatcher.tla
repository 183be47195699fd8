------------------------------- MODULE Dispatcher -------------------------------
(***************************************************************************)
(* How a call finds its handler: Dispatcher                                *)
(* (packages/appcd-dispatcher/src/dispatcher.js).  The routes are tried in *)
(* the order they were registered in.  A handler may await something, then *)
(* pass the call on with next(): meanwhile routes come and go, but the     *)
(* call goes on by its index.                                              *)
(***************************************************************************)
EXTENDS Integers, Sequences, SequencesExt, FiniteSetsExt

CONSTANTS
    Calls,
    Handlers,
    Kind,     \* handler -> "pass" if it calls next(), "nested" if it is a Dispatcher, ...
    Matches,  \* handler -> the calls whose path its route matches
    Lost,     \* the handlers that unregister() does not find again
    MaxRoutes \* bound on a list of routes

DIAssumption ==
    /\ Matches \in [Handlers -> SUBSET Calls] /\ DOMAIN Kind = Handlers
    /\ Lost \subseteq Handlers /\ MaxRoutes \in Nat
    /\ Handlers \cap {"root", "none", "waiting", "not found"} = {}

VARIABLES
    routes,  \* dispatcher -> its routes; a nested dispatcher goes by its handler
    frame,   \* call -> the dispatcher it is in, and its index there
    result,  \* call -> what it came to
    passed,  \* call -> the handlers that passed it on
    since,   \* call -> the routes that have been there since it began
    shifted  \* the calls whose index no longer stands for the route it did

diVars == <<routes, frame, result, passed, since, shifted>>

Nested == {h \in Handlers : Kind[h] = "nested"}
Dispatchers == {"root"} \cup Nested
Pending == {c \in Calls : result[c] = "waiting"}

DITypeOK ==
    /\ \A d \in Dispatchers : routes[d] \in Seq(Handlers) /\ Len(routes[d]) <= MaxRoutes
    /\ frame \in [Calls -> [in : Dispatchers, at : 0..MaxRoutes]]
    /\ result \in [Calls -> Handlers \cup {"none", "waiting", "not found"}]
    /\ passed \in [Calls -> SUBSET Handlers]
    /\ since \in [Calls -> SUBSET (Dispatchers \X Handlers)] /\ shifted \subseteq Calls

NestedOnce(of) == \A d \in Nested : Range(of[d]) \cap Nested = {}

\* The routes of which the dispatchers are made before the first call
Started(of) ==
    /\ routes = of
    /\ frame = [c \in Calls |-> [in |-> "root", at |-> 0]]
    /\ result = [c \in Calls |-> "none"] /\ passed = [c \in Calls |-> {}]
    /\ since = [c \in Calls |-> {}] /\ shifted = {}
-------------------------------------------------------------------------------
\* The first route from i on that matches, or 0
FirstFrom(d, i, c) ==
    LET found == {j \in i..Len(routes[d]) : c \in Matches[routes[d][j]]}
    IN IF found = {} THEN 0 ELSE Min(found)

\* A nested dispatcher begins with the first of its own routes, and the call does not
\* come back from it.  Bound: there is none in it (NestedOnce).
Land(d, i, c) ==
    LET j == FirstFrom(d, i, c)
    IN IF j # 0 /\ Kind[routes[d][j]] = "nested"
         THEN [in |-> routes[d][j], at |-> FirstFrom(routes[d][j], 1, c)]
         ELSE [in |-> d, at |-> j]

\* dispatch(i)
Dispatch(d, i, c) ==
    LET f == Land(d, i, c)
        h == routes[f.in][f.at]
        goesOn == f.at # 0 /\ Kind[h] = "pass"
    IN /\ frame' = [frame EXCEPT ![c] = f]
       /\ result' = [result EXCEPT ![c] = IF f.at = 0 THEN "not found" ELSE IF goesOn THEN "waiting" ELSE h]
       /\ passed' = [passed EXCEPT ![c] = IF goesOn THEN @ \cup {h} ELSE @]

\* call(path, payload)
Call(c) ==
    /\ result[c] = "none"
    /\ Dispatch("root", 1, c)
    /\ since' = [since EXCEPT ![c] = UNION {{d} \X Range(routes[d]) : d \in Dispatchers}]
    /\ UNCHANGED <<routes, shifted>>

\* Mutant of Next: the index is advanced once by the handler, and once by next().
NextSkipsOne(c) ==
    /\ result[c] = "waiting"
    /\ Dispatch(frame[c].in, frame[c].at + 2, c)
    /\ UNCHANGED <<routes, since, shifted>>

\* next(): once for each handler, whatever it does
Next(c) ==
    /\ result[c] = "waiting"
    /\ Dispatch(frame[c].in, frame[c].at + 1, c)
    /\ UNCHANGED <<routes, since, shifted>>

\* register(path, handler)
Register(d, h) ==
    /\ Len(routes[d]) < MaxRoutes /\ (h \in Nested => d = "root")
    /\ routes' = [routes EXCEPT ![d] = Append(@, h)]
    /\ UNCHANGED <<frame, result, passed, since, shifted>>

\* unregister(path, handler): the first route that is found, if any is.  It looks for
\* the handler of a ServiceDispatcher among the ServiceDispatchers.
Unregister(d, h) ==
    LET found == {j \in 1..Len(routes[d]) : routes[d][j] = h /\ h \notin Lost}
    IN /\ found # {}
       /\ routes' = [routes EXCEPT ![d] = RemoveAt(@, Min(found))]
       /\ since' = [c \in Calls |-> since[c] \ {<<d, h>>}]
       /\ shifted' = shifted \cup {c \in Pending : frame[c].in = d /\ Min(found) <= frame[c].at}
       /\ UNCHANGED <<frame, result, passed>>

DIStep ==
    \/ \E c \in Calls : Call(c) \/ Next(c)
    \/ \E d \in Dispatchers, h \in Handlers : Register(d, h) \/ Unregister(d, h)

DISpec == Started([d \in Dispatchers |-> <<>>]) /\ [][DIStep]_diVars
-------------------------------------------------------------------------------
\* No route is passed over: where a call ends, with a handler or without, each route
\* before it that matches and has been there since the call began has passed the call
\* on.  Except when a route was unregistered in front of the one that awaited: then
\* next() goes on one route too far.
NoneIsSkipped ==
    [][\A c \in Calls :
         LET f == frame'[c]
             last == IF f.at = 0 THEN Len(routes[f.in]) ELSE f.at - 1
         IN result'[c] # result[c] /\ c \notin shifted =>
              \A j \in 1..last :
                LET h == routes[f.in][j]
                IN c \in Matches[h] /\ <<f.in, h>> \in since'[c] => h \in passed'[c]]_diVars
=============================================================================
