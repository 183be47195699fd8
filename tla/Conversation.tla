------------------------------ MODULE Conversation ------------------------------
(***************************************************************************)
(* The requests of a Client to the daemon, from request() to the handler   *)
(* of a route and back: Client, WebSocketSession, Dispatcher and           *)
(* DataService are the modules of that name.  The websocket of the client  *)
(* and that of the server are the two ends of a connection, that may end   *)
(* at any time; what is under way is lost then.                            *)
(*                                                                         *)
(* A behaviour has one focus: "connect", where the daemon may be down and  *)
(* requests are calls; "feed" and "stream", where it is up and responses   *)
(* are subscriptions and other streams, over one socket; or "routes",      *)
(* where routes come and go under the calls.                               *)
(***************************************************************************)
EXTENDS Integers, Sequences, FiniteSets

CONSTANTS
    Requests, Sockets, StartsDaemon, MaxStarts,    \* Client
    Handlers, Kind, Matches, Lost, MaxRoutes,      \* Dispatcher
    Keys, Filter, MaxChanges,                      \* DataService
    InitialRoutes,                                 \* focus -> the routes before the first request
    Plugged,                                       \* the handlers that come and go
    MaxChunks                                      \* bound on other streams

VARIABLES focus, chunks
VARIABLES phase, socket, link, opener, sentOn, handler, heard, latest, appcd, daemon, starts
VARIABLES peer, up, down, session, over, told, first, pubsub
VARIABLES routes, frame, result, passed, since, shifted
VARIABLES data, topics, watches, queue, ended

CL == INSTANCE Client
WS == INSTANCE WebSocketSession
DI == INSTANCE Dispatcher WITH Calls <- Requests
DS == INSTANCE DataService

Focuses == {"connect", "feed", "stream", "routes"}

ASSUME CVAssumption ==
    /\ CL!CLAssumption /\ DI!DIAssumption /\ DS!DSAssumption
    /\ \A f \in Focuses : /\ InitialRoutes[f] \in [DI!Dispatchers -> Seq(Handlers)]
                          /\ \A d \in DI!Dispatchers : Len(InitialRoutes[f][d]) <= MaxRoutes
                          /\ DI!NestedOnce(InitialRoutes[f])
    /\ Plugged \subseteq Handlers /\ MaxChunks \in Nat

clVars == <<phase, socket, link, opener, sentOn, handler, heard, latest, appcd, daemon, starts>>
ownVars == <<peer, session, over, told, first, pubsub>>
diVars == <<routes, frame, result, passed, since, shifted>>
dsVars == <<data, topics, watches, queue, ended>>
net == <<up, down>>
vars == <<focus, chunks, clVars, ownVars, net, diVars, dsVars>>

CVTypeOK ==
    /\ focus \in Focuses
    /\ chunks \in [Requests -> 0..MaxChunks]

Init ==
    /\ focus \in Focuses
    /\ chunks = [r \in Requests |-> 0]
    /\ CL!New /\ daemon \in {"up", "down"} /\ (focus # "connect" => daemon = "up")
    /\ WS!Unopened /\ DI!Started(InitialRoutes[focus]) /\ DS!Fresh
-------------------------------------------------------------------------------
Client(A) == A /\ UNCHANGED <<focus, chunks, ownVars, diVars, dsVars>>

\* The handler that the call of r came to, and what it does with the call
Reached(r, kind) == result[r] \in Handlers /\ Kind[result[r]] = kind
ServerOnly == UNCHANGED <<focus, chunks, clVars>>

\* The websocket of the server opens with that of the client.
Connected(s) ==
    /\ CL!Opened(s)
    /\ peer' = [peer EXCEPT ![s] = "open"]
    /\ UNCHANGED <<focus, chunks, session, over, told, first, pubsub, diVars, dsVars>>

Receive(s, r) ==
    /\ WS!Receive(s, r) /\ DI!Call(r)
    /\ ServerOnly /\ UNCHANGED dsVars

\* A handler that awaits something passes the call on.
PassOn(r) ==
    /\ session[r] = "calling" /\ DI!Next(r)
    /\ ServerOnly /\ UNCHANGED <<ownVars, net, dsVars>>

\* The call has come to an end; onCall(), or no route, or a handler that throws
Reply(r) ==
    /\ \/ Reached(r, "data") /\ DS!Get(Filter[r]) # 0 /\ WS!Answer(r, "value", DS!Get(Filter[r]))
       \/ Reached(r, "data") /\ DS!Get(Filter[r]) = 0 /\ WS!Answer(r, "error", 0)
       \/ (result[r] = "not found" \/ Reached(r, "throw")) /\ WS!Answer(r, "error", 0)
    /\ ServerOnly /\ UNCHANGED <<diVars, dsVars>>

\* A subscription, whose handler has begun to write before the session reads, ...
Subscribe(r) ==
    /\ Reached(r, "subscribe") /\ WS!ReadStream(r) /\ DS!Subscribe(r)
    /\ ServerOnly /\ UNCHANGED <<diVars>>

\* ... or some other stream
OpenStream(r) ==
    /\ Reached(r, "stream") /\ WS!ReadStream(r)
    /\ ServerOnly /\ UNCHANGED <<diVars, dsVars>>

Write(r) ==
    /\ Reached(r, "stream") /\ session[r] = "reading" /\ ended[r] = "open" /\ chunks[r] < MaxChunks
    /\ chunks' = [chunks EXCEPT ![r] = @ + 1]
    /\ queue' = [queue EXCEPT ![r] = Append(@, DS!Message("chunk", 0))]
    /\ UNCHANGED <<focus, clVars, ownVars, net, diVars, data, topics, watches, ended>>

WriterEnds(r, how) ==
    /\ Reached(r, "stream") /\ session[r] = "reading" /\ ended[r] = "open"
    /\ ended' = [ended EXCEPT ![r] = how]
    /\ ServerOnly /\ UNCHANGED <<ownVars, net, diVars, data, topics, watches, queue>>

Streams(r) ==
    /\ WS!Data(r) \/ WS!End(r) \/ WS!Error(r)
    /\ ServerOnly /\ UNCHANGED <<diVars, data, topics, watches>>

SetData(k) ==
    /\ focus = "feed" /\ DS!SetData(k)
    /\ ServerOnly /\ UNCHANGED <<ownVars, net, diVars>>

\* The client asks for its subscription to be ended.
Unsubscribe(r) ==
    /\ session[r] = "reading" /\ "response" \in {heard[r][i] : i \in 1..Len(heard[r])}
    /\ peer[over[r]] = "open" /\ DS!Unsubscribe(r)
    /\ ServerOnly /\ UNCHANGED <<ownVars, net, diVars>>

CleanUp(r) ==
    /\ DS!CleanUp(r)
    /\ ServerOnly /\ UNCHANGED <<ownVars, net, diVars>>

\* The server learns that the connection has ended.
Hangup(s) ==
    /\ peer[s] = "open" /\ link[s] \in {"cut", "closed"} /\ WS!Closed(s)
    /\ ServerOnly /\ UNCHANGED <<diVars, data, topics, watches>>

\* The daemon ends, and its sockets with it: nothing of it is left.
DaemonStops ==
    /\ focus = "connect" /\ daemon = "up" /\ starts < MaxStarts
    /\ daemon' = "down"
    /\ link' = [s \in Sockets |-> IF link[s] = "open" THEN "cut" ELSE link[s]]
    /\ peer' = [s \in Sockets |-> IF peer[s] = "open" THEN "closed" ELSE peer[s]]
    /\ up' = [s \in Sockets |-> <<>>] /\ down' = [s \in Sockets |-> <<>>]
    /\ session' = [r \in Requests |-> IF session[r] = "none" THEN "none" ELSE "done"]
    /\ UNCHANGED <<focus, chunks, phase, socket, opener, sentOn, handler, heard, latest, appcd, starts,
                   over, told, first, pubsub, diVars, dsVars>>

\* Calls from within the daemon, and plugins that register and unregister
CallDirectly(r) == DI!Call(r) /\ focus = "routes" /\ ServerOnly /\ UNCHANGED <<ownVars, net, dsVars>>
NextDirectly(r) == DI!Next(r) /\ focus = "routes" /\ ServerOnly /\ UNCHANGED <<ownVars, net, dsVars>>
Reroute(d, h) ==
    /\ focus = "routes" /\ (DI!Register(d, h) \/ DI!Unregister(d, h))
    /\ ServerOnly /\ UNCHANGED <<ownVars, net, dsVars>>

ClientWorks(r) ==
    \/ Client(CL!TryConnect(r))
    \/ \E s \in Sockets :
         /\ IF focus = "connect" THEN \A t \in Sockets : link[t] = "none" => s <= t ELSE s = 1
         /\ Client(CL!OpenSocket(r, s))
    \/ \E found \in BOOLEAN : Client(CL!FindAppcd(r, found))
    \/ Client(CL!StartFails(r))
    \/ \E works \in BOOLEAN :
         \/ Client(CL!StartDaemon(r, works))
         \/ \E elsewhere \in BOOLEAN : Client(CL!FetchConfig(r, elsewhere, works))

SocketWorks(s) == Connected(s) \/ Client(CL!Close(s)) \/ Client(CL!Message(s)) \/ Hangup(s)
Refused(s) == Client(CL!Fails(s, TRUE))

ServerWorks(r) ==
    \/ \E s \in Sockets : Receive(s, r)
    \/ PassOn(r) \/ Reply(r) \/ Subscribe(r) \/ OpenStream(r) \/ Streams(r) \/ CleanUp(r)
    \/ \E how \in {"ended", "failed"} : WriterEnds(r, how)

Next ==
    \/ \E r \in Requests :
         \/ focus # "routes" /\ Client(CL!Request(r))
         \/ ClientWorks(r) \/ ServerWorks(r) \/ Write(r) \/ Unsubscribe(r)
         \/ CallDirectly(r) \/ NextDirectly(r)
    \/ \E s \in Sockets :
         \/ SocketWorks(s) \/ Client(CL!Cut(s))
         \/ \E refused \in BOOLEAN : focus = "connect" /\ Client(CL!Fails(s, refused))
    \/ focus = "connect" /\ Client(CL!Disconnect)
    \/ \E k \in Keys : SetData(k)
    \/ DaemonStops
    \/ \E d \in DI!Dispatchers, h \in Plugged : Reroute(d, h)

Spec == Init /\ [][Next]_vars

\* The promises and events that are due come about, until none is; nobody is bound to
\* make a request, to change data or to end a connection.
Works ==
    \/ \E r \in Requests : ClientWorks(r) \/ ServerWorks(r)
    \/ \E s \in Sockets : SocketWorks(s) \/ Refused(s)

Fairness ==
    /\ WF_vars(focus \in {"connect", "stream"} /\ Works)
    /\ WF_vars(focus = "feed" /\ \E r \in Requests : Streams(r) \/ CleanUp(r))

FairSpec == Spec /\ Fairness
-------------------------------------------------------------------------------
TypeOK == CVTypeOK /\ CL!CLTypeOK /\ WS!WSTypeOK /\ DI!DITypeOK /\ DS!DSTypeOK

\* OneEnd of the client.  (And every variable has its type.)
OneEnd == TypeOK /\ CL!OneEnd

\* NoneIsSkipped of the dispatcher
NoneIsSkipped == DI!NoneIsSkipped

\* gawk watches what has subscribers, and a stream whose websocket is closed ends.
SourcesFollow == DS!WatchesFollowSubscribers /\ WS!SourcesKnowOfClose

\* When nothing is under way, a subscriber that is connected has the latest data.
SubscribersAreCurrent ==
    \A r \in Requests :
      LET s == over[r]
      IN /\ session[r] = "reading" /\ Reached(r, "subscribe") /\ ended[r] = "open"
         /\ link[s] = "open" /\ down[s] = <<>> /\ queue[r] = <<>> /\ handler[r] # "none"
         => latest[r] = DS!Get(Filter[r])

\* A request is answered, or it is told that the connection has ended.  Except: one
\* that found a socket which was not open (send() throws, or its message is lost); one
\* that shares the socket of another, when that is closed; and one that began before
\* its connection was refused, which is told of one end only.
Settles ==
    \A r \in Requests :
      focus \in {"connect", "stream"} /\ phase[r] = "sent" ~>
        \/ CL!Answered(r)
        \/ \E s \in Sockets : sentOn[r] = s /\ link[s] \in {"cut", "closed"}

\* A subscription ends with its connection, unless that ended before it began.
SubscriptionsEnd ==
    \A r \in Requests :
      r \in told /\ (\E s \in Sockets : over[r] = s /\ peer[s] = "closed") ~> r \notin topics[Filter[r]]
=============================================================================
