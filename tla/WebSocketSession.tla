---------------------------- MODULE WebSocketSession ----------------------------
(***************************************************************************)
(* The server's end of the websockets: WebSocketSession                    *)
(* (packages/appcd-core/src/websocket-session.js).  One session per        *)
(* socket; a request comes over one socket only.  What the dispatcher does *)
(* with a call, and what fills a response stream, comes from outside.      *)
(***************************************************************************)
EXTENDS Integers, Sequences, SequencesExt

CONSTANTS Requests, Sockets

VARIABLES
    peer,     \* socket -> the server's end: "none", "open" or "closed"
    up,       \* socket -> the requests on their way to the server
    down,     \* socket -> the responses on their way to the client
    session,  \* request -> "none", "calling", "reading" its stream, or "done"
    over,     \* request -> the socket it came over, or 0
    told,     \* the requests whose stream listens for the end of the socket in time
    first,    \* the requests that have not been responded to
    pubsub,   \* the requests whose stream is a subscription
    queue, ended \* the response streams

wsVars == <<peer, up, down, session, over, told, first, pubsub>>

Types == {"value", "chunk", "subscribe", "event", "unsubscribe", "finish", "error"}

WSTypeOK ==
    /\ peer \in [Sockets -> {"none", "open", "closed"}]
    /\ \A s \in Sockets : \A i \in 1..Len(down[s]) :
         LET m == down[s][i]
         IN m.id \in Requests /\ m.type \in Types /\ m.status \in {0, 200, 500} /\ m.fin \in BOOLEAN
    /\ session \in [Requests -> {"none", "calling", "reading", "done"}]
    /\ over \in [Requests -> Sockets \cup {0}]
    /\ told \subseteq Requests /\ first \subseteq Requests /\ pubsub \subseteq Requests

Unopened ==
    /\ peer = [s \in Sockets |-> "none"]
    /\ up = [s \in Sockets |-> <<>>] /\ down = [s \in Sockets |-> <<>>]
    /\ session = [r \in Requests |-> "none"] /\ over = [r \in Requests |-> 0]
    /\ told = {} /\ first = Requests /\ pubsub = {}
-------------------------------------------------------------------------------
\* respond(): nothing is sent once the websocket is closed.
Respond(r, type, v, status, fin) ==
    LET s == over[r]
    IN /\ down' = IF peer[s] = "open"
                    THEN [down EXCEPT ![s] = Append(@, [id |-> r, type |-> type, v |-> v,
                                                        status |-> status, fin |-> fin])]
                    ELSE down
       /\ first' = first \ {r}

\* A request comes in: handle_1_0() calls the dispatcher.
Receive(s, r) ==
    /\ peer[s] = "open" /\ up[s] # <<>> /\ Head(up[s]) = r
    /\ up' = [up EXCEPT ![s] = Tail(@)]
    /\ session' = [session EXCEPT ![r] = "calling"]
    /\ over' = [over EXCEPT ![r] = s]
    /\ UNCHANGED <<peer, down, told, first, pubsub>>

Done(r) == session' = [session EXCEPT ![r] = "done"]

\* dispatcher.call() has returned a value, or thrown.
Answer(r, type, v) ==
    /\ session[r] = "calling" /\ Done(r)
    /\ Respond(r, type, v, IF type = "error" THEN 500 ELSE 200, type # "error")
    /\ UNCHANGED <<peer, up, over, told, pubsub>>

\* It has returned a stream.  The listeners of 'close' and 'error' are added now: too
\* late, when the websocket was closed meanwhile.
ReadStream(r) ==
    /\ session[r] = "calling"
    /\ session' = [session EXCEPT ![r] = "reading"]
    /\ told' = IF peer[over[r]] = "open" THEN told \cup {r} ELSE told
    /\ UNCHANGED <<peer, up, down, over, first, pubsub>>

\* 'data'
Data(r) ==
    LET m == Head(queue[r])
        subscription == r \in pubsub \/ m.type = "subscribe"
    IN /\ session[r] = "reading" /\ queue[r] # <<>>
       /\ queue' = [queue EXCEPT ![r] = Tail(@)]
       /\ pubsub' = IF subscription THEN pubsub \cup {r} ELSE pubsub
       /\ Respond(r, m.type, m.v, IF subscription \/ r \in first THEN 200 ELSE 0, FALSE)
       /\ UNCHANGED <<peer, up, session, over, told, ended>>

\* 'end'
End(r) ==
    /\ session[r] = "reading" /\ queue[r] = <<>> /\ ended[r] = "ended" /\ Done(r)
    /\ Respond(r, "finish", 0, 200, TRUE)
    /\ UNCHANGED <<peer, up, over, told, pubsub, queue, ended>>

\* Mutant of Error: the client is not told.
ErrorSilently(r) ==
    /\ session[r] = "reading" /\ ended[r] = "failed" /\ Done(r)
    /\ UNCHANGED <<peer, up, down, over, told, first, pubsub, queue, ended>>

\* 'error'
Error(r) ==
    /\ session[r] = "reading" /\ ended[r] = "failed" /\ Done(r)
    /\ Respond(r, "error", 0, 500, TRUE)
    /\ UNCHANGED <<peer, up, over, told, pubsub, queue, ended>>

\* Mutant of Closed: only subscriptions are ended.
ClosedForSubscriptions(s) ==
    /\ peer' = [peer EXCEPT ![s] = "closed"]
    /\ ended' = [r \in Requests |-> IF r \in told /\ r \in pubsub /\ over[r] = s /\ ended[r] = "open"
                                      THEN "ended" ELSE ended[r]]
    /\ UNCHANGED <<up, down, session, over, told, first, pubsub, queue>>

\* The 'close' event: response.end() of the streams that listen for it.
Closed(s) ==
    /\ peer' = [peer EXCEPT ![s] = "closed"]
    /\ ended' = [r \in Requests |-> IF r \in told /\ over[r] = s /\ ended[r] = "open"
                                      THEN "ended" ELSE ended[r]]
    /\ UNCHANGED <<up, down, session, over, told, first, pubsub, queue>>
-------------------------------------------------------------------------------
\* Whatever writes to a response stream knows that the other end has closed: unless
\* the websocket was closed before dispatcher.call() returned the stream.
SourcesKnowOfClose ==
    \A r \in Requests :
      session[r] = "reading" /\ r \in told /\ peer[over[r]] = "closed" => ended[r] # "open"
=============================================================================
