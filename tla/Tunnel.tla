--------------------------------- MODULE Tunnel ---------------------------------
(***************************************************************************)
(* Requests from the daemon to a plugin host: ExternalPlugin.dispatch()    *)
(* over the parent's Tunnel, the tunnel handler of the host, and what it   *)
(* sends back (packages/appcd-plugin/src/tunnel.js, external-plugin.js).   *)
(*                                                                         *)
(* A reply is one message, or a stream of them: of a subscription, which   *)
(* starts with 'subscribe', or of any other readable response.  Both ends  *)
(* may finish a stream: the service in the host, and the consumer of the   *)
(* response in the daemon (the client hung up).  The IPC channel is FIFO   *)
(* in both directions; the host may die at any time.  A message with an id *)
(* that is no longer in `requests` would be handled as a new request.      *)
(***************************************************************************)
EXTENDS Naturals, Sequences, FiniteSets

CONSTANTS
    Requests,      \* the requests dispatched to the plugin
    MaxEvents,     \* bound: messages of one stream besides the first and the last
    StreamErrors,  \* a stream of the service may emit 'error'
    HostDies       \* the host may exit

Kinds == {"call", "subscribe", "stream", "unsubscribe"}

ASSUME TunnelAssumption ==
    /\ MaxEvents \in Nat
    /\ StreamErrors \in BOOLEAN /\ HostDies \in BOOLEAN

\* dispatch() sends an unsubscribe request of its own (auto) for a request.
Ids == [req : Requests, auto : BOOLEAN]
IdOf(r) == [req |-> r, auto |-> FALSE]
AutoId(r) == [req |-> r, auto |-> TRUE]

VARIABLES
    kind,      \* request -> its kind
    target,    \* unsubscribe request -> the subscription it is about
    call,      \* request -> the promise of tunnel.send(): what dispatch() awaits
    requests,  \* tunnel.requests: the ids of the pending requests
    response,  \* request -> ctx.response: "open", "ended" or, after 'end', "closed"
    got,       \* request -> what the consumer was given
    streams,   \* this.streams: the subscriptions to unsubscribe when they end
    tunnel,    \* this.tunnel: FALSE once the host's exit is known
    up,        \* the host runs
    toHost, toParent,
    running,   \* the ids the host's dispatcher is working on
    source,    \* request -> the stream of the service
    made       \* request -> what that stream emitted

parentVars == <<kind, target, call, requests, response, got, streams, tunnel>>
hostVars == <<up, running, source, made>>
vars == <<parentVars, hostVars, toHost, toParent>>

-------------------------------------------------------------------------------
Init ==
    /\ kind = [r \in Requests |-> "none"]
    /\ target = [r \in Requests |-> r]
    /\ call = [r \in Requests |-> "none"]
    /\ requests = {}
    /\ response = [r \in Requests |-> "none"]
    /\ got = [r \in Requests |-> <<>>]
    /\ streams = {}
    /\ tunnel = TRUE /\ up = TRUE
    /\ toHost = <<>> /\ toParent = <<>>
    /\ running = {}
    /\ source = [r \in Requests |-> "none"]
    /\ made = [r \in Requests |-> <<>>]

\* Tunnel.send(): a message to a host that has exited is lost.
SendToHost(id) == toHost' = IF up THEN Append(toHost, id) ELSE toHost

\* dispatch(): without a tunnel the request is passed on.
Dispatch(r) ==
    /\ call[r] = "none" /\ tunnel
    /\ \E k \in Kinds, t \in Requests :
         /\ k = "unsubscribe" => "subscribe" \in {got[t][i] : i \in 1..Len(got[t])}
         /\ k # "unsubscribe" => t = r
         /\ kind' = [kind EXCEPT ![r] = k]
         /\ target' = [target EXCEPT ![r] = t]
    /\ call' = [call EXCEPT ![r] = "sent"]
    /\ requests' = requests \cup {IdOf(r)}
    /\ SendToHost(IdOf(r))
    /\ UNCHANGED <<response, got, streams, tunnel, hostVars, toParent>>

-------------------------------------------------------------------------------
\* The host.
Reply(id, type) == toParent' = Append(toParent, [id |-> id, type |-> type])

\* The subscription that a request ends, when its service gets to see it.
Unsubscribes(id) == IF id.auto THEN id.req ELSE target[id.req]
IsUnsubscribe(id) == id.auto \/ kind[id.req] = "unsubscribe"

HostTakes ==
    /\ up /\ toHost # <<>>
    /\ toHost' = Tail(toHost)
    /\ LET id == Head(toHost)
       IN  /\ running' = running \cup {id}
           /\ source' = IF IsUnsubscribe(id) /\ source[Unsubscribes(id)] = "live"
                        THEN [source EXCEPT ![Unsubscribes(id)] = "unsubscribed"] ELSE source
    /\ UNCHANGED <<parentVars, up, made, toParent>>

\* Mutant of HostAnswers: an error is not sent back.
HostAnswersDropsError(id) ==
    /\ up /\ id \in running
    /\ Reply(id, "value") \/ UNCHANGED toParent
    /\ running' = running \ {id}
    /\ UNCHANGED <<parentVars, up, source, made, toHost>>

\* dispatcher.call() returned a value or failed.
HostAnswers(id) ==
    /\ up /\ id \in running
    /\ \E type \in {"value", "error"} : Reply(id, type)
    /\ running' = running \ {id}
    /\ UNCHANGED <<parentVars, up, source, made, toHost>>

\* Mutant of Emit: the message is sent before those that wait in the channel.
EmitOvertakes(r, type) ==
    /\ made' = [made EXCEPT ![r] = Append(@, type)]
    /\ toParent' = <<[id |-> IdOf(r), type |-> type]>> \o toParent

\* A message of a stream is forwarded with the id of its request.
Emit(r, type) ==
    /\ made' = [made EXCEPT ![r] = Append(@, type)]
    /\ Reply(IdOf(r), type)

\* dispatcher.call() returned a stream; that of a subscription says so first.
StreamStarts(r) ==
    /\ up /\ IdOf(r) \in running /\ kind[r] \in {"subscribe", "stream"}
    /\ running' = running \ {IdOf(r)}
    /\ source' = [source EXCEPT ![r] = "live"]
    /\ IF kind[r] = "subscribe" THEN Emit(r, "subscribe") ELSE UNCHANGED <<made, toParent>>
    /\ UNCHANGED <<parentVars, up, toHost>>

StreamEvent(r) ==
    /\ up /\ source[r] = "live" /\ Len(made[r]) < MaxEvents
    /\ Emit(r, "event")
    /\ UNCHANGED <<parentVars, up, running, source, toHost>>

\* unsubscribe(): the service says so and ends the stream.
StreamUnsubscribed(r) ==
    /\ up /\ source[r] = "unsubscribed"
    /\ source' = [source EXCEPT ![r] = "ending"]
    /\ Emit(r, "unsubscribe")
    /\ UNCHANGED <<parentVars, up, running, toHost>>

\* The service ends the stream by itself.
StreamEnds(r) ==
    /\ up /\ source[r] = "live"
    /\ source' = [source EXCEPT ![r] = "ending"]
    /\ UNCHANGED <<parentVars, up, running, made, toHost, toParent>>

\* Mutant of StreamFinishes: 'end' is forwarded every time it is emitted.
StreamFinishesAgain(r) ==
    /\ up /\ source[r] = "ending" /\ Len(toParent) < 3
    /\ Emit(r, "fin")
    /\ UNCHANGED <<parentVars, up, source, running, toHost>>

StreamFinishes(r) ==
    /\ up /\ source[r] = "ending"
    /\ source' = [source EXCEPT ![r] = "ended"]
    /\ Emit(r, "fin")
    /\ UNCHANGED <<parentVars, up, running, toHost>>

\* A stream that emits 'error' is destroyed: there is no 'end' to forward.
StreamFails(r) ==
    /\ StreamErrors
    /\ up /\ source[r] \in {"live", "unsubscribed", "ending"}
    /\ source' = [source EXCEPT ![r] = "failed"]
    /\ Emit(r, "streamError")
    /\ UNCHANGED <<parentVars, up, running, toHost>>

HostExits ==
    /\ HostDies /\ up
    /\ up' = FALSE
    /\ running' = {} /\ toHost' = <<>>
    /\ UNCHANGED <<parentVars, source, made, toParent>>

-------------------------------------------------------------------------------
\* The parent: onMessage() finds the pending request of a message.
Settles(type) == type \in {"value", "error"}

\* ctx.response.write(): once it has emitted 'end' the response is destroyed, and what
\* is written to it then is lost without an 'error'.
Given(r, type) == IF response[r] \in {"none", "open"} THEN Append(got[r], type) ELSE got[r]

\* Mutant of AfterMessage: 'fin' does not end the response.
AfterMessageIgnoresFin(res, type) ==
    IF res \notin {"none", "open"} THEN res ELSE "open"

\* The first message hands the response out, 'fin' ends it.
AfterMessage(res, type) ==
    IF res \notin {"none", "open"} THEN res ELSE IF type = "fin" THEN "ended" ELSE "open"

\* A single reply.
ReceiveReply ==
    /\ toParent # <<>> /\ Settles(Head(toParent).type)
    /\ LET id == Head(toParent).id
       IN  /\ requests' = requests \ {id}
           /\ call' = IF id.auto THEN call
                      ELSE [call EXCEPT ![id.req] =
                              IF Head(toParent).type = "value" THEN "resolved" ELSE "rejected"]
    /\ toParent' = Tail(toParent)
    /\ UNCHANGED <<kind, target, response, got, streams, tunnel, hostVars, toHost>>

\* Mutant of Tracked: dispatch() does not remember the response.
TrackedNever(r, type) == FALSE

\* dispatch() continues with the first message, and remembers the response if the
\* message gave it a subscription id.
Tracked(r, type) == call[r] = "sent" /\ type = "subscribe"

\* A message of a stream; the first one resolves the call.  None is read between the
\* end() of its response and the 'end' event, which takes some ticks and no more.
ReceiveStream ==
    /\ toParent # <<>> /\ ~Settles(Head(toParent).type)
    /\ response[Head(toParent).id.req] # "ended"
    /\ LET r    == Head(toParent).id.req
           type == Head(toParent).type
       IN  /\ call' = [call EXCEPT ![r] = "resolved"]
           /\ streams' = IF Tracked(r, type) THEN streams \cup {r} ELSE streams
           /\ response' = [response EXCEPT ![r] = AfterMessage(@, type)]
           /\ requests' = IF type = "fin" THEN requests \ {IdOf(r)} ELSE requests
           /\ got' = [got EXCEPT ![r] = IF type = "fin" THEN @ ELSE Given(r, type)]
    /\ toParent' = Tail(toParent)
    /\ UNCHANGED <<kind, target, tunnel, hostVars, toHost>>

\* The client hangs up: whoever reads the response ends it.
ConsumerEnds(r) ==
    /\ response[r] = "open"
    /\ response' = [response EXCEPT ![r] = "ended"]
    /\ UNCHANGED <<kind, target, call, requests, got, streams, tunnel, hostVars, toHost, toParent>>

\* Mutant of ResponseEnd: a client that hangs up is only forgotten.
ResponseEndForgets(r) ==
    /\ response[r] = "ended"
    /\ response' = [response EXCEPT ![r] = "closed"]
    /\ streams' = streams \ {r}
    /\ UNCHANGED <<kind, target, call, got, tunnel, requests, toHost, hostVars, toParent>>

\* 'end' of the response: the subscription is cancelled in the host.
ResponseEnd(r) ==
    /\ response[r] = "ended"
    /\ response' = [response EXCEPT ![r] = "closed"]
    /\ IF r \in streams
       THEN /\ requests' = requests \cup {AutoId(r)}
            /\ SendToHost(AutoId(r))
       ELSE UNCHANGED <<requests, toHost>>
    /\ streams' = streams \ {r}
    /\ UNCHANGED <<kind, target, call, got, tunnel, hostVars, toParent>>

\* Mutant of HostExited: the responses are ended but not deleted.
HostExitedKeepsStreams ==
    /\ tunnel /\ ~up /\ toParent = <<>>
    /\ tunnel' = FALSE
    /\ response' = [r \in Requests |-> IF r \in streams /\ response[r] = "open"
                                       THEN "ended" ELSE response[r]]
    /\ UNCHANGED <<kind, target, call, requests, got, streams, hostVars, toHost, toParent>>

\* 'exit' of the host, after all its messages: the responses in `streams` end.
HostExited ==
    /\ tunnel /\ ~up /\ toParent = <<>>
    /\ tunnel' = FALSE
    /\ response' = [r \in Requests |-> IF r \in streams /\ response[r] = "open"
                                       THEN "ended" ELSE response[r]]
    /\ streams' = {}
    /\ UNCHANGED <<kind, target, call, requests, got, hostVars, toHost, toParent>>

-------------------------------------------------------------------------------
HostStep(r) ==
    \/ \E id \in {IdOf(r), AutoId(r)} : HostAnswers(id)
    \/ StreamStarts(r) \/ StreamEvent(r) \/ StreamUnsubscribed(r) \/ StreamEnds(r)
    \/ StreamFinishes(r) \/ StreamFails(r)

ParentReceives == ReceiveReply \/ ReceiveStream \/ HostExited

Next ==
    \/ \E r \in Requests : Dispatch(r) \/ HostStep(r) \/ ConsumerEnds(r) \/ ResponseEnd(r)
    \/ HostTakes \/ HostExits
    \/ ParentReceives

Spec == Init /\ [][Next]_vars

\* Messages are read, 'end' events are emitted, the host's dispatcher settles
\* every call it has accepted and forwards the end of a stream.
Fairness ==
    /\ WF_vars(HostTakes) /\ WF_vars(ParentReceives)
    /\ \A r \in Requests :
         /\ WF_vars(ResponseEnd(r))
         /\ WF_vars(HostAnswers(IdOf(r)) \/ StreamStarts(r))
         /\ WF_vars(HostAnswers(AutoId(r)))
         /\ WF_vars(StreamUnsubscribed(r)) /\ WF_vars(StreamFinishes(r))

FairSpec == Spec /\ Fairness

-------------------------------------------------------------------------------
Messages == {"subscribe", "event", "unsubscribe", "fin", "streamError"}
Final == {"value", "error", "fin"}
Types(seq) == {seq[i] : i \in 1..Len(seq)}

\* Every variable has its type; a response in this.streams has not emitted 'end',
\* and is only there while there is a tunnel to unsubscribe through.
TypeOK ==
    /\ kind \in [Requests -> Kinds \cup {"none"}] /\ target \in [Requests -> Requests]
    /\ call \in [Requests -> {"none", "sent", "resolved", "rejected"}]
    /\ requests \subseteq Ids /\ running \subseteq Ids /\ streams \subseteq Requests
    /\ response \in [Requests -> {"none", "open", "ended", "closed"}]
    /\ tunnel \in BOOLEAN /\ up \in BOOLEAN
    /\ source \in [Requests -> {"none", "live", "unsubscribed", "ending", "ended", "failed"}]
    /\ got \in [Requests -> Seq(Messages)] /\ made \in [Requests -> Seq(Messages)]
    /\ \A r \in streams : response[r] \in {"open", "ended"} /\ tunnel
    /\ toHost \in Seq(Ids)
    /\ toParent \in Seq([id : Ids, type : Messages \cup {"value", "error"}])

\* A message of r's stream; how many of them are among the first n of a channel.
Mine(r, m) == m.id = IdOf(r) /\ m.type \in Messages
Among(channel, r, n) == Cardinality({i \in 1..n : Mine(r, channel[i])})

\* Until the response ends, its consumer has been given what the service's stream
\* emitted but for what is on its way, all of it, once and in order; afterwards,
\* the beginning of it.
RelaysExactly ==
    \A r \in Requests :
        /\ response[r] \in {"none", "open"} =>
             /\ Len(made[r]) = Len(got[r]) + Among(toParent, r, Len(toParent))
             /\ \A i \in 1..Len(toParent) :
                  Mine(r, toParent[i]) =>
                    made[r][Len(got[r]) + Among(toParent, r, i)] = toParent[i].type
        /\ Len(got[r]) <= Len(made[r]) /\ got[r] = SubSeq(made[r], 1, Len(got[r]))

\* A message that comes back finds its request, and only the last one of a request
\* deletes it: onMessage() would take a later one for a request of the host.
RepliesFindRequests ==
    \A i \in 1..Len(toParent) :
        /\ toParent[i].id \in requests
        /\ \A j \in (i + 1)..Len(toParent) :
              toParent[j].id = toParent[i].id => toParent[i].type \notin Final

\* "close any open response streams (i.e. subscriptions)" (external-plugin.js:655):
\* when the exit of the host is known no subscription looks open to its client.
ExitClosesSubscriptions ==
    ~tunnel => \A r \in Requests : "subscribe" \in Types(got[r]) => response[r] # "open"

\* What the two ends of the tunnel remember of a request agrees with what is on its
\* way between them: nothing is lost, doubled, reordered or delivered to nobody, and
\* the exit of the host leaves no subscription that looks alive.
TunnelIsFaithful ==
    TypeOK /\ RelaysExactly /\ RepliesFindRequests /\ ExitClosesSubscriptions

\* The service hears of a client that hung up on its subscription.
HangUpReachesService ==
    \A r \in Requests :
        response[r] = "ended" /\ kind[r] = "subscribe" ~> ~up \/ source[r] # "live"

\* A stream that the service has ended is ended for the consumer, and its request
\* is forgotten.
EndIsRelayed ==
    \A r \in Requests :
        source[r] = "ended" ~> response[r] = "closed" /\ IdOf(r) \notin requests

\* Every request is answered while the host runs.
RequestsSettle ==
    \A r \in Requests : call[r] = "sent" /\ kind[r] # "stream" ~> ~up \/ call[r] # "sent"

\* Whatever one side finishes, the other side comes to know of: a hang-up, the end
\* of a stream, and the outcome of a request.
NewsArrives == HangUpReachesService /\ EndIsRelayed /\ RequestsSettle

=============================================================================
