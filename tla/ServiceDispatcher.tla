--------------------------- MODULE ServiceDispatcher ---------------------------
(***************************************************************************)
(* The publish/subscribe half of the dispatcher: ServiceDispatcher         *)
(* (packages/appcd-dispatcher/src/service-dispatcher.js) and the service   *)
(* hooks it drives.  Three services of the daemon derive from it:          *)
(* DataServiceDispatcher and ConfigService start one source per topic      *)
(* (initSubscription, destroySubscription), FSWatchManager one watcher per *)
(* subscriber (onSubscribe, onUnsubscribe).                                *)
(*                                                                         *)
(* A subscription id is a fresh uuid, so a sid names one subscribe request *)
(* for ever.  A topic descriptor is named by the sid whose request created *)
(* it.  Everything a handler does is synchronous, hence one step; what     *)
(* interleaves are the requests, the services' publishes, the consumer     *)
(* ending its response, and the 'end' and 'error' events that Node emits   *)
(* some time after their cause.                                            *)
(***************************************************************************)
EXTENDS Naturals, Sequences, FiniteSets

CONSTANTS Sids, Topics,
          None,         \* no descriptor, no topic
          Implemented,  \* the hooks the service defines
          Throwing,     \* the hooks that may throw
          MaxSent       \* bound: messages written to one response before it is ended

Hooks == {"initSubscription", "onSubscribe", "onUnsubscribe", "destroySubscription"}

ASSUME SDAssumption ==
    /\ None \notin Sids /\ None \notin Topics
    /\ Implemented \subseteq Hooks /\ Throwing \subseteq Hooks
    /\ MaxSent \in Nat \ {0}

VARIABLES
    subscriptions,  \* the keys of `subscriptions`
    desc,           \* sid -> the descriptor its request registered with
    topics,         \* topic -> its current descriptor
    topicOf,        \* descriptor.topic
    subs,           \* descriptor.subs: the sids it publishes to
    stream,         \* ctx.response: "none", "open" or "ended" (end() was called)
    lost,           \* sids whose request failed: nobody holds their response
    failing,        \* responses written to after their end: 'error' is coming
    errored,        \* responses whose 'error' listener has fired
    finished,       \* responses whose 'end' listener has fired
    sent,           \* sid -> the types of the messages written to its response
    feeding,        \* descriptors whose topic source runs
    watching        \* sids the service publishes to one by one

dispatcherVars == <<subscriptions, desc, topics, topicOf, subs>>
streamVars == <<stream, lost, failing, errored, finished, sent>>
serviceVars == <<feeding, watching>>
vars == <<dispatcherVars, streamVars, serviceVars>>

-------------------------------------------------------------------------------
\* handler(): a request type the service has no hook for goes to next().
Handles(type) ==
    CASE type = "subscribe"   -> Implemented \cap {"onSubscribe", "initSubscription"} # {}
      [] type = "unsubscribe" -> Implemented \cap {"onUnsubscribe", "destroySubscription"} # {}

\* The ways calling a hook can go: it is skipped, returns or throws.
Outcomes(hook) ==
    IF hook \notin Implemented THEN {"absent"}
    ELSE {"ok"} \cup (IF hook \in Throwing THEN {"throw"} ELSE {})

Writable(s) == stream[s] = "open"

\* response.write() to the responses in R: a message of that type reaches the
\* open ones, the ended ones will emit 'error'.
Write(R, type) ==
    /\ sent' = [s \in Sids |-> IF s \in R /\ Writable(s) THEN Append(sent[s], type) ELSE sent[s]]
    /\ failing' = failing \cup {s \in R : ~Writable(s)}

Init ==
    /\ subscriptions = {}
    /\ desc = [s \in Sids |-> None]
    /\ topics = [t \in Topics |-> None]
    /\ topicOf = [d \in Sids |-> None]
    /\ subs = [d \in Sids |-> {}]
    /\ stream = [s \in Sids |-> "none"]
    /\ lost = {} /\ failing = {} /\ errored = {} /\ finished = {}
    /\ sent = [s \in Sids |-> <<>>]
    /\ feeding = {} /\ watching = {}

\* A hook that throws rejects the request after the registration was made.  A
\* service with onUnsubscribe keeps the publish function of onSubscribe; any
\* may use it at once to send the current state.
Subscribe(s, t) ==
    LET first == topics[t] = None
        d     == IF first THEN s ELSE topics[t]
    IN  /\ Handles("subscribe")
        /\ desc[s] = None
        /\ desc' = [desc EXCEPT ![s] = d]
        /\ topics' = [topics EXCEPT ![t] = d]
        /\ topicOf' = [topicOf EXCEPT ![d] = t]
        /\ subscriptions' = subscriptions \cup {s}
        /\ subs' = [subs EXCEPT ![d] = @ \cup {s}]
        /\ stream' = [stream EXCEPT ![s] = "open"]
        /\ \E i \in (IF first THEN Outcomes("initSubscription") ELSE {"absent"}) :
             /\ feeding' = IF i = "ok" THEN feeding \cup {d} ELSE feeding
             /\ \E o \in (IF i = "throw" THEN {"absent"} ELSE Outcomes("onSubscribe")) :
                  /\ lost' = IF "throw" \in {i, o} THEN lost \cup {s} ELSE lost
                  /\ watching' = IF o = "ok" /\ "onUnsubscribe" \in Implemented
                                 THEN watching \cup {s} ELSE watching
                  /\ \E greeting \in {<<>>} \cup (IF o = "ok" THEN {<<"event">>} ELSE {}) :
                       sent' = [sent EXCEPT ![s] = <<"subscribe">> \o greeting]
        /\ UNCHANGED <<failing, errored, finished>>

\* Mutants of CloseTopic: the descriptor stays in `topics`; onUnsubscribe() is
\* only called for the last subscriber.
CloseTopicKeepsDescriptor(s, d, rest) ==
    \E o \in Outcomes("onUnsubscribe") :
        /\ watching' = IF o = "ok" THEN watching \ {s} ELSE watching
        /\ feeding' = IF o # "throw" /\ rest = {} THEN feeding \ {d} ELSE feeding
        /\ UNCHANGED topics

CloseTopicLastOnly(s, d, rest) ==
    IF rest = {}
    THEN watching' = watching \ {s} /\ topics' = [topics EXCEPT ![topicOf[d]] = None]
                                   /\ feeding' = feeding \ {d}
    ELSE UNCHANGED <<watching, topics, feeding>>

\* The tail of unsubscribe() once the sid is gone from `subscriptions` and from
\* the subscribers `rest` of its descriptor.
CloseTopic(s, d, rest) ==
    \E o \in Outcomes("onUnsubscribe") :
        /\ watching' = IF o = "ok" THEN watching \ {s} ELSE watching
        /\ IF o # "throw" /\ rest = {}
           THEN /\ topics' = [topics EXCEPT ![topicOf[d]] = None]
                /\ \E x \in Outcomes("destroySubscription") :
                     feeding' = IF x = "ok" THEN feeding \ {d} ELSE feeding
           ELSE UNCHANGED <<topics, feeding>>

\* unsubscribe() of a sid that is not in `subscriptions`: NOT_SUBSCRIBED.
NotSubscribed(s) ==
    /\ subs' = [d \in Sids |-> IF \E t \in Topics : topics[t] = d THEN subs[d] \ {s} ELSE subs[d]]
    /\ UNCHANGED <<subscriptions, topics, feeding, watching>>

\* Mutant of Unsubscribe: the response gets its last message, and stays in the
\* descriptor as it is.
UnsubscribeLeavesOpen(s) ==
    /\ s \in subscriptions /\ s \notin lost
    /\ subscriptions' = subscriptions \ {s}
    /\ Write({s}, "unsubscribe")
    /\ CloseTopic(s, desc[s], subs[desc[s]] \ {s})
    /\ UNCHANGED <<desc, topicOf, subs, stream, lost, errored, finished>>

\* An "unsubscribe" request for a sid its client was told: the response still
\* on file gets the "unsubscribe" message and is ended.
Unsubscribe(s) ==
    LET d == desc[s]
    IN  /\ Handles("unsubscribe")
        /\ d # None /\ s \notin lost
        /\ \/ /\ s \notin subscriptions
              /\ NotSubscribed(s)
              /\ UNCHANGED <<stream, sent, failing>>
           \/ /\ s \in subscriptions
              /\ subscriptions' = subscriptions \ {s}
              /\ subs' = [subs EXCEPT ![d] = @ \ {s}]
              /\ IF s \in subs[d]
                 THEN Write({s}, "unsubscribe") /\ stream' = [stream EXCEPT ![s] = "ended"]
                 ELSE UNCHANGED <<stream, sent, failing>>
              /\ CloseTopic(s, d, subs[d] \ {s})
        /\ UNCHANGED <<desc, topicOf, lost, errored, finished>>

\* Mutants of Cleanup: the check that the sid is still registered is missing;
\* the sid is not deleted from its descriptor; unsubscribe() is not called.
CleanupUnguarded(s) ==
    /\ subscriptions' = subscriptions \ {s}
    /\ subs' = [subs EXCEPT ![desc[s]] = @ \ {s}]
    /\ CloseTopic(s, desc[s], subs[desc[s]] \ {s})
    /\ UNCHANGED <<desc, topicOf, stream, sent, lost, failing>>

CleanupKeepsSid(s) ==
    /\ subscriptions' = subscriptions \ {s}
    /\ CloseTopic(s, desc[s], subs[desc[s]])
    /\ UNCHANGED <<desc, topicOf, subs, stream, sent, lost, failing>>

CleanupForgetsUnsubscribe(s) ==
    /\ subs' = [subs EXCEPT ![desc[s]] = @ \ {s}]
    /\ UNCHANGED <<subscriptions, topics, desc, topicOf, serviceVars, stream, sent, lost, failing>>

\* The listener of 'end' and 'error': the sid leaves the descriptor of its own
\* request first, so unsubscribe() finds no response to write to.
Cleanup(s) ==
    LET d == desc[s]
    IN  /\ IF s \in subscriptions
           THEN /\ subscriptions' = subscriptions \ {s}
                /\ subs' = [subs EXCEPT ![d] = @ \ {s}]
                /\ CloseTopic(s, d, subs[d] \ {s})
           ELSE NotSubscribed(s)
        /\ UNCHANGED <<desc, topicOf, stream, sent, lost, failing>>

EndEvent(s) ==
    /\ stream[s] = "ended" /\ s \notin finished
    /\ finished' = finished \cup {s}
    /\ Cleanup(s)
    /\ UNCHANGED errored

ErrorEvent(s) ==
    /\ s \in failing /\ s \notin errored
    /\ errored' = errored \cup {s}
    /\ Cleanup(s)
    /\ UNCHANGED finished

\* The holder of the response (a websocket session, a tunnel) ends it.
ConsumerEnd(s) ==
    /\ stream[s] = "open" /\ s \notin lost
    /\ stream' = [stream EXCEPT ![s] = "ended"]
    /\ UNCHANGED <<dispatcherVars, serviceVars, lost, failing, errored, finished, sent>>

\* descriptor.publishAll, called by the topic's source.
PublishAll(d) ==
    /\ d \in feeding
    /\ subs[d] # {}
    /\ \A s \in subs[d] : Len(sent[s]) < MaxSent
    /\ Write(subs[d], "event")
    /\ UNCHANGED <<dispatcherVars, serviceVars, stream, lost, errored, finished>>

\* The publish function of one subscriber, kept by the service.
PublishOne(s) ==
    /\ s \in watching
    /\ Len(sent[s]) < MaxSent
    /\ Write({s}, "event")
    /\ UNCHANGED <<dispatcherVars, serviceVars, stream, lost, errored, finished>>

Next ==
    \/ \E s \in Sids, t \in Topics : Subscribe(s, t)
    \/ \E s \in Sids : Unsubscribe(s)
    \/ \E s \in Sids : EndEvent(s)
    \/ \E s \in Sids : ErrorEvent(s)
    \/ \E s \in Sids : ConsumerEnd(s)
    \/ \E d \in Sids : PublishAll(d)
    \/ \E s \in Sids : PublishOne(s)

Spec == Init /\ [][Next]_vars

\* Node emits the 'end' of a response that was ended and is being read.
Fairness == \A s \in Sids : WF_vars(EndEvent(s))
FairSpec == Spec /\ Fairness

-------------------------------------------------------------------------------
\* Every variable has its type: in particular every response that is written to
\* was handed out by a subscribe request and is open or ended.
TypeOK ==
    /\ subscriptions \subseteq Sids
    /\ desc \in [Sids -> Sids \cup {None}]
    /\ topics \in [Topics -> Sids \cup {None}]
    /\ topicOf \in [Sids -> Topics \cup {None}]
    /\ subs \in [Sids -> SUBSET Sids]
    /\ stream \in [Sids -> {"none", "open", "ended"}]
    /\ lost \subseteq Sids /\ failing \subseteq Sids
    /\ errored \subseteq Sids /\ finished \subseteq Sids
    /\ sent \in [Sids -> Seq({"subscribe", "event", "unsubscribe"})]
    /\ feeding \subseteq Sids /\ watching \subseteq Sids

(***************************************************************************)
(* Every registered subscription sits in the subscribers of the descriptor *)
(* its topic has now: no late 'end' or 'error' of an earlier subscriber    *)
(* takes away a descriptor that others have registered with since, which   *)
(* would leave them subscribed to a topic nobody publishes to.             *)
(***************************************************************************)
NoStrandedSubscriber ==
    \A s \in subscriptions :
        /\ s \in subs[desc[s]]
        /\ topics[topicOf[desc[s]]] = desc[s]

(***************************************************************************)
(* publishAll only writes to registered subscriptions, and a sid is in one *)
(* descriptor at most: ending a response by either path leaves nothing     *)
(* behind in any descriptor.                                               *)
(***************************************************************************)
NoGhostSubscriber ==
    \A d \in Sids : \A s \in subs[d] : s \in subscriptions /\ desc[s] = d

(***************************************************************************)
(* The inductive form of the two: what else relates the registry, the      *)
(* closures of the requests and the descriptors.  A descriptor is created  *)
(* by one request, under one topic, and never changes its topic.           *)
(***************************************************************************)
DescriptorsAgree ==
    /\ \A t \in Topics : topics[t] # None => topicOf[topics[t]] = t
    /\ \A s \in Sids : desc[s] # None => topicOf[desc[s]] # None
    /\ \A d \in Sids : topicOf[d] # None => desc[d] = d
    /\ \A s \in subscriptions : desc[s] # None

\* The registry is consistent: `subscriptions`, `topics` and the descriptors in the closures
\* of the requests agree, so that whoever is registered is published to and nobody else
\* is, whichever hooks throw and however late an 'end' comes (service-dispatcher.js:145-312).
RegistryInv == DescriptorsAgree /\ NoStrandedSubscriber /\ NoGhostSubscriber

(***************************************************************************)
(* Two topic sources never serve one topic: destroySubscription() ran for  *)
(* the old descriptor before initSubscription() runs for the next one.     *)
(***************************************************************************)
OneSourcePerTopic ==
    \A d \in feeding : topics[topicOf[d]] = d

(***************************************************************************)
(* README.md:139 of appcd-dispatcher: initSubscription() is called before  *)
(* the first subscription, and again for the next one after all were       *)
(* unsubscribed.  So whoever is subscribed is fed.                         *)
(***************************************************************************)
SubscribersAreFed ==
    "initSubscription" \in Implemented =>
        \A s \in subscriptions \ lost : desc[s] \in feeding

(***************************************************************************)
(* README.md:176 of appcd-dispatcher: destroySubscription() is called      *)
(* after the last subscription of the topic has been unsubscribed: no      *)
(* source runs for a topic without subscribers.                            *)
(***************************************************************************)
NoIdleSource ==
    \A d \in feeding : subs[d] # {}

(***************************************************************************)
(* The two together: however hang-ups, unsubscribe requests and late stream *)
(* events of several subscribers interleave with new subscriptions, a topic *)
(* has one source at most, and has it no longer than it has subscribers.   *)
(***************************************************************************)
OneSourceWhileNeeded == OneSourcePerTopic /\ NoIdleSource

(***************************************************************************)
(* The inductive form of these for a service that pairs the two topic      *)
(* hooks and whose clean-up hooks do not throw, and of SubscribersAreFed   *)
(* when its initSubscription() does not throw either.                      *)
(***************************************************************************)
CleanService ==
    /\ {"initSubscription", "destroySubscription"} \subseteq Implemented
    /\ Throwing \cap {"onUnsubscribe", "destroySubscription"} = {}

SourceInv ==
    /\ \A t \in Topics : topics[t] # None => subs[topics[t]] # {}
    /\ \A d \in feeding : topicOf[d] # None
    /\ OneSourcePerTopic

EveryTopicFed == \A t \in Topics : topics[t] # None => topics[t] \in feeding

(***************************************************************************)
(* A service keeps publishing to one subscriber only while that subscriber *)
(* is registered: every way out of a subscription calls onUnsubscribe().   *)
(***************************************************************************)
NoIdleWatcher == watching \subseteq subscriptions

(***************************************************************************)
(* Whatever a source can still write to has its 'error' listener left:     *)
(* the once() listener that has fired is never needed again, so no write   *)
(* raises an unhandled 'error'.                                            *)
(***************************************************************************)
ErrorsAreHandled ==
    \A s \in errored : s \notin watching /\ \A d \in feeding : s \notin subs[d]

(***************************************************************************)
(* A response carries "subscribe" first ("this has to be done AFTER we     *)
(* send the subscribe response", line 207), then events, and nothing after *)
(* "unsubscribe".                                                          *)
(***************************************************************************)
Transcript ==
    \A s \in Sids : \A i \in 1..Len(sent[s]) :
        /\ (i = 1) <=> (sent[s][i] = "subscribe")
        /\ sent[s][i] = "unsubscribe" => i = Len(sent[s]) /\ s \notin subscriptions

(***************************************************************************)
(* Every way out of a subscription undoes it: neither a source nor a       *)
(* service that publishes to each subscriber by itself is left with a      *)
(* response nobody is subscribed with, or one whose once() listener of     *)
(* 'error' has fired, so that no later write raises an unhandled 'error'.  *)
(***************************************************************************)
LeavingUndoesAll == NoIdleWatcher /\ ErrorsAreHandled

(***************************************************************************)
(* A subscription whose consumer ended the response does not stay          *)
(* registered.                                                             *)
(***************************************************************************)
EndedIsForgotten ==
    \A s \in Sids : stream[s] = "ended" ~> s \notin subscriptions

-------------------------------------------------------------------------------
\* What the dispatcher promises, as seen through its registry.
EventsIn(transcript) == Cardinality({i \in DOMAIN transcript : transcript[i] = "event"})

MemberMap   == [s \in Sids |-> IF s \in subscriptions THEN topicOf[desc[s]] ELSE None]
LeftMap     == {s \in Sids : desc[s] # None /\ s \notin subscriptions}
HungUpMap   == {s \in Sids : stream[s] = "ended"} \cup LeftMap
ActiveMap   == {topicOf[d] : d \in feeding}
ReceivedMap == [s \in Sids |-> EventsIn(sent[s])]

PS == INSTANCE PubSub WITH
        Members <- Sids, NoTopic <- None,
        member <- MemberMap, left <- LeftMap, hungUp <- HungUpMap,
        active <- ActiveMap, received <- ReceivedMap

\* Every run of the dispatcher is one of the promised ones: a topic's source runs
\* while the topic has members, every member gets every event of its topic, and
\* nothing after it left.
Refinement == PS!Spec
===============================================================================
