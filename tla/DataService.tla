------------------------------- MODULE DataService -------------------------------
(***************************************************************************)
(* A service whose subscribers follow its data: DataServiceDispatcher      *)
(* (packages/appcd-dispatcher/src/data-service-dispatcher.js), with the    *)
(* subscriptions of ServiceDispatcher, which the module of that name       *)
(* models in detail.  Subscribers follow one key of the data, or all.      *)
(***************************************************************************)
EXTENDS Integers, Sequences, FiniteSetsExt

CONSTANTS
    Requests, Keys,
    Filter,     \* request -> a key, or "all"
    MaxChanges  \* bound on the data

DSAssumption ==
    /\ Filter \in [Requests -> Keys \cup {"all"}] /\ "all" \notin Keys /\ Keys # {}
    /\ MaxChanges \in Nat

VARIABLES
    data,    \* key -> its value, counted in changes; 0 if it is not there
    topics,  \* topic -> the requests whose streams subscribe to it
    watches, \* the topics that gawk watches
    queue,   \* request -> what its response stream holds
    ended    \* request -> "open", "ended" or "failed"

dsVars == <<data, topics, watches, queue, ended>>

Topics == Keys \cup {"all"}

DSTypeOK ==
    /\ data \in [Keys -> 0..MaxChanges]
    /\ topics \in [Topics -> SUBSET Requests] /\ watches \subseteq Topics
    /\ \A r \in Requests : \A i \in 1..Len(queue[r]) : queue[r][i].v \in 0..MaxChanges
    /\ ended \in [Requests -> {"open", "ended", "failed"}]

\* get(filter): a value is the number of the change that made it.
Get(topic) == IF topic = "all" THEN Max({data[k] : k \in Keys}) ELSE data[topic]

Fresh ==
    /\ data = [k \in Keys |-> 0] /\ topics = [t \in Topics |-> {}] /\ watches = {}
    /\ queue = [r \in Requests |-> <<>>] /\ ended = [r \in Requests |-> "open"]
-------------------------------------------------------------------------------
Message(type, value) == [type |-> type, v |-> value]

\* Mutant of Subscribed: the subscriber waits for the next change.
SubscribedToChanges(r) == <<Message("subscribe", 0)>>

\* What a new subscriber is sent: the acknowledgement, then by onSubscribe() the data.
Subscribed(r) == <<Message("subscribe", 0), Message("event", Get(Filter[r]))>>

\* subscribe(ctx) and, for the first subscriber of the topic, initSubscription()
Subscribe(r) ==
    LET t == Filter[r]
    IN /\ topics' = [topics EXCEPT ![t] = @ \cup {r}]
       /\ watches' = watches \cup {t}
       /\ queue' = [queue EXCEPT ![r] = @ \o Subscribed(r)]
       /\ UNCHANGED <<data, ended>>

\* gawk calls back publishAll() of the topics whose data change.  To write to a response
\* whose end() was called fails: its 'error' is taken by cleanup(), as 'end' would be.
SetData(k) ==
    LET value == Get("all") + 1
        told  == UNION {topics[t] : t \in watches \cap {k, "all"}}
        late  == {r \in told : ended[r] # "open"}
    IN /\ value <= MaxChanges
       /\ data' = [data EXCEPT ![k] = value]
       /\ queue' = [r \in Requests |-> IF r \in told \ late
                      THEN Append(queue[r], Message("event", value)) ELSE queue[r]]
       /\ ended' = [r \in Requests |-> IF r \in late THEN "failed" ELSE ended[r]]
       /\ topics' = [t \in Topics |-> topics[t] \ late]
       /\ watches' = {t \in watches : topics[t] \ late # {}}

\* Mutant of Left: the watch stays.
LeftWatched(r) == topics' = [topics EXCEPT ![Filter[r]] = @ \ {r}] /\ UNCHANGED watches

\* The subscriber is gone, and with the last one, by destroySubscription(), the watch.
Left(r) ==
    /\ topics' = [topics EXCEPT ![Filter[r]] = @ \ {r}]
    /\ watches' = IF topics[Filter[r]] = {r} THEN watches \ {Filter[r]} ELSE watches

\* unsubscribe(ctx), asked by the client: the subscriber is told, and its stream ends.
Unsubscribe(r) ==
    /\ r \in topics[Filter[r]] /\ Left(r)
    /\ queue' = [queue EXCEPT ![r] = Append(@, Message("unsubscribe", 0))]
    /\ ended' = [ended EXCEPT ![r] = "ended"]
    /\ UNCHANGED data

\* The 'end' of a stream that was read to its end: cleanup()
CleanUp(r) ==
    /\ r \in topics[Filter[r]] /\ ended[r] # "open" /\ queue[r] = <<>>
    /\ Left(r)
    /\ UNCHANGED <<data, queue, ended>>

-------------------------------------------------------------------------------
\* gawk watches a topic as long as it has subscribers, and each of these once.
WatchesFollowSubscribers == \A t \in Topics : t \in watches <=> topics[t] # {}
=============================================================================
