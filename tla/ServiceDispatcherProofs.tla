------------------------ MODULE ServiceDispatcherProofs ------------------------
(***************************************************************************)
(* Theorems about ServiceDispatcher, for every set of sids and topics and  *)
(* every choice of implemented and throwing hooks.                         *)
(***************************************************************************)
EXTENDS ServiceDispatcher, FiniteSetTheorems, SequenceTheorems, TLAPS

MessageType == {"subscribe", "event", "unsubscribe"}

\* Write() keeps the transcripts and the set of failing responses well-typed.
LEMMA WriteType ==
    ASSUME TypeOK, NEW R, R \subseteq Sids, NEW type \in MessageType, Write(R, type)
    PROVE  /\ sent' \in [Sids -> Seq(MessageType)]
           /\ failing' \subseteq Sids
<1>1. \A s \in Sids : Append(sent[s], type) \in Seq(MessageType)
  BY DEF TypeOK, MessageType
<1>2. QED
  BY <1>1 DEF TypeOK, Write, MessageType

\* CloseTopic() keeps the parts it changes well-typed.
LEMMA CloseTopicType ==
    ASSUME TypeOK, NEW s \in Sids, NEW d, NEW rest, CloseTopic(s, d, rest)
    PROVE  /\ topics' \in [Topics -> Sids \cup {None}]
           /\ feeding' \subseteq Sids
           /\ watching' \subseteq Sids
  BY DEF TypeOK, CloseTopic

\* Cleanup(), the listener of 'end' and 'error', keeps everything but the sets
\* that record which listener fired well-typed.
LEMMA CleanupType ==
    ASSUME TypeOK, NEW s \in Sids, Cleanup(s),
           errored' \subseteq Sids, finished' \subseteq Sids
    PROVE  TypeOK'
<1> DEFINE d == desc[s]
<1>1. CASE s \in subscriptions
  <2>1. CloseTopic(s, d, subs[d] \ {s})
    BY <1>1 DEF Cleanup
  <2>2. subs' = [subs EXCEPT ![d] = @ \ {s}] /\ subscriptions' = subscriptions \ {s}
    BY <1>1 DEF Cleanup
  <2>3. subs' \in [Sids -> SUBSET Sids]
    BY <2>2 DEF TypeOK
  <2>4. QED
    BY <2>1, <2>2, <2>3, CloseTopicType DEF TypeOK, Cleanup
<1>2. CASE s \notin subscriptions
  <2>1. NotSubscribed(s)
    BY <1>2 DEF Cleanup
  <2>2. subs' \in [Sids -> SUBSET Sids]
    BY <2>1 DEF NotSubscribed, TypeOK
  <2>3. QED
    BY <2>1, <2>2 DEF NotSubscribed, TypeOK, Cleanup
<1>3. QED
  BY <1>1, <1>2

\* A subscribe request keeps the state well-typed, whichever hook throws.
LEMMA SubscribeType ==
    ASSUME TypeOK, NEW s \in Sids, NEW t \in Topics, Subscribe(s, t)
    PROVE  TypeOK'
<1> DEFINE first == topics[t] = None
           d     == IF first THEN s ELSE topics[t]
<1>1. d \in Sids
  BY DEF TypeOK
<1>2. /\ desc' = [desc EXCEPT ![s] = d]
      /\ topics' = [topics EXCEPT ![t] = d]
      /\ topicOf' = [topicOf EXCEPT ![d] = t]
      /\ subscriptions' = subscriptions \cup {s}
      /\ subs' = [subs EXCEPT ![d] = @ \cup {s}]
      /\ stream' = [stream EXCEPT ![s] = "open"]
      /\ UNCHANGED <<failing, errored, finished>>
  BY DEF Subscribe
<1>3. feeding' \subseteq Sids /\ watching' \subseteq Sids /\ lost' \subseteq Sids
  BY <1>1 DEF Subscribe, TypeOK
<1>4. sent' \in [Sids -> Seq(MessageType)]
  <2>1. PICK greeting \in {<<>>, <<"event">>} :
             sent' = [sent EXCEPT ![s] = <<"subscribe">> \o greeting]
    BY DEF Subscribe
  <2>2. <<"subscribe">> \o greeting \in Seq(MessageType)
    <3>1. "subscribe" \in MessageType /\ "event" \in MessageType
      BY DEF MessageType
    <3>2. <<>> \in Seq(MessageType) /\ <<"event">> \in Seq(MessageType)
      BY <3>1
    <3>3. <<"subscribe">> \in Seq(MessageType)
      BY <3>1
    <3>4. greeting \in Seq(MessageType)
      BY <3>2, Zenon
    <3>5. QED
      BY <3>3, <3>4, ConcatProperties
  <2>3. QED
    BY <2>1, <2>2 DEF TypeOK, MessageType
<1>5. QED
  BY <1>1, <1>2, <1>3, <1>4 DEF TypeOK, MessageType

\* The unsubscribe request keeps the state well-typed.
LEMMA UnsubscribeType ==
    ASSUME TypeOK, NEW s \in Sids, Unsubscribe(s)
    PROVE  TypeOK'
<1> DEFINE d == desc[s]
<1>1. CASE s \notin subscriptions
  <2>1. NotSubscribed(s) /\ UNCHANGED <<stream, sent, failing>>
    BY <1>1 DEF Unsubscribe
  <2>2. subs' \in [Sids -> SUBSET Sids]
    BY <2>1 DEF NotSubscribed, TypeOK
  <2>3. QED
    BY <2>1, <2>2 DEF Unsubscribe, NotSubscribed, TypeOK
<1>2. CASE s \in subscriptions
  <2>1. /\ CloseTopic(s, d, subs[d] \ {s})
        /\ subscriptions' = subscriptions \ {s}
        /\ subs' = [subs EXCEPT ![d] = @ \ {s}]
        /\ UNCHANGED <<desc, topicOf, lost, errored, finished>>
    BY <1>2 DEF Unsubscribe
  <2>2. subs' \in [Sids -> SUBSET Sids]
    BY <2>1 DEF TypeOK
  <2>3. /\ sent' \in [Sids -> Seq(MessageType)]
        /\ failing' \subseteq Sids
        /\ stream' \in [Sids -> {"none", "open", "ended"}]
    <3>1. CASE s \in subs[d]
      <4>1. Write({s}, "unsubscribe") /\ stream' = [stream EXCEPT ![s] = "ended"]
        BY <1>2, <3>1 DEF Unsubscribe
      <4>2. "unsubscribe" \in MessageType /\ {s} \subseteq Sids
        BY DEF MessageType
      <4>3. QED
        BY <4>1, <4>2, WriteType DEF TypeOK
    <3>2. CASE s \notin subs[d]
      <4>1. UNCHANGED <<stream, sent, failing>>
        BY <1>2, <3>2 DEF Unsubscribe
      <4>2. QED
        BY <4>1 DEF TypeOK, MessageType
    <3>3. QED
      BY <3>1, <3>2
  <2>4. QED
    BY <2>1, <2>2, <2>3, CloseTopicType DEF TypeOK, MessageType
<1>3. QED
  BY <1>1, <1>2

\* Every variable of the dispatcher, the responses and the service keeps its
\* type, for all the requests, publishes and stream events there are.
THEOREM TypeCorrect == Spec => []TypeOK
<1>1. Init => TypeOK
  BY DEF Init, TypeOK
<1>2. TypeOK /\ [Next]_vars => TypeOK'
  <2> SUFFICES ASSUME TypeOK, [Next]_vars PROVE TypeOK'
    OBVIOUS
  <2>1. ASSUME NEW s \in Sids, NEW t \in Topics, Subscribe(s, t) PROVE TypeOK'
    BY <2>1, SubscribeType
  <2>2. ASSUME NEW s \in Sids, Unsubscribe(s) PROVE TypeOK'
    BY <2>2, UnsubscribeType
  <2>3. ASSUME NEW s \in Sids, EndEvent(s) PROVE TypeOK'
    <3>1. Cleanup(s) /\ errored' \subseteq Sids /\ finished' \subseteq Sids
      BY <2>3 DEF EndEvent, TypeOK
    <3>2. QED
      BY <3>1, CleanupType
  <2>4. ASSUME NEW s \in Sids, ErrorEvent(s) PROVE TypeOK'
    <3>1. Cleanup(s) /\ errored' \subseteq Sids /\ finished' \subseteq Sids
      BY <2>4 DEF ErrorEvent, TypeOK
    <3>2. QED
      BY <3>1, CleanupType
  <2>5. ASSUME NEW s \in Sids, ConsumerEnd(s) PROVE TypeOK'
    BY <2>5 DEF ConsumerEnd, TypeOK, dispatcherVars, serviceVars
  <2>6. ASSUME NEW d \in Sids, PublishAll(d) PROVE TypeOK'
    <3>1. Write(subs[d], "event") /\ subs[d] \subseteq Sids /\ "event" \in MessageType
      BY <2>6 DEF PublishAll, TypeOK, MessageType
    <3>2. QED
      BY <2>6, <3>1, WriteType DEF PublishAll, TypeOK, MessageType, dispatcherVars, serviceVars
  <2>7. ASSUME NEW s \in Sids, PublishOne(s) PROVE TypeOK'
    <3>1. Write({s}, "event") /\ {s} \subseteq Sids /\ "event" \in MessageType
      BY <2>7 DEF PublishOne, MessageType
    <3>2. QED
      BY <2>7, <3>1, WriteType DEF PublishOne, TypeOK, MessageType, dispatcherVars, serviceVars
  <2>8. CASE UNCHANGED vars
    BY <2>8 DEF vars, dispatcherVars, streamVars, serviceVars, TypeOK
  <2>9. QED
    BY <2>1, <2>2, <2>3, <2>4, <2>5, <2>6, <2>7, <2>8 DEF Next
<1>3. QED
  BY <1>1, <1>2, PTL DEF Spec

-------------------------------------------------------------------------------
\* CloseTopic() at most takes the topic of its descriptor away.
LEMMA CloseTopicTopics ==
    ASSUME NEW s, NEW d, NEW rest, CloseTopic(s, d, rest)
    PROVE  \/ topics' = topics
           \/ rest = {} /\ topics' = [topics EXCEPT ![topicOf[d]] = None]
  BY DEF CloseTopic

\* The two ways out of a subscription (unsubscribe request, end of the response)
\* change the registry alike.
LEMMA LeaveRegistry ==
    ASSUME TypeOK, RegistryInv, NEW s \in Sids, s \in subscriptions,
           subscriptions' = subscriptions \ {s},
           subs' = [subs EXCEPT ![desc[s]] = @ \ {s}],
           CloseTopic(s, desc[s], subs[desc[s]] \ {s}),
           UNCHANGED <<desc, topicOf>>
    PROVE  RegistryInv'
<1> DEFINE d == desc[s]
<1>1. d \in Sids /\ topicOf[d] \in Topics /\ topics[topicOf[d]] = d
  BY DEF TypeOK, RegistryInv, DescriptorsAgree, NoStrandedSubscriber
<1>2. subs'[d] = subs[d] \ {s} /\ \A e \in Sids \ {d} : subs'[e] = subs[e]
  BY <1>1 DEF TypeOK
<1>3. \/ topics' = topics
      \/ subs[d] \ {s} = {} /\ topics' = [topics EXCEPT ![topicOf[d]] = None]
  BY CloseTopicTopics
<1>4. DescriptorsAgree'
  BY <1>1, <1>3 DEF TypeOK, RegistryInv, DescriptorsAgree
<1>5. NoGhostSubscriber'
  BY <1>1, <1>2 DEF TypeOK, RegistryInv, NoGhostSubscriber
<1>6. NoStrandedSubscriber'
  <2> SUFFICES ASSUME NEW r \in subscriptions, r # s
               PROVE  /\ r \in subs'[desc[r]]
                      /\ topics'[topicOf[desc[r]]] = desc[r]
    BY DEF NoStrandedSubscriber
  <2>1. r \in subs[desc[r]] /\ topics[topicOf[desc[r]]] = desc[r] /\ desc[r] \in Sids
    BY DEF TypeOK, RegistryInv, NoStrandedSubscriber, DescriptorsAgree
  <2>2. r \in subs'[desc[r]]
    BY <1>2, <2>1
  <2>3. topics'[topicOf[desc[r]]] = desc[r]
    <3>1. CASE desc[r] = d
      BY <1>3, <2>1, <3>1
    <3>2. CASE desc[r] # d
      <4>1. topicOf[desc[r]] # topicOf[d]
        BY <1>1, <2>1, <3>2
      <4>2. topicOf[desc[r]] \in Topics
        BY <2>1 DEF TypeOK, RegistryInv, DescriptorsAgree
      <4>3. topics'[topicOf[desc[r]]] = topics[topicOf[desc[r]]]
        BY <1>1, <1>3, <4>1, <4>2 DEF TypeOK
      <4>4. QED
        BY <2>1, <4>3
    <3>3. QED
      BY <3>1, <3>2
  <2>4. QED
    BY <2>2, <2>3
<1>7. QED
  BY <1>4, <1>5, <1>6 DEF RegistryInv

\* A sid that is not registered is in no descriptor: the sweep over the topics
\* finds nothing.
LEMMA SweepFindsNothing ==
    ASSUME TypeOK, NoGhostSubscriber, NEW s \in Sids, s \notin subscriptions, NotSubscribed(s)
    PROVE  UNCHANGED <<subscriptions, topics, subs, feeding, watching>>
<1>1. \A d \in Sids : subs[d] \ {s} = subs[d]
  BY DEF TypeOK, NoGhostSubscriber
<1>2. subs' = [d \in Sids |-> subs[d]]
  BY <1>1 DEF NotSubscribed
<1>3. QED
  BY <1>2 DEF NotSubscribed, TypeOK

LEMMA RegistryUnchanged ==
    ASSUME RegistryInv, UNCHANGED dispatcherVars
    PROVE  RegistryInv'
  BY DEF dispatcherVars, RegistryInv, DescriptorsAgree, NoStrandedSubscriber, NoGhostSubscriber

LEMMA CleanupRegistry ==
    ASSUME TypeOK, RegistryInv, NEW s \in Sids, Cleanup(s)
    PROVE  RegistryInv'
<1>1. CASE s \in subscriptions
  BY <1>1, LeaveRegistry DEF Cleanup
<1>2. CASE s \notin subscriptions
  <2>1. UNCHANGED dispatcherVars
    BY <1>2, SweepFindsNothing DEF Cleanup, RegistryInv, dispatcherVars
  <2>2. QED
    BY <2>1, RegistryUnchanged
<1>3. QED
  BY <1>1, <1>2

LEMMA SubscribeRegistry ==
    ASSUME TypeOK, RegistryInv, NEW s \in Sids, NEW t \in Topics, Subscribe(s, t)
    PROVE  RegistryInv'
<1> DEFINE first == topics[t] = None
           d     == IF first THEN s ELSE topics[t]
<1>1. /\ desc[s] = None
      /\ desc' = [desc EXCEPT ![s] = d]
      /\ topics' = [topics EXCEPT ![t] = d]
      /\ topicOf' = [topicOf EXCEPT ![d] = t]
      /\ subscriptions' = subscriptions \cup {s}
      /\ subs' = [subs EXCEPT ![d] = @ \cup {s}]
  BY DEF Subscribe
<1>2. d \in Sids /\ t # None /\ s # None
  BY SDAssumption DEF TypeOK, SDAssumption
<1>3. topicOf[s] = None /\ s \notin subscriptions /\ (\A r \in Sids : desc[r] # s) /\ subs[s] = {}
  <2>1. topicOf[s] = None /\ s \notin subscriptions
    BY <1>1, <1>2 DEF RegistryInv, DescriptorsAgree
  <2>2. \A r \in Sids : desc[r] # s
    BY <1>2, <2>1 DEF RegistryInv, DescriptorsAgree
  <2>3. subs[s] = {}
    BY <2>2 DEF TypeOK, RegistryInv, NoGhostSubscriber
  <2>4. QED
    BY <2>1, <2>2, <2>3
<1>4. d # s => topicOf[d] = t /\ desc[d] = d
  BY <1>2 DEF RegistryInv, DescriptorsAgree
<1>5. topicOf'[d] = t /\ desc'[s] = d /\ topics'[t] = d /\ subs'[d] = subs[d] \cup {s}
  BY <1>1, <1>2 DEF TypeOK
<1>6. /\ \A e \in Sids \ {d} : topicOf'[e] = topicOf[e] /\ subs'[e] = subs[e]
      /\ \A r \in Sids \ {s} : desc'[r] = desc[r]
      /\ \A u \in Topics \ {t} : topics'[u] = topics[u]
  BY <1>1, <1>2 DEF TypeOK
<1>7. DescriptorsAgree'
  <2>1. \A u \in Topics : topics'[u] # None => topicOf'[topics'[u]] = u
    <3>1. ASSUME NEW u \in Topics \ {t}, topics[u] # None PROVE topicOf'[topics[u]] = u
      <4>1. topics[u] \in Sids /\ topicOf[topics[u]] = u
        BY <3>1 DEF TypeOK, RegistryInv, DescriptorsAgree
      <4>2. topics[u] # d
        BY <1>2, <1>3, <1>4, <3>1, <4>1, SDAssumption DEF SDAssumption
      <4>3. QED
        BY <1>6, <4>1, <4>2
    <3>2. QED
      BY <1>5, <1>6, <3>1
  <2>2. \A r \in Sids : desc'[r] # None => topicOf'[desc'[r]] # None
    BY <1>2, <1>3, <1>5, <1>6 DEF TypeOK, RegistryInv, DescriptorsAgree
  <2>3. \A e \in Sids : topicOf'[e] # None => desc'[e] = e
    BY <1>2, <1>3, <1>4, <1>5, <1>6 DEF RegistryInv, DescriptorsAgree
  <2>4. \A r \in subscriptions' : desc'[r] # None
    BY <1>1, <1>2, <1>5, <1>6, SDAssumption DEF TypeOK, RegistryInv, DescriptorsAgree, SDAssumption
  <2>5. QED
    BY <2>1, <2>2, <2>3, <2>4 DEF DescriptorsAgree
<1>8. NoGhostSubscriber'
  BY <1>1, <1>2, <1>3, <1>5, <1>6 DEF TypeOK, RegistryInv, NoGhostSubscriber
<1>9. NoStrandedSubscriber'
  <2>1. s \in subs'[desc'[s]] /\ topics'[topicOf'[desc'[s]]] = desc'[s]
    BY <1>5
  <2>2. ASSUME NEW r \in subscriptions, r # s
        PROVE  r \in subs'[desc'[r]] /\ topics'[topicOf'[desc'[r]]] = desc'[r]
    <3>1. /\ r \in Sids /\ desc[r] \in Sids /\ desc'[r] = desc[r] /\ desc[r] # s
          /\ r \in subs[desc[r]] /\ topics[topicOf[desc[r]]] = desc[r]
          /\ topicOf[desc[r]] \in Topics
      BY <1>3, <1>6 DEF TypeOK, RegistryInv, DescriptorsAgree, NoStrandedSubscriber
    <3>2. CASE desc[r] = d
      BY <1>4, <1>5, <3>1, <3>2
    <3>3. CASE desc[r] # d
      <4>1. topicOf'[desc[r]] = topicOf[desc[r]] /\ subs'[desc[r]] = subs[desc[r]]
        BY <1>6, <3>1, <3>3
      <4>2. topicOf[desc[r]] # t
        BY <1>2, <3>1, <3>3, SDAssumption DEF SDAssumption
      <4>3. QED
        BY <1>6, <3>1, <4>1, <4>2
    <3>4. QED
      BY <3>2, <3>3
  <2>3. QED
    BY <1>1, <2>1, <2>2 DEF NoStrandedSubscriber
<1>10. QED
  BY <1>7, <1>8, <1>9 DEF RegistryInv

\* The registry, the closures of the requests and the descriptors agree for ever.
THEOREM RegistryCorrect == Spec => []RegistryInv
<1>1. Init => RegistryInv
  BY DEF Init, RegistryInv, DescriptorsAgree, NoStrandedSubscriber, NoGhostSubscriber
<1>2. TypeOK /\ RegistryInv /\ [Next]_vars => RegistryInv'
  <2> SUFFICES ASSUME TypeOK, RegistryInv, [Next]_vars PROVE RegistryInv'
    OBVIOUS
  <2>1. ASSUME NEW s \in Sids, NEW t \in Topics, Subscribe(s, t) PROVE RegistryInv'
    BY <2>1, SubscribeRegistry
  <2>2. ASSUME NEW s \in Sids, Unsubscribe(s) PROVE RegistryInv'
    <3>1. CASE s \in subscriptions
      BY <2>2, <3>1, LeaveRegistry DEF Unsubscribe
    <3>2. CASE s \notin subscriptions
      <4>1. UNCHANGED dispatcherVars
        BY <2>2, <3>2, SweepFindsNothing DEF Unsubscribe, RegistryInv, dispatcherVars
      <4>2. QED
        BY <4>1, RegistryUnchanged
    <3>3. QED
      BY <3>1, <3>2
  <2>3. ASSUME NEW s \in Sids, EndEvent(s) PROVE RegistryInv'
    BY <2>3, CleanupRegistry DEF EndEvent
  <2>4. ASSUME NEW s \in Sids, ErrorEvent(s) PROVE RegistryInv'
    BY <2>4, CleanupRegistry DEF ErrorEvent
  <2>5. ASSUME NEW s \in Sids, ConsumerEnd(s) PROVE RegistryInv'
    BY <2>5, RegistryUnchanged DEF ConsumerEnd
  <2>6. ASSUME NEW d \in Sids, PublishAll(d) PROVE RegistryInv'
    BY <2>6, RegistryUnchanged DEF PublishAll
  <2>7. ASSUME NEW s \in Sids, PublishOne(s) PROVE RegistryInv'
    BY <2>7, RegistryUnchanged DEF PublishOne
  <2>8. CASE UNCHANGED vars
    BY <2>8, RegistryUnchanged DEF vars
  <2>9. QED
    BY <2>1, <2>2, <2>3, <2>4, <2>5, <2>6, <2>7, <2>8 DEF Next
<1>3. QED
  BY <1>1, <1>2, TypeCorrect, PTL DEF Spec

\* Whichever hooks throw, a late 'end', 'error' or unsubscribe request of one
\* subscriber never separates another from the descriptor its topic publishes
\* through, and leaves nothing of its own behind in any descriptor.
THEOREM NobodyStranded == Spec => [](NoStrandedSubscriber /\ NoGhostSubscriber)
  BY RegistryCorrect, PTL DEF RegistryInv

-------------------------------------------------------------------------------
\* Leaving a subscription: the last one takes the topic and its source away.
LEMMA LeaveSources ==
    ASSUME CleanService, TypeOK, RegistryInv, SourceInv, NEW s \in Sids, s \in subscriptions,
           subscriptions' = subscriptions \ {s},
           subs' = [subs EXCEPT ![desc[s]] = @ \ {s}],
           CloseTopic(s, desc[s], subs[desc[s]] \ {s}),
           UNCHANGED <<desc, topicOf>>
    PROVE  SourceInv' /\ (EveryTopicFed => EveryTopicFed')
<1> DEFINE d == desc[s]
           t == topicOf[d]
<1>1. d \in Sids /\ t \in Topics /\ topics[t] = d
  BY DEF TypeOK, RegistryInv, DescriptorsAgree, NoStrandedSubscriber
<1>2. subs'[d] = subs[d] \ {s} /\ \A e \in Sids \ {d} : subs'[e] = subs[e]
  BY <1>1 DEF TypeOK
<1>3. \A u \in Topics \ {t} : topics[u] # None => topics[u] \in Sids \ {d}
  BY <1>1 DEF TypeOK, RegistryInv, DescriptorsAgree
<1>4. \A e \in feeding \ {d} : topicOf[e] \in Topics \ {t}
  BY <1>1 DEF TypeOK, SourceInv, OneSourcePerTopic
<1>5. CASE subs[d] \ {s} = {}
  <2>1. /\ topics' = [topics EXCEPT ![t] = None]
        /\ feeding' = feeding \ {d}
    BY <1>5 DEF CloseTopic, CleanService, Outcomes
  <2>2. topics'[t] = None /\ \A u \in Topics \ {t} : topics'[u] = topics[u]
    BY <1>1, <2>1 DEF TypeOK
  <2>3. \A u \in Topics : topics'[u] # None => subs'[topics'[u]] # {}
    BY <1>2, <1>3, <2>2 DEF SourceInv
  <2>4. OneSourcePerTopic' /\ \A e \in feeding' : topicOf'[e] # None
    BY <1>4, <2>1, <2>2 DEF SourceInv, OneSourcePerTopic
  <2>5. EveryTopicFed => EveryTopicFed'
    BY <1>3, <2>1, <2>2 DEF EveryTopicFed
  <2>6. QED
    BY <2>3, <2>4, <2>5 DEF SourceInv
<1>6. CASE subs[d] \ {s} # {}
  <2>1. topics' = topics /\ feeding' = feeding
    BY <1>6 DEF CloseTopic
  <2>2. \A u \in Topics : topics'[u] # None => subs'[topics'[u]] # {}
    BY <1>1, <1>2, <1>3, <1>6, <2>1 DEF SourceInv
  <2>3. QED
    BY <2>1, <2>2 DEF SourceInv, OneSourcePerTopic, EveryTopicFed
<1>7. QED
  BY <1>5, <1>6

LEMMA SourcesUnchanged ==
    ASSUME SourceInv, UNCHANGED <<dispatcherVars, feeding>>
    PROVE  SourceInv' /\ (EveryTopicFed => EveryTopicFed')
  BY DEF dispatcherVars, SourceInv, OneSourcePerTopic, EveryTopicFed

LEMMA CleanupSources ==
    ASSUME CleanService, TypeOK, RegistryInv, SourceInv, NEW s \in Sids, Cleanup(s)
    PROVE  SourceInv' /\ (EveryTopicFed => EveryTopicFed')
<1>1. CASE s \in subscriptions
  BY <1>1, LeaveSources DEF Cleanup
<1>2. CASE s \notin subscriptions
  <2>1. UNCHANGED <<dispatcherVars, feeding>>
    BY <1>2, SweepFindsNothing DEF Cleanup, RegistryInv, dispatcherVars
  <2>2. QED
    BY <2>1, SourcesUnchanged
<1>3. QED
  BY <1>1, <1>2

LEMMA UnsubscribeSources ==
    ASSUME CleanService, TypeOK, RegistryInv, SourceInv, NEW s \in Sids, Unsubscribe(s)
    PROVE  SourceInv' /\ (EveryTopicFed => EveryTopicFed')
<1>1. CASE s \in subscriptions
  BY <1>1, LeaveSources DEF Unsubscribe
<1>2. CASE s \notin subscriptions
  <2>1. UNCHANGED <<dispatcherVars, feeding>>
    BY <1>2, SweepFindsNothing DEF Unsubscribe, RegistryInv, dispatcherVars
  <2>2. QED
    BY <2>1, SourcesUnchanged
<1>3. QED
  BY <1>1, <1>2

LEMMA SubscribeSources ==
    ASSUME CleanService, TypeOK, RegistryInv, SourceInv,
           NEW s \in Sids, NEW t \in Topics, Subscribe(s, t)
    PROVE  /\ SourceInv'
           /\ EveryTopicFed /\ "initSubscription" \notin Throwing => EveryTopicFed'
<1> DEFINE first == topics[t] = None
           d     == IF first THEN s ELSE topics[t]
<1>1. /\ desc[s] = None
      /\ topics' = [topics EXCEPT ![t] = d]
      /\ topicOf' = [topicOf EXCEPT ![d] = t]
      /\ subs' = [subs EXCEPT ![d] = @ \cup {s}]
      /\ feeding' \in {feeding, feeding \cup {d}}
      /\ ~first => feeding' = feeding
      /\ first /\ "initSubscription" \notin Throwing => feeding' = feeding \cup {d}
  BY DEF Subscribe, CleanService, Outcomes
<1>2. d \in Sids /\ t # None /\ s # None
  BY SDAssumption DEF TypeOK, SDAssumption
<1>3. topicOf[s] = None
  BY <1>1, <1>2 DEF RegistryInv, DescriptorsAgree
<1>4. d # s => topicOf[d] = t
  BY <1>2 DEF RegistryInv, DescriptorsAgree
<1>5. /\ topicOf'[d] = t /\ topics'[t] = d /\ subs'[d] = subs[d] \cup {s}
      /\ \A e \in Sids \ {d} : topicOf'[e] = topicOf[e] /\ subs'[e] = subs[e]
      /\ \A u \in Topics \ {t} : topics'[u] = topics[u]
  BY <1>1, <1>2 DEF TypeOK
<1>6. ASSUME NEW u \in Topics \ {t}, topics[u] # None
      PROVE  topics[u] \in Sids \ {d}
  <2>1. topics[u] \in Sids /\ topicOf[topics[u]] = u /\ u # None
    BY <1>6, SDAssumption DEF TypeOK, RegistryInv, DescriptorsAgree, SDAssumption
  <2>2. QED
    BY <1>3, <1>4, <2>1
<1>7. \A u \in Topics : topics'[u] # None => subs'[topics'[u]] # {}
  BY <1>5, <1>6 DEF SourceInv
<1>8. ASSUME NEW e \in feeding'
      PROVE  topicOf'[e] # None /\ topics'[topicOf'[e]] = e
  <2>1. CASE e = d
    BY <1>2, <1>5, <2>1
  <2>2. CASE e # d
    <3>1. /\ e \in Sids /\ topicOf'[e] = topicOf[e]
          /\ topicOf[e] \in Topics /\ topics[topicOf[e]] = e
      BY <1>1, <1>5, <1>8, <2>2 DEF TypeOK, SourceInv, OneSourcePerTopic
    <3>2. topicOf[e] # t
      BY <2>2, <3>1, <1>2, SDAssumption DEF SDAssumption
    <3>3. topics'[topicOf[e]] = topics[topicOf[e]]
      BY <1>5, <3>1, <3>2
    <3>4. topicOf[e] # None
      BY <3>1, SDAssumption DEF SDAssumption
    <3>5. QED
      BY <3>1, <3>3, <3>4
  <2>3. QED
    BY <2>1, <2>2
<1>9. EveryTopicFed /\ "initSubscription" \notin Throwing => EveryTopicFed'
  BY <1>1, <1>5 DEF EveryTopicFed
<1>10. QED
  BY <1>7, <1>8, <1>9 DEF SourceInv, OneSourcePerTopic

\* One step of any kind keeps the topics and their sources paired.
LEMMA SourcesStep ==
    ASSUME CleanService, TypeOK, RegistryInv, SourceInv, [Next]_vars
    PROVE  /\ SourceInv'
           /\ EveryTopicFed /\ "initSubscription" \notin Throwing => EveryTopicFed'
<1>1. ASSUME NEW s \in Sids, NEW t \in Topics, Subscribe(s, t)
      PROVE  /\ SourceInv'
             /\ EveryTopicFed /\ "initSubscription" \notin Throwing => EveryTopicFed'
  BY <1>1, SubscribeSources
<1>2. ASSUME NEW s \in Sids, Unsubscribe(s) \/ EndEvent(s) \/ ErrorEvent(s)
      PROVE  SourceInv' /\ (EveryTopicFed => EveryTopicFed')
  BY <1>2, UnsubscribeSources, CleanupSources DEF EndEvent, ErrorEvent
<1>3. ASSUME NEW s \in Sids, ConsumerEnd(s) \/ PublishAll(s) \/ PublishOne(s)
      PROVE  SourceInv' /\ (EveryTopicFed => EveryTopicFed')
  BY <1>3, SourcesUnchanged DEF ConsumerEnd, PublishAll, PublishOne, serviceVars
<1>4. CASE UNCHANGED vars
  BY <1>4, SourcesUnchanged DEF vars, serviceVars
<1>5. QED
  BY <1>1, <1>2, <1>3, <1>4 DEF Next

\* A service that pairs its topic hooks, with clean-up hooks that do not throw,
\* has at most one source per topic and none for a topic without subscribers.
THEOREM SourcesCorrect ==
    ASSUME CleanService
    PROVE  Spec => []OneSourceWhileNeeded
<1>1. Init => SourceInv
  BY DEF Init, SourceInv, OneSourcePerTopic
<1>2. TypeOK /\ RegistryInv /\ SourceInv /\ [Next]_vars => SourceInv'
  BY SourcesStep
<1>3. TypeOK /\ SourceInv => OneSourceWhileNeeded
  <2> SUFFICES ASSUME TypeOK, SourceInv, NEW d \in feeding PROVE subs[d] # {}
    BY DEF SourceInv, NoIdleSource, OneSourceWhileNeeded
  <2>1. d \in Sids /\ topicOf[d] \in Topics /\ topics[topicOf[d]] = d
    BY DEF TypeOK, SourceInv, OneSourcePerTopic
  <2>2. QED
    BY <2>1, SDAssumption DEF SourceInv, SDAssumption
<1>4. QED
  BY <1>1, <1>2, <1>3, TypeCorrect, RegistryCorrect, PTL DEF Spec

\* If its initSubscription() does not throw either, every subscriber is fed: the
\* descriptor it is in has a running source.
THEOREM SubscribersAlwaysFed ==
    ASSUME CleanService, "initSubscription" \notin Throwing
    PROVE  Spec => []SubscribersAreFed
<1>1. Init => SourceInv /\ EveryTopicFed
  BY DEF Init, SourceInv, OneSourcePerTopic, EveryTopicFed
<1>2. TypeOK /\ RegistryInv /\ SourceInv /\ EveryTopicFed /\ [Next]_vars
        => SourceInv' /\ EveryTopicFed'
  BY SourcesStep
<1>3. TypeOK /\ RegistryInv /\ EveryTopicFed => SubscribersAreFed
  <2> SUFFICES ASSUME TypeOK, RegistryInv, EveryTopicFed, NEW s \in subscriptions
               PROVE  desc[s] \in feeding
    BY DEF SubscribersAreFed
  <2>1. s \in Sids /\ desc[s] \in Sids /\ topicOf[desc[s]] \in Topics
    BY DEF TypeOK, RegistryInv, DescriptorsAgree
  <2>2. topics[topicOf[desc[s]]] = desc[s] /\ desc[s] # None
    BY <2>1, SDAssumption DEF RegistryInv, NoStrandedSubscriber, SDAssumption
  <2>3. QED
    BY <2>1, <2>2 DEF EveryTopicFed
<1>4. QED
  BY <1>1, <1>2, <1>3, TypeCorrect, RegistryCorrect, PTL DEF Spec

-------------------------------------------------------------------------------
\* What LeavingUndoesAll rests on: a response that a write can fail on, or has,
\* belongs to a request that was made; one whose 'error' was emitted has been
\* unsubscribed; only services with onUnsubscribe() publish to one subscriber.
LeavingInv ==
    /\ NoIdleWatcher
    /\ "onUnsubscribe" \notin Implemented => watching = {}
    /\ \A s \in failing \cup errored : desc[s] # None
    /\ \A s \in errored : s \notin subscriptions

\* A way out of a subscription calls onUnsubscribe(), where it is implemented.
LEMMA CloseTopicWatching ==
    ASSUME "onUnsubscribe" \notin Throwing, LeavingInv, NEW s, NEW d, NEW rest, CloseTopic(s, d, rest)
    PROVE  watching' = watching \ {s}
<1>1. PICK o \in Outcomes("onUnsubscribe") :
        watching' = IF o = "ok" THEN watching \ {s} ELSE watching
  BY DEF CloseTopic
<1>2. CASE "onUnsubscribe" \in Implemented
  BY <1>1, <1>2 DEF Outcomes
<1>3. CASE "onUnsubscribe" \notin Implemented
  BY <1>1, <1>3 DEF LeavingInv
<1>4. QED
  BY <1>2, <1>3

LEMMA CleanupStopsWatching ==
    ASSUME "onUnsubscribe" \notin Throwing, TypeOK, RegistryInv, LeavingInv, NEW s \in Sids, Cleanup(s)
    PROVE  /\ subscriptions' = subscriptions \ {s}
           /\ watching' = watching \ {s}
           /\ desc' = desc /\ failing' = failing
<1>1. CASE s \in subscriptions
  BY <1>1, CloseTopicWatching DEF Cleanup
<1>2. CASE s \notin subscriptions
  <2>1. UNCHANGED <<subscriptions, watching>>
    BY <1>2, SweepFindsNothing DEF Cleanup, RegistryInv
  <2>2. s \notin watching
    BY <1>2 DEF LeavingInv, NoIdleWatcher
  <2>3. QED
    BY <1>2, <2>1, <2>2 DEF Cleanup
<1>3. QED
  BY <1>1, <1>2

LEMMA LeavingStep ==
    ASSUME "onUnsubscribe" \notin Throwing, TypeOK, RegistryInv, LeavingInv, [Next]_vars
    PROVE  LeavingInv'
<1>1. ASSUME NEW s \in Sids, NEW t \in Topics, Subscribe(s, t) PROVE LeavingInv'
  <2>1. /\ desc[s] = None
        /\ subscriptions' = subscriptions \cup {s}
        /\ UNCHANGED <<failing, errored>>
        /\ watching' \subseteq watching \cup {s}
        /\ "onUnsubscribe" \notin Implemented => watching' = watching
    BY <1>1 DEF Subscribe
  <2>2. s \notin errored
    BY <2>1 DEF LeavingInv
  <2>3. \A r \in Sids : desc[r] # None => desc'[r] # None
    <3>1. desc' = [desc EXCEPT ![s] = IF topics[t] = None THEN s ELSE topics[t]]
      BY <1>1 DEF Subscribe
    <3>2. QED
      BY <2>1, <3>1 DEF TypeOK
  <2>4. failing \cup errored \subseteq Sids
    BY DEF TypeOK
  <2>5. QED
    BY <2>1, <2>2, <2>3, <2>4 DEF LeavingInv, NoIdleWatcher
<1>2. ASSUME NEW s \in Sids, Unsubscribe(s) PROVE LeavingInv'
  <2>1. CASE s \in subscriptions
    <3>1. /\ subscriptions' = subscriptions \ {s}
          /\ UNCHANGED <<desc, errored>>
          /\ desc[s] # None
          /\ failing' \subseteq failing \cup {s}
      BY <1>2, <2>1 DEF Unsubscribe, Write
    <3>2. watching' = watching \ {s}
      BY <1>2, <2>1, CloseTopicWatching DEF Unsubscribe
    <3>3. QED
      BY <3>1, <3>2 DEF LeavingInv, NoIdleWatcher
  <2>2. CASE s \notin subscriptions
    <3>1. UNCHANGED <<desc, errored, failing, subscriptions, watching>>
      BY <1>2, <2>2 DEF Unsubscribe, NotSubscribed
    <3>2. QED
      BY <3>1 DEF LeavingInv, NoIdleWatcher
  <2>3. QED
    BY <2>1, <2>2
<1>3. ASSUME NEW s \in Sids, EndEvent(s) PROVE LeavingInv'
  <2>1. Cleanup(s) /\ errored' = errored
    BY <1>3 DEF EndEvent
  <2>2. QED
    BY <2>1, CleanupStopsWatching DEF LeavingInv, NoIdleWatcher
<1>4. ASSUME NEW s \in Sids, ErrorEvent(s) PROVE LeavingInv'
  <2>1. Cleanup(s) /\ errored' = errored \cup {s} /\ s \in failing
    BY <1>4 DEF ErrorEvent
  <2>2. QED
    BY <2>1, CleanupStopsWatching DEF LeavingInv, NoIdleWatcher
<1>5. ASSUME NEW s \in Sids, ConsumerEnd(s) PROVE LeavingInv'
  BY <1>5 DEF ConsumerEnd, LeavingInv, NoIdleWatcher, dispatcherVars, serviceVars
<1>6. ASSUME NEW d \in Sids, PublishAll(d) PROVE LeavingInv'
  <2>1. /\ UNCHANGED <<subscriptions, desc, watching, errored>>
        /\ failing' \subseteq failing \cup subs[d]
    BY <1>6 DEF PublishAll, Write, dispatcherVars, serviceVars
  <2>2. \A s \in subs[d] : desc[s] # None
    BY SDAssumption DEF SDAssumption, RegistryInv, NoGhostSubscriber
  <2>3. QED
    BY <2>1, <2>2 DEF LeavingInv, NoIdleWatcher
<1>7. ASSUME NEW s \in Sids, PublishOne(s) PROVE LeavingInv'
  <2>1. /\ UNCHANGED <<subscriptions, desc, watching, errored>>
        /\ failing' \subseteq failing \cup {s}
        /\ s \in watching
    BY <1>7 DEF PublishOne, Write, dispatcherVars, serviceVars
  <2>2. desc[s] # None
    BY <2>1 DEF LeavingInv, NoIdleWatcher, RegistryInv, DescriptorsAgree
  <2>3. QED
    BY <2>1, <2>2 DEF LeavingInv, NoIdleWatcher
<1>8. CASE UNCHANGED vars
  BY <1>8 DEF vars, dispatcherVars, streamVars, serviceVars, LeavingInv, NoIdleWatcher
<1>9. QED
  BY <1>1, <1>2, <1>3, <1>4, <1>5, <1>6, <1>7, <1>8 DEF Next

\* When onUnsubscribe() does not throw, neither a source nor a single publisher is
\* left with a response that nobody is subscribed with or whose 'error' listener
\* has fired, on whichever way the subscription ended.
THEOREM LeavingIsComplete ==
    ASSUME "onUnsubscribe" \notin Throwing
    PROVE  Spec => []LeavingUndoesAll
<1>1. Init => LeavingInv
  BY DEF Init, LeavingInv, NoIdleWatcher
<1>2. TypeOK /\ RegistryInv /\ LeavingInv /\ [Next]_vars => LeavingInv'
  BY LeavingStep
<1>3. TypeOK /\ RegistryInv /\ LeavingInv => LeavingUndoesAll
  BY DEF TypeOK, RegistryInv, NoGhostSubscriber, LeavingInv, NoIdleWatcher, LeavingUndoesAll,
         ErrorsAreHandled
<1>4. QED
  BY <1>1, <1>2, <1>3, TypeCorrect, RegistryCorrect, PTL DEF Spec

-------------------------------------------------------------------------------
\* What Transcript rests on: a response has no messages before its request, its
\* first when it is opened, and is ended together with its last.
WellTold(s) ==
    /\ \A i \in 1..Len(sent[s]) :
         /\ (i = 1) <=> (sent[s][i] = "subscribe")
         /\ sent[s][i] = "unsubscribe" =>
              i = Len(sent[s]) /\ s \notin subscriptions /\ stream[s] = "ended"
    /\ desc[s] = None => stream[s] = "none" /\ sent[s] = <<>>
    /\ stream[s] = "open" => sent[s] # <<>>

TranscriptInv == \A s \in Sids : WellTold(s)

\* Write() appends to open responses only.
LEMMA WriteAppends ==
    ASSUME TypeOK, NEW R, NEW type, Write(R, type), NEW s \in Sids
    PROVE  \/ sent'[s] = sent[s]
           \/ s \in R /\ stream[s] = "open" /\ sent'[s] = Append(sent[s], type)
  BY DEF Write, Writable

\* A message after the first, which is not "subscribe", and is the last one if it
\* is "unsubscribe".
LEMMA AppendTold ==
    ASSUME TypeOK, NEW s \in Sids, WellTold(s), stream[s] = "open", desc' = desc,
           NEW type \in {"event", "unsubscribe"}, sent'[s] = Append(sent[s], type),
           subscriptions' \subseteq subscriptions, stream'[s] \in {"open", "ended"},
           type = "unsubscribe" => s \notin subscriptions' /\ stream'[s] = "ended"
    PROVE  WellTold(s)'
<1> DEFINE q == sent[s]
           n == Len(q)
<1>1. q \in Seq(MessageType) /\ q # <<>> /\ desc[s] # None
  BY DEF TypeOK, MessageType, WellTold
<1>2. /\ n \in Nat /\ n > 0 /\ Len(sent'[s]) = n + 1
      /\ \A i \in 1..n : sent'[s][i] = q[i]
      /\ sent'[s][n + 1] = type
  BY <1>1
<1>3. \A i \in 1..n : q[i] # "unsubscribe" /\ ((i = 1) <=> (q[i] = "subscribe"))
  BY DEF WellTold
<1>4. ASSUME NEW i \in 1..Len(sent'[s])
      PROVE  /\ (i = 1) <=> (sent'[s][i] = "subscribe")
             /\ sent'[s][i] = "unsubscribe" =>
                  i = Len(sent'[s]) /\ s \notin subscriptions' /\ stream'[s] = "ended"
  <2>1. CASE i \in 1..n
    BY <1>2, <1>3, <2>1
  <2>2. CASE i = n + 1
    BY <1>2, <2>2
  <2>3. QED
    BY <1>2, <1>4, <2>1, <2>2
<1>5. sent'[s] # <<>>
  BY <1>1, <1>2
<1>6. QED
  BY <1>1, <1>4, <1>5 DEF WellTold

\* A response whose messages, request and registration stay, or that is ended or
\* unregistered, stays well told.
LEMMA KeptTold ==
    ASSUME NEW s \in Sids, WellTold(s), sent'[s] = sent[s], desc'[s] = desc[s],
           s \in subscriptions' => s \in subscriptions,
           stream'[s] = stream[s] \/ (stream'[s] = "ended" /\ desc[s] # None)
    PROVE  WellTold(s)'
  BY DEF WellTold

LEMMA CleanupTold ==
    ASSUME TypeOK, TranscriptInv, NEW s \in Sids, Cleanup(s)
    PROVE  TranscriptInv'
<1>1. UNCHANGED <<desc, stream, sent>> /\ subscriptions' \subseteq subscriptions
  BY DEF Cleanup, NotSubscribed
<1>2. QED
  BY <1>1, KeptTold DEF TranscriptInv

LEMMA PublishTold ==
    ASSUME TypeOK, TranscriptInv, NEW R, Write(R, "event"),
           UNCHANGED <<subscriptions, desc, stream>>
    PROVE  TranscriptInv'
<1> SUFFICES ASSUME NEW s \in Sids PROVE WellTold(s)'
  BY DEF TranscriptInv
<1>1. CASE sent'[s] = sent[s]
  BY <1>1, KeptTold DEF TranscriptInv
<1>2. CASE stream[s] = "open" /\ sent'[s] = Append(sent[s], "event")
  BY <1>2, AppendTold DEF TranscriptInv
<1>3. QED
  BY <1>1, <1>2, WriteAppends

LEMMA SubscribeTold ==
    ASSUME TypeOK, TranscriptInv, NEW s \in Sids, NEW t \in Topics, Subscribe(s, t)
    PROVE  TranscriptInv'
<1>1. /\ desc[s] = None
      /\ stream' = [stream EXCEPT ![s] = "open"]
      /\ subscriptions' = subscriptions \cup {s}
      /\ \A r \in Sids \ {s} : desc'[r] = desc[r]
      /\ desc'[s] # None
  <2>1. /\ desc[s] = None
        /\ stream' = [stream EXCEPT ![s] = "open"]
        /\ subscriptions' = subscriptions \cup {s}
        /\ desc' = [desc EXCEPT ![s] = IF topics[t] = None THEN s ELSE topics[t]]
    BY DEF Subscribe
  <2>2. QED
    BY <2>1, SDAssumption DEF TypeOK, SDAssumption
<1>2. PICK greeting \in {<<>>, <<"event">>} :
           sent' = [sent EXCEPT ![s] = <<"subscribe">> \o greeting]
  BY DEF Subscribe
<1>3. WellTold(s)'
  <2>1. sent'[s] = <<"subscribe">> \o greeting /\ stream'[s] = "open"
    BY <1>1, <1>2 DEF TypeOK
  <2>2. CASE greeting = <<>>
    <3>1. sent'[s] = <<"subscribe">>
      BY <2>1, <2>2
    <3>2. QED
      BY <1>1, <2>1, <3>1 DEF WellTold
  <2>3. CASE greeting = <<"event">>
    <3> DEFINE q == <<"subscribe">> \o <<"event">>
    <3>1. Len(q) = 2 /\ q[1] = "subscribe" /\ q[2] = "event" /\ q # <<>>
      OBVIOUS
    <3>2. sent'[s] = q
      BY <2>1, <2>3
    <3> HIDE DEF q
    <3>3. QED
      BY <1>1, <2>1, <3>1, <3>2 DEF WellTold
  <2>4. QED
    BY <1>2, <2>2, <2>3
<1>4. ASSUME NEW r \in Sids \ {s} PROVE WellTold(r)'
  <2>1. sent'[r] = sent[r] /\ stream'[r] = stream[r]
    BY <1>1, <1>2 DEF TypeOK
  <2>2. QED
    BY <1>1, <2>1, KeptTold DEF TranscriptInv
<1>5. QED
  BY <1>3, <1>4 DEF TranscriptInv

LEMMA UnsubscribeTold ==
    ASSUME TypeOK, TranscriptInv, NEW s \in Sids, Unsubscribe(s)
    PROVE  TranscriptInv'
<1>1. desc' = desc /\ desc[s] # None
  BY DEF Unsubscribe
<1>2. CASE s \in subscriptions /\ s \in subs[desc[s]]
  <2>1. /\ Write({s}, "unsubscribe")
        /\ stream' = [stream EXCEPT ![s] = "ended"]
        /\ subscriptions' = subscriptions \ {s}
    BY <1>2 DEF Unsubscribe
  <2>2. stream'[s] = "ended" /\ \A r \in Sids \ {s} : stream'[r] = stream[r]
    BY <2>1 DEF TypeOK
  <2>3. ASSUME NEW r \in Sids PROVE WellTold(r)'
    <3>1. CASE sent'[r] = sent[r]
      BY <1>1, <2>1, <2>2, <3>1, KeptTold DEF TranscriptInv
    <3>2. CASE r = s /\ stream[r] = "open" /\ sent'[r] = Append(sent[r], "unsubscribe")
      BY <1>1, <2>1, <2>2, <3>2, AppendTold DEF TranscriptInv
    <3>3. QED
      BY <2>1, <3>1, <3>2, WriteAppends
  <2>4. QED
    BY <2>3 DEF TranscriptInv
<1>3. CASE ~(s \in subscriptions /\ s \in subs[desc[s]])
  <2>1. UNCHANGED <<stream, sent>> /\ subscriptions' \subseteq subscriptions
    BY <1>3 DEF Unsubscribe, NotSubscribed
  <2>2. QED
    BY <1>1, <2>1, KeptTold DEF TranscriptInv
<1>4. QED
  BY <1>2, <1>3

\* A response carries "subscribe" first, then events, and nothing after
\* "unsubscribe", whichever hooks throw and however requests, publishes and stream
\* events interleave.
THEOREM TranscriptsAreWellFormed == Spec => []Transcript
<1>1. Init => TranscriptInv
  BY DEF Init, TranscriptInv, WellTold
<1>2. TypeOK /\ TranscriptInv /\ [Next]_vars => TranscriptInv'
  <2> SUFFICES ASSUME TypeOK, TranscriptInv, [Next]_vars PROVE TranscriptInv'
    OBVIOUS
  <2>1. ASSUME NEW s \in Sids, NEW t \in Topics, Subscribe(s, t) PROVE TranscriptInv'
    BY <2>1, SubscribeTold
  <2>2. ASSUME NEW s \in Sids, Unsubscribe(s) PROVE TranscriptInv'
    BY <2>2, UnsubscribeTold
  <2>3. ASSUME NEW s \in Sids, EndEvent(s) \/ ErrorEvent(s) PROVE TranscriptInv'
    BY <2>3, CleanupTold DEF EndEvent, ErrorEvent
  <2>4. ASSUME NEW s \in Sids, ConsumerEnd(s) PROVE TranscriptInv'
    <3>1. /\ UNCHANGED <<desc, sent, subscriptions>>
          /\ stream[s] = "open" /\ stream' = [stream EXCEPT ![s] = "ended"]
      BY <2>4 DEF ConsumerEnd, dispatcherVars
    <3>2. ASSUME NEW r \in Sids PROVE stream'[r] = stream[r] \/ (stream'[r] = "ended" /\ desc[r] # None)
      BY <3>1 DEF TypeOK, TranscriptInv, WellTold
    <3>3. QED
      BY <3>1, <3>2, KeptTold DEF TranscriptInv
  <2>5. ASSUME NEW d \in Sids, PublishAll(d) PROVE TranscriptInv'
    BY <2>5, PublishTold DEF PublishAll, dispatcherVars
  <2>6. ASSUME NEW s \in Sids, PublishOne(s) PROVE TranscriptInv'
    BY <2>6, PublishTold DEF PublishOne, dispatcherVars
  <2>7. CASE UNCHANGED vars
    BY <2>7, KeptTold DEF vars, dispatcherVars, streamVars, TranscriptInv
  <2>8. QED
    BY <2>1, <2>2, <2>3, <2>4, <2>5, <2>6, <2>7 DEF Next
<1>3. TranscriptInv => Transcript
  BY DEF TranscriptInv, WellTold, Transcript
<1>4. QED
  BY <1>1, <1>2, <1>3, TypeCorrect, PTL DEF Spec
-------------------------------------------------------------------------------
(***************************************************************************)
(* A service dispatcher keeps the promise of PubSub, for a service with    *)
(* one source per topic (DataServiceDispatcher, ConfigService): its hooks  *)
(* pair, and neither starting nor stopping a source throws.                *)
(***************************************************************************)
TopicService ==
    /\ CleanService
    /\ "initSubscription" \notin Throwing
    /\ "onUnsubscribe" \notin Implemented

\* What the theorems above leave out: responses are created
\* by subscribe requests, and no single subscriber is published to.
ResponseInv ==
    /\ watching = {}
    /\ \A s \in Sids : desc[s] = None => stream[s] = "none" /\ sent[s] = <<>>
    /\ \A s \in Sids : desc[s] # None => stream[s] # "none"

RefinementInv == TypeOK /\ RegistryInv /\ SourceInv /\ EveryTopicFed /\ ResponseInv

-------------------------------------------------------------------------------
LEMMA EventPositions ==
    ASSUME NEW q \in Seq(MessageType)
    PROVE  /\ IsFiniteSet({i \in DOMAIN q : q[i] = "event"})
           /\ EventsIn(q) \in Nat
<1>1. IsFiniteSet(1..Len(q))
  BY FS_Interval
<1>2. {i \in DOMAIN q : q[i] = "event"} \subseteq 1..Len(q)
  OBVIOUS
<1>3. IsFiniteSet({i \in DOMAIN q : q[i] = "event"})
  BY <1>1, <1>2, FS_Subset
<1>4. QED
  BY <1>3, FS_CardinalityType DEF EventsIn

\* Appending an event makes one more, appending anything else none.
LEMMA EventsOfAppend ==
    ASSUME NEW q \in Seq(MessageType), NEW type \in MessageType
    PROVE  EventsIn(Append(q, type)) = IF type = "event" THEN EventsIn(q) + 1 ELSE EventsIn(q)
<1> DEFINE P == {i \in DOMAIN q : q[i] = "event"}
           r == Append(q, type)
           R == {i \in DOMAIN r : r[i] = "event"}
<1>1. /\ DOMAIN q = 1..Len(q) /\ Len(q) \in Nat
      /\ r \in Seq(MessageType) /\ Len(r) = Len(q) + 1
      /\ (\A i \in 1..Len(q) : r[i] = q[i]) /\ r[Len(q) + 1] = type
  BY AppendProperties
<1>2. DOMAIN r = 1..(Len(q) + 1)
  BY <1>1
<1>3. R = IF type = "event" THEN P \cup {Len(q) + 1} ELSE P
  BY <1>1, <1>2
<1>4. IsFiniteSet(P) /\ Len(q) + 1 \notin P
  BY <1>1, EventPositions
<1>5. QED
  BY <1>3, <1>4, FS_AddElement DEF EventsIn

\* The transcript a subscribe request begins with holds one event at most.
LEMMA EventsOfGreeting ==
    ASSUME NEW greeting \in {<<>>, <<"event">>}
    PROVE  EventsIn(<<"subscribe">> \o greeting) \in {0, 1}
<1> DEFINE q == <<"subscribe">> \o greeting
           P == {i \in DOMAIN q : q[i] = "event"}
<1>1. P \in {{}, {2}}
  <2>1. CASE greeting = <<>>
    BY <2>1
  <2>2. CASE greeting = <<"event">>
    BY <2>2
  <2>3. QED
    BY <2>1, <2>2
<1>2. Cardinality({}) = 0
  BY FS_EmptySet
<1>3. Cardinality({2}) = 1
  BY FS_Singleton
<1>4. EventsIn(q) = Cardinality(P)
  BY DEF EventsIn
<1>5. Cardinality(P) \in {0, 1}
  BY <1>1, <1>2, <1>3, Zenon
<1>6. QED
  BY <1>4, <1>5, Zenon

-------------------------------------------------------------------------------
\* RefinementInv is inductive.
LEMMA ResponseStep ==
    ASSUME TopicService, RefinementInv, [Next]_vars
    PROVE  ResponseInv'
<1> USE DEF RefinementInv
<1>1. ASSUME NEW s \in Sids, NEW t \in Topics, Subscribe(s, t) PROVE ResponseInv'
  <2>1. /\ watching' = watching
        /\ stream' = [stream EXCEPT ![s] = "open"]
        /\ desc' = [desc EXCEPT ![s] = IF topics[t] = None THEN s ELSE topics[t]]
        /\ \A r \in Sids \ {s} : sent'[r] = sent[r]
    BY <1>1 DEF Subscribe, TopicService, Outcomes, TypeOK
  <2>2. desc'[s] # None
    BY <2>1, SDAssumption DEF TypeOK, SDAssumption
  <2>3. QED
    BY <2>1, <2>2 DEF ResponseInv, TypeOK
<1>2. ASSUME NEW s \in Sids, Unsubscribe(s) PROVE ResponseInv'
  <2>1. desc' = desc /\ desc[s] # None
    BY <1>2 DEF Unsubscribe
  <2>2. watching' = {}
    BY <1>2 DEF Unsubscribe, NotSubscribed, CloseTopic, ResponseInv
  <2>3. /\ \A r \in Sids \ {s} : stream'[r] = stream[r] /\ sent'[r] = sent[r]
        /\ stream'[s] \in {stream[s], "ended"}
    BY <1>2 DEF Unsubscribe, Write, TypeOK
  <2>4. QED
    BY <2>1, <2>2, <2>3 DEF ResponseInv, TypeOK
<1>3. ASSUME NEW s \in Sids, Cleanup(s) PROVE ResponseInv'
  <2>1. UNCHANGED <<desc, stream, sent>> /\ watching' = {}
    BY <1>3 DEF Cleanup, NotSubscribed, CloseTopic, ResponseInv
  <2>2. QED
    BY <2>1 DEF ResponseInv
<1>4. ASSUME NEW s \in Sids, ConsumerEnd(s) PROVE ResponseInv'
  BY <1>4 DEF ConsumerEnd, ResponseInv, TypeOK, dispatcherVars, serviceVars
<1>5. ASSUME NEW R \in SUBSET Sids, Write(R, "event"), UNCHANGED <<dispatcherVars, serviceVars, stream>>
      PROVE  ResponseInv'
  <2>1. \A r \in Sids : stream[r] # "open" => sent'[r] = sent[r]
    BY <1>5 DEF Write, Writable, TypeOK
  <2>2. QED
    BY <1>5, <2>1 DEF ResponseInv, dispatcherVars, serviceVars
<1>6. CASE UNCHANGED vars
  BY <1>6 DEF vars, dispatcherVars, streamVars, serviceVars, ResponseInv
<1>7. ASSUME NEW s \in Sids, EndEvent(s) \/ ErrorEvent(s) PROVE Cleanup(s)
  BY <1>7 DEF EndEvent, ErrorEvent
<1>8. ASSUME NEW s \in Sids, PublishAll(s) \/ PublishOne(s) PROVE ResponseInv'
  BY <1>5, <1>8 DEF PublishAll, PublishOne, TypeOK
<1>9. QED
  BY <1>1, <1>2, <1>3, <1>4, <1>6, <1>7, <1>8 DEF Next

LEMMA RefinementInvCorrect ==
    ASSUME TopicService
    PROVE  Spec => []RefinementInv
<1>1. Init => SourceInv /\ EveryTopicFed /\ ResponseInv
  BY DEF Init, SourceInv, OneSourcePerTopic, EveryTopicFed, ResponseInv
<1>2. TypeOK /\ RegistryInv /\ SourceInv /\ EveryTopicFed /\ ResponseInv /\ [Next]_vars
        => SourceInv' /\ EveryTopicFed' /\ ResponseInv'
  BY SourcesStep, ResponseStep DEF TopicService, RefinementInv
<1>3. QED
  BY <1>1, <1>2, TypeCorrect, RegistryCorrect, PTL DEF Spec, RefinementInv

-------------------------------------------------------------------------------
\* The members of a topic are the subscribers of its current descriptor.
LEMMA MembersAreSubscribers ==
    ASSUME RefinementInv, NEW t \in Topics, topics[t] # None
    PROVE  PS!MembersOf(t) = subs[topics[t]]
<1>1. t # None /\ topics[t] \in Sids /\ topicOf[topics[t]] = t
  BY SDAssumption DEF SDAssumption, RefinementInv, TypeOK, RegistryInv, DescriptorsAgree
<1>2. ASSUME NEW r \in Sids, MemberMap[r] = t PROVE r \in subs[topics[t]]
  BY <1>1, <1>2 DEF MemberMap, RefinementInv, RegistryInv, NoStrandedSubscriber
<1>3. ASSUME NEW r \in subs[topics[t]] PROVE r \in Sids /\ MemberMap[r] = t
  BY <1>1, <1>3 DEF MemberMap, RefinementInv, RegistryInv, NoGhostSubscriber, TypeOK
<1>4. QED
  BY <1>2, <1>3 DEF PS!MembersOf

\* A subscribe request joins the topic and starts its source if need be.
LEMMA SubscribeJoins ==
    ASSUME TopicService, RefinementInv, NEW s \in Sids, NEW t \in Topics, Subscribe(s, t)
    PROVE  PS!Join(s, t)
<1> DEFINE first == topics[t] = None
           d     == IF first THEN s ELSE topics[t]
<1> USE DEF RefinementInv
<1>1. /\ desc[s] = None
      /\ desc' = [desc EXCEPT ![s] = d]
      /\ topicOf' = [topicOf EXCEPT ![d] = t]
      /\ subscriptions' = subscriptions \cup {s}
      /\ stream' = [stream EXCEPT ![s] = "open"]
      /\ feeding' = IF first THEN feeding \cup {s} ELSE feeding
  BY DEF Subscribe, TopicService, CleanService, Outcomes
<1>2. d \in Sids /\ t # None /\ d # None /\ s # None
  BY SDAssumption DEF TypeOK, SDAssumption
<1>3. topicOf[s] = None /\ s \notin subscriptions /\ stream[s] = "none" /\ sent[s] = <<>>
  <2>1. topicOf[s] = None /\ s \notin subscriptions
    BY <1>1, <1>2 DEF RegistryInv, DescriptorsAgree
  <2>2. stream[s] = "none" /\ sent[s] = <<>>
    BY <1>1 DEF ResponseInv
  <2>3. QED
    BY <2>1, <2>2
<1>4. d # s => topicOf[d] = t
  BY <1>2 DEF RegistryInv, DescriptorsAgree
<1>5. \A e \in Sids : topicOf[e] # None => topicOf'[e] = topicOf[e]
  BY <1>1, <1>2, <1>3, <1>4 DEF TypeOK
<1>6. MemberMap' = [MemberMap EXCEPT ![s] = t] /\ MemberMap[s] = None
  <2>1. \A r \in Sids \ {s} : MemberMap'[r] = MemberMap[r]
    <3>1. \A r \in Sids \ {s} : desc'[r] = desc[r] /\ (r \in subscriptions' <=> r \in subscriptions)
      BY <1>1 DEF TypeOK
    <3>2. \A r \in subscriptions : desc[r] \in Sids /\ topicOf[desc[r]] # None
      BY DEF TypeOK, RegistryInv, DescriptorsAgree
    <3>3. QED
      BY <1>5, <3>1, <3>2 DEF MemberMap
  <2>2. MemberMap'[s] = t
    BY <1>1, <1>2 DEF MemberMap, TypeOK
  <2>3. MemberMap[s] = None
    BY <1>3 DEF MemberMap
  <2>4. QED
    BY <2>1, <2>2, <2>3 DEF MemberMap
<1>7. UNCHANGED LeftMap
  BY <1>1, <1>2, <1>3 DEF LeftMap, TypeOK
<1>8. UNCHANGED HungUpMap
  BY <1>1, <1>3, <1>7 DEF HungUpMap, TypeOK
<1>9. ActiveMap' = ActiveMap \cup {t}
  <2>1. \A e \in feeding : e \in Sids /\ topicOf'[e] = topicOf[e]
    BY <1>5 DEF TypeOK, SourceInv
  <2>2. topicOf'[d] = t
    BY <1>1, <1>2 DEF TypeOK
  <2>3. CASE first
    BY <1>1, <2>1, <2>2, <2>3 DEF ActiveMap
  <2>4. CASE ~first
    <3>1. d \in feeding
      BY <2>4 DEF EveryTopicFed
    <3>2. QED
      BY <1>1, <2>1, <2>2, <2>4, <3>1 DEF ActiveMap
  <2>5. QED
    BY <2>3, <2>4
<1>10. \E greeting \in 0..1 : ReceivedMap' = [ReceivedMap EXCEPT ![s] = @ + greeting]
  <2>1. PICK g \in {<<>>, <<"event">>} : sent' = [sent EXCEPT ![s] = <<"subscribe">> \o g]
    BY DEF Subscribe
  <2>2. PICK n \in {0, 1} : n = EventsIn(<<"subscribe">> \o g)
    BY EventsOfGreeting
  <2>3. EventsIn(sent[s]) = 0
    <3>1. {i \in DOMAIN sent[s] : sent[s][i] = "event"} = {}
      BY <1>3
    <3>2. QED
      BY <3>1, FS_EmptySet DEF EventsIn
  <2>4. ReceivedMap'[s] = n /\ ReceivedMap[s] = 0
    BY <2>1, <2>2, <2>3 DEF ReceivedMap, TypeOK
  <2>5. \A r \in Sids \ {s} : ReceivedMap'[r] = ReceivedMap[r]
    BY <2>1 DEF ReceivedMap, TypeOK
  <2>6. /\ ReceivedMap = [r \in Sids |-> ReceivedMap[r]]
        /\ ReceivedMap' = [r \in Sids |-> ReceivedMap'[r]]
    BY DEF ReceivedMap
  <2>7. ReceivedMap' = [ReceivedMap EXCEPT ![s] = @ + n]
    BY <2>4, <2>5, <2>6
  <2>8. n \in 0..1
    BY <2>2
  <2>9. QED
    BY <2>7, <2>8, Zenon
<1>11. s \notin LeftMap
  BY <1>1 DEF LeftMap
<1>12. QED
  BY <1>6, <1>7, <1>8, <1>9, <1>10, <1>11 DEF PS!Join

\* Leaving a subscription, by request or by the end of the response, leaves the
\* topic and stops its source after the last one.
LEMMA LeaveLeaves ==
    ASSUME TopicService, RefinementInv, NEW s \in Sids, s \in subscriptions,
           subscriptions' = subscriptions \ {s},
           CloseTopic(s, desc[s], subs[desc[s]] \ {s}),
           UNCHANGED <<desc, topicOf>>,
           UNCHANGED ReceivedMap,
           \/ UNCHANGED stream
           \/ stream' = [stream EXCEPT ![s] = "ended"]
    PROVE  PS!Leave(s)
<1> DEFINE d == desc[s]
           t == topicOf[d]
<1> USE DEF RefinementInv
<1>1. d \in Sids /\ d # None /\ t \in Topics /\ t # None /\ topics[t] = d /\ s \in subs[d]
  BY SDAssumption
     DEF SDAssumption, TypeOK, RegistryInv, DescriptorsAgree, NoStrandedSubscriber
<1>2. MemberMap[s] = t /\ MemberMap' = [MemberMap EXCEPT ![s] = None]
  BY <1>1 DEF MemberMap
<1>3. LeftMap' = LeftMap \cup {s}
  BY <1>1 DEF LeftMap
<1>4. HungUpMap' = HungUpMap \cup {s}
  BY <1>3 DEF HungUpMap, TypeOK
<1>5. PS!MembersOf(t) = subs[d]
  BY <1>1, MembersAreSubscribers
<1>6. ActiveMap' = IF subs[d] = {s} THEN ActiveMap \ {t} ELSE ActiveMap
  <2>1. CASE subs[d] = {s}
    <3>1. feeding' = feeding \ {d}
      BY <2>1 DEF CloseTopic, TopicService, CleanService, Outcomes
    <3>2. \A e \in feeding \ {d} : topicOf[e] # t
      BY <1>1 DEF SourceInv, OneSourcePerTopic
    <3>3. QED
      BY <2>1, <3>1, <3>2 DEF ActiveMap
  <2>2. CASE subs[d] # {s}
    <3>1. feeding' = feeding
      BY <1>1, <2>2 DEF CloseTopic
    <3>2. QED
      BY <2>2, <3>1 DEF ActiveMap
  <2>3. QED
    BY <2>1, <2>2
<1>7. QED
  BY <1>1, <1>2, <1>3, <1>4, <1>5, <1>6 DEF PS!Leave

\* Steps that touch no part of the registry, the sources or the responses.
LEMMA SilentStep ==
    ASSUME UNCHANGED <<subscriptions, desc, topicOf, stream, feeding, sent>>
    PROVE  UNCHANGED PS!vars
  BY DEF PS!vars, MemberMap, LeftMap, HungUpMap, ActiveMap, ReceivedMap

\* A message other than an event changes nobody's count of events.
LEMMA OtherMessages ==
    ASSUME TypeOK, NEW R \in SUBSET Sids, NEW type \in MessageType \ {"event"}, Write(R, type)
    PROVE  UNCHANGED ReceivedMap
<1>1. ASSUME NEW r \in Sids PROVE EventsIn(sent'[r]) = EventsIn(sent[r])
  <2>1. sent'[r] \in {sent[r], Append(sent[r], type)} /\ sent[r] \in Seq(MessageType)
    BY DEF Write, TypeOK, MessageType
  <2>2. EventsIn(Append(sent[r], type)) = EventsIn(sent[r])
    BY <2>1, EventsOfAppend
  <2>3. QED
    BY <2>1, <2>2
<1>2. QED
  BY <1>1 DEF ReceivedMap

LEMMA UnsubscribeLeaves ==
    ASSUME TopicService, RefinementInv, NEW s \in Sids, Unsubscribe(s)
    PROVE  PS!Leave(s) \/ UNCHANGED PS!vars
<1>1. CASE s \in subscriptions
  <2>1. s \in subs[desc[s]]
    BY <1>1 DEF RefinementInv, RegistryInv, NoStrandedSubscriber
  <2>2. /\ subscriptions' = subscriptions \ {s}
        /\ CloseTopic(s, desc[s], subs[desc[s]] \ {s})
        /\ UNCHANGED <<desc, topicOf>>
        /\ Write({s}, "unsubscribe")
        /\ stream' = [stream EXCEPT ![s] = "ended"]
    BY <1>1, <2>1 DEF Unsubscribe
  <2>3. "unsubscribe" \in MessageType \ {"event"} /\ {s} \in SUBSET Sids
    BY DEF MessageType
  <2>4. UNCHANGED ReceivedMap
    BY <2>2, <2>3, OtherMessages DEF RefinementInv
  <2>5. QED
    BY <1>1, <2>2, <2>4, LeaveLeaves
<1>2. CASE s \notin subscriptions
  BY <1>2, SilentStep, SweepFindsNothing DEF Unsubscribe, RefinementInv, RegistryInv
<1>3. QED
  BY <1>1, <1>2

LEMMA CleanupLeaves ==
    ASSUME TopicService, RefinementInv, NEW s \in Sids, Cleanup(s)
    PROVE  PS!Leave(s) \/ UNCHANGED PS!vars
<1>1. CASE s \in subscriptions
  <2>1. /\ subscriptions' = subscriptions \ {s}
        /\ CloseTopic(s, desc[s], subs[desc[s]] \ {s})
        /\ UNCHANGED <<desc, topicOf, stream, sent>>
    BY <1>1 DEF Cleanup
  <2>2. UNCHANGED ReceivedMap
    BY <2>1 DEF ReceivedMap
  <2>3. QED
    BY <1>1, <2>1, <2>2, LeaveLeaves
<1>2. CASE s \notin subscriptions
  BY <1>2, SilentStep, SweepFindsNothing DEF Cleanup, RefinementInv, RegistryInv
<1>3. QED
  BY <1>1, <1>2

\* The consumer ending its response hangs up.
LEMMA ConsumerEndHangsUp ==
    ASSUME RefinementInv, NEW s \in Sids, ConsumerEnd(s)
    PROVE  PS!HangUp(s) \/ UNCHANGED PS!vars
<1>1. /\ stream' = [stream EXCEPT ![s] = "ended"]
      /\ UNCHANGED <<subscriptions, desc, topicOf, feeding, sent>>
  BY DEF ConsumerEnd, dispatcherVars, serviceVars
<1>2. UNCHANGED <<MemberMap, LeftMap, ActiveMap, ReceivedMap>>
  BY <1>1 DEF MemberMap, LeftMap, ActiveMap, ReceivedMap
<1>3. HungUpMap' = HungUpMap \cup {s}
  BY <1>1, <1>2 DEF HungUpMap, RefinementInv, TypeOK
<1>4. CASE s \in HungUpMap
  BY <1>2, <1>3, <1>4 DEF PS!vars
<1>5. CASE s \notin HungUpMap
  BY <1>2, <1>3, <1>5 DEF PS!HangUp
<1>6. QED
  BY <1>4, <1>5

\* publishAll() of a running source reaches the members that have not hung up.
LEMMA PublishAllPublishes ==
    ASSUME RefinementInv, NEW d \in Sids, PublishAll(d)
    PROVE  PS!Publish(topicOf[d])
<1> DEFINE t == topicOf[d]
<1> USE DEF RefinementInv
<1>1. /\ Write(subs[d], "event")
      /\ UNCHANGED <<subscriptions, desc, topicOf, feeding, stream>>
      /\ d \in feeding
  BY DEF PublishAll, dispatcherVars, serviceVars
<1>2. t \in Topics /\ topics[t] = d /\ d # None
  BY <1>1, SDAssumption DEF SDAssumption, TypeOK, SourceInv, OneSourcePerTopic
<1>3. PS!MembersOf(t) = subs[d]
  BY <1>2, MembersAreSubscribers
<1>4. \A r \in Sids : MemberMap[r] = t <=> r \in subs[d]
  BY <1>3 DEF PS!MembersOf
<1>5. ASSUME NEW r \in Sids
      PROVE  EventsIn(sent'[r]) = IF MemberMap[r] = t /\ r \notin HungUpMap
                                  THEN EventsIn(sent[r]) + 1 ELSE EventsIn(sent[r])
  <2>1. r \in subs[d] => (r \notin HungUpMap <=> stream[r] = "open")
    <3>1. ASSUME r \in subs[d]
          PROVE  r \in subscriptions /\ desc[r] # None
      BY <3>1, SDAssumption DEF SDAssumption, RegistryInv, NoGhostSubscriber
    <3>2. desc[r] # None => stream[r] \in {"open", "ended"}
      BY DEF ResponseInv, TypeOK
    <3>3. QED
      BY <3>1, <3>2 DEF HungUpMap, LeftMap
  <2>2. sent'[r] = IF r \in subs[d] /\ stream[r] = "open"
                   THEN Append(sent[r], "event") ELSE sent[r]
    BY <1>1 DEF Write, Writable
  <2>3. EventsIn(Append(sent[r], "event")) = EventsIn(sent[r]) + 1
    BY EventsOfAppend DEF TypeOK, MessageType
  <2>4. QED
    BY <1>4, <2>1, <2>2, <2>3
<1>6. ReceivedMap' = [r \in Sids |-> IF MemberMap[r] = t /\ r \notin HungUpMap
                                     THEN ReceivedMap[r] + 1 ELSE ReceivedMap[r]]
  BY <1>5 DEF ReceivedMap
<1>7. UNCHANGED <<MemberMap, LeftMap, HungUpMap, ActiveMap>>
  BY <1>1 DEF MemberMap, LeftMap, HungUpMap, ActiveMap
<1>8. t \in ActiveMap
  BY <1>1 DEF ActiveMap
<1>9. QED
  BY <1>6, <1>7, <1>8 DEF PS!Publish

\* Every behaviour of the dispatcher with such a service is one PubSub allows:
\* one source per topic, running exactly while the topic has subscribers, and
\* each of its events written once to each of them that has not hung up.
THEOREM ImplementsPubSub ==
    ASSUME TopicService
    PROVE  Spec => Refinement
<1>1. Init => PS!Init
  <2> SUFFICES ASSUME Init PROVE PS!Init
    OBVIOUS
  <2>1. \A s \in Sids : EventsIn(sent[s]) = 0
    <3>1. \A s \in Sids : {i \in DOMAIN sent[s] : sent[s][i] = "event"} = {}
      BY DEF Init
    <3>2. QED
      BY <3>1, FS_EmptySet DEF EventsIn
  <2>2. ReceivedMap = [s \in Sids |-> 0]
    BY <2>1 DEF ReceivedMap
  <2>3. MemberMap = [s \in Sids |-> None] /\ LeftMap = {} /\ HungUpMap = {} /\ ActiveMap = {}
    BY DEF Init, MemberMap, LeftMap, HungUpMap, ActiveMap
  <2>4. QED
    BY <2>2, <2>3 DEF PS!Init
<1>2. RefinementInv /\ [Next]_vars => [PS!Next]_PS!vars
  <2> SUFFICES ASSUME RefinementInv, [Next]_vars PROVE PS!Next \/ UNCHANGED PS!vars
    OBVIOUS
  <2>1. ASSUME NEW s \in Sids, NEW t \in Topics, Subscribe(s, t) PROVE PS!Next
    BY <2>1, SubscribeJoins DEF PS!Next
  <2>2. ASSUME NEW s \in Sids, Unsubscribe(s) \/ EndEvent(s) \/ ErrorEvent(s)
        PROVE  PS!Next \/ UNCHANGED PS!vars
    BY <2>2, UnsubscribeLeaves, CleanupLeaves DEF EndEvent, ErrorEvent, PS!Next
  <2>3. ASSUME NEW s \in Sids, ConsumerEnd(s) PROVE PS!Next \/ UNCHANGED PS!vars
    BY <2>3, ConsumerEndHangsUp DEF PS!Next
  <2>4. ASSUME NEW d \in Sids, PublishAll(d) PROVE PS!Next
    <3>1. topicOf[d] \in Topics
      BY <2>4 DEF PublishAll, RefinementInv, TypeOK, SourceInv
    <3>2. QED
      BY <2>4, <3>1, PublishAllPublishes DEF PS!Next
  <2>5. ASSUME NEW s \in Sids, PublishOne(s) PROVE FALSE
    BY <2>5 DEF PublishOne, RefinementInv, ResponseInv
  <2>6. CASE UNCHANGED vars
    BY <2>6, SilentStep DEF vars, dispatcherVars, streamVars, serviceVars
  <2>7. QED
    BY <2>1, <2>2, <2>3, <2>4, <2>5, <2>6 DEF Next
<1>3. QED
  BY <1>1, <1>2, RefinementInvCorrect, PTL DEF Spec, Refinement, PS!Spec
===============================================================================
