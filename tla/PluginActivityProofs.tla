-------------------------- MODULE PluginActivityProofs --------------------------
(***************************************************************************)
(* Theorems about PluginActivity, for every number of requests and timers  *)
(* and every timeout.                                                      *)
(***************************************************************************)
EXTENDS PluginActivity, FiniteSetTheorems, TLAPS

Busy(f) == {r \in Requests : f[r] # "none"}

\* One more request is at work, or one less: the set of the busy ones follows.
LEMMA BusyChanges ==
    ASSUME TypeOK, IsFiniteSet(Requests), NEW r \in Requests,
           NEW s \in {"none", "running", "streaming", "lost"}
    PROVE  /\ IsFiniteSet(Busy(req)) /\ Cardinality(Busy(req)) \in Nat
           /\ Cardinality(Busy(req)) <= Cardinality(Requests)
           /\ Cardinality(Requests) \in Nat
           /\ s = "none" /\ req[r] # "none" =>
                Cardinality(Busy([req EXCEPT ![r] = s])) = Cardinality(Busy(req)) - 1
           /\ s # "none" /\ req[r] = "none" =>
                /\ Cardinality(Busy([req EXCEPT ![r] = s])) = Cardinality(Busy(req)) + 1
                /\ Cardinality(Busy(req)) + 1 <= Cardinality(Requests)
           /\ s # "none" /\ req[r] # "none" => Busy([req EXCEPT ![r] = s]) = Busy(req)
<1> DEFINE new == [req EXCEPT ![r] = s]
<1>1. IsFiniteSet(Busy(req)) /\ Cardinality(Busy(req)) <= Cardinality(Requests)
  BY FS_Subset DEF Busy
<1>2. Cardinality(Busy(req)) \in Nat /\ Cardinality(Requests) \in Nat
  BY <1>1, FS_CardinalityType
<1>3. ASSUME s = "none", req[r] # "none"
      PROVE  Cardinality(Busy(new)) = Cardinality(Busy(req)) - 1
  <2>1. Busy(new) = Busy(req) \ {r} /\ r \in Busy(req)
    BY <1>3 DEF Busy, TypeOK
  <2>2. QED
    BY <1>1, <2>1, FS_RemoveElement
<1>4. ASSUME s # "none", req[r] = "none"
      PROVE  /\ Cardinality(Busy(new)) = Cardinality(Busy(req)) + 1
             /\ Cardinality(Busy(req)) + 1 <= Cardinality(Requests)
  <2>1. Busy(new) = Busy(req) \cup {r} /\ r \notin Busy(req)
    BY <1>4 DEF Busy, TypeOK
  <2>2. Cardinality(Busy(new)) = Cardinality(Busy(req)) + 1
    BY <1>1, <2>1, FS_AddElement
  <2>3. Busy(new) \in SUBSET Requests
    BY DEF Busy
  <2>4. Cardinality(Busy(new)) <= Cardinality(Requests)
    BY <2>3, FS_Subset
  <2>5. QED
    BY <2>2, <2>4
<1>5. ASSUME s # "none", req[r] # "none"
      PROVE  Busy(new) = Busy(req)
  BY <1>5 DEF Busy, TypeOK
<1>6. QED
  BY <1>1, <1>2, <1>3, <1>4, <1>5

\* Clearing a timer leaves a well-typed map of pending timers.
LEMMA ClearTimerType ==
    ASSUME NEW D, D \subseteq Timers, NEW f \in [D -> 0..Timeout], ClearTimer(f)
    PROVE  /\ DOMAIN left' \subseteq Timers
           /\ left' \in [DOMAIN left' -> 0..Timeout]
           /\ inactivityTimer' \in Timers \cup {None}
  BY DEF ClearTimer, Without

\* Setting one does, too.
LEMMA SetTimerType ==
    ASSUME TypeOK, NEW r \in Requests, ResetTimer(r)
    PROVE  /\ DOMAIN left' \subseteq Timers
           /\ left' \in [DOMAIN left' -> 0..Timeout]
           /\ inactivityTimer' \in Timers \cup {None}
<1>1. CASE started
  <2>1. PICK t \in Timers \ Pending :
          /\ left' = [x \in Pending \cup {t} |-> IF x = t THEN Timeout ELSE left[x]]
          /\ inactivityTimer' = t
    BY <1>1 DEF ResetTimer
  <2>2. DOMAIN left' = Pending \cup {t}
    BY <2>1
  <2>3. \A x \in Pending \cup {t} : left'[x] \in 0..Timeout
    BY <2>1, PAAssumption DEF TypeOK, PAAssumption
  <2>4. left' \in [Pending \cup {t} -> 0..Timeout]
    BY <2>1, <2>3
  <2>5. QED
    BY <2>1, <2>2, <2>4 DEF TypeOK
<1>2. CASE ~started
  BY <1>2 DEF ResetTimer, TypeOK, Pending
<1>3. QED
  BY <1>1, <1>2

Counted == TypeOK /\ ActiveRequestsExact

\* The steps of a request keep the counter exact, and every variable well-typed.
LEMMA RequestSteps ==
    ASSUME Counted, IsFiniteSet(Requests), NEW r \in Requests,
           Dispatch(r) \/ Answer(r) \/ AnswerStream(r) \/ StreamEnd(r) \/ ResetTimer(r)
    PROVE  Counted'
<1>0. TypeOK /\ ActiveRequestsExact /\ Pending \subseteq Timers
      /\ left \in [Pending -> 0..Timeout] /\ activeRequests = Cardinality(Busy(req))
  BY DEF TypeOK, Counted, ActiveRequestsExact, Busy
<1> USE DEF Counted
<1>1. CASE Dispatch(r)
  <2>1. req' = [req EXCEPT ![r] = "running"] /\ activeRequests' = activeRequests + 1
        /\ req[r] = "none"
    BY <1>1 DEF Dispatch
  <2>2. activeRequests' = Cardinality(Busy(req')) /\ activeRequests' \in 0..Cardinality(Requests)
    <3>1. /\ Cardinality(Busy(req)) \in Nat /\ Cardinality(Requests) \in Nat
          /\ Cardinality(Busy(req')) = Cardinality(Busy(req)) + 1
          /\ Cardinality(Busy(req)) + 1 <= Cardinality(Requests)
      BY <1>0, <2>1, BusyChanges
    <3>2. QED
      BY <1>0, <2>1, <3>1
  <2>3. DOMAIN left' \subseteq Timers /\ left' \in [DOMAIN left' -> 0..Timeout]
        /\ inactivityTimer' \in Timers \cup {None}
    BY <1>0, <1>1, ClearTimerType DEF Dispatch
  <2>4. QED
    BY <1>1, <2>1, <2>2, <2>3, PAAssumption
    DEF TypeOK, ActiveRequestsExact, Busy, Dispatch, Pending, PAAssumption
<1>2. CASE Answer(r)
  <2>1. req' = [req EXCEPT ![r] = "none"] /\ activeRequests' = activeRequests - 1
        /\ req[r] # "none"
    BY <1>2 DEF Answer
  <2>2. activeRequests' = Cardinality(Busy(req')) /\ activeRequests' \in 0..Cardinality(Requests)
    <3>1. /\ Cardinality(Busy(req)) \in Nat /\ Cardinality(Requests) \in Nat
          /\ Cardinality(Busy(req')) = Cardinality(Busy(req)) - 1
          /\ Cardinality(Busy(req)) <= Cardinality(Requests)
      BY <1>0, <2>1, BusyChanges
    <3>2. IsFiniteSet(Busy(req')) /\ Busy(req') \in SUBSET Requests
      BY FS_Subset DEF Busy
    <3>3. Cardinality(Busy(req')) \in Nat
      BY <3>2, FS_CardinalityType
    <3>4. QED
      BY <1>0, <2>1, <3>1, <3>3
  <2>3. QED
    BY <1>2, <2>1, <2>2 DEF TypeOK, ActiveRequestsExact, Busy, Answer, Pending
<1>3. CASE AnswerStream(r)
  <2>1. req' = [req EXCEPT ![r] = "streaming"] /\ req[r] # "none"
    BY <1>3 DEF AnswerStream
  <2>2. Busy(req') = Busy(req)
    BY <1>0, <2>1, BusyChanges
  <2>3. QED
    BY <1>3, <2>1, <2>2 DEF TypeOK, ActiveRequestsExact, Busy, AnswerStream, Pending
<1>4. CASE StreamEnd(r)
  <2>1. req' = [req EXCEPT ![r] = "none"] /\ activeRequests' = activeRequests - 1
        /\ req[r] # "none"
    BY <1>4 DEF StreamEnd
  <2>2. activeRequests' = Cardinality(Busy(req')) /\ activeRequests' \in 0..Cardinality(Requests)
    <3>1. /\ Cardinality(Busy(req)) \in Nat /\ Cardinality(Requests) \in Nat
          /\ Cardinality(Busy(req')) = Cardinality(Busy(req)) - 1
          /\ Cardinality(Busy(req)) <= Cardinality(Requests)
      BY <1>0, <2>1, BusyChanges
    <3>2. IsFiniteSet(Busy(req')) /\ Busy(req') \in SUBSET Requests
      BY FS_Subset DEF Busy
    <3>3. Cardinality(Busy(req')) \in Nat
      BY <3>2, FS_CardinalityType
    <3>4. QED
      BY <1>0, <2>1, <3>1, <3>3
  <2>3. QED
    BY <1>4, <2>1, <2>2 DEF TypeOK, ActiveRequestsExact, Busy, StreamEnd, Pending
<1>5. CASE ResetTimer(r)
  BY <1>5, SetTimerType DEF TypeOK, ActiveRequestsExact, ResetTimer, Pending
<1>6. QED
  BY <1>1, <1>2, <1>3, <1>4, <1>5

\* So do the steps of time, and those that stop the plugin.
LEMMA OtherSteps ==
    ASSUME Counted, Start \/ Tick \/ Stop \/ Crash \/ (\E t \in Timers : Fire(t))
                    \/ UNCHANGED vars
    PROVE  Counted'
<1> USE DEF Counted
<1>0. Pending \subseteq Timers /\ left \in [Pending -> 0..Timeout]
  BY DEF TypeOK
<1>1. CASE Start
  BY <1>1 DEF TypeOK, ActiveRequestsExact, Start, Pending
<1>2. CASE Tick
  <2>1. \A t \in Pending : (IF left[t] = 0 THEN 0 ELSE left[t] - 1) \in 0..Timeout
    BY <1>0, PAAssumption DEF PAAssumption
  <2>2. DOMAIN left' = Pending /\ left' \in [Pending -> 0..Timeout]
    BY <1>2, <2>1 DEF Tick
  <2>3. idle' \in 0..Timeout
    BY <1>2, PAAssumption DEF Tick, TypeOK, PAAssumption
  <2>4. QED
    BY <1>2, <2>2, <2>3 DEF TypeOK, ActiveRequestsExact, Tick, Pending
<1>3. ASSUME req' = Lost, UNCHANGED activeRequests
      PROVE  ActiveRequestsExact' /\ req' \in [Requests -> {"none", "running", "streaming", "lost"}]
  <2>1. \A r \in Requests : req'[r] # "none" <=> req[r] # "none"
    BY <1>3 DEF Lost, TypeOK
  <2>2. {r \in Requests : req'[r] # "none"} = {r \in Requests : req[r] # "none"}
    BY <2>1
  <2>3. QED
    BY <1>3, <2>2 DEF Lost, TypeOK, ActiveRequestsExact
<1>4. CASE Stop
  <2>1. ActiveRequestsExact' /\ req' \in [Requests -> {"none", "running", "streaming", "lost"}]
    <3>1. CASE started
      BY <1>3, <1>4, <3>1 DEF Stop
    <3>2. CASE ~started
      BY <1>4, <3>2 DEF Stop, TypeOK, ActiveRequestsExact
    <3>3. QED
      BY <3>1, <3>2
  <2>2. QED
    BY <1>0, <1>4, <2>1, ClearTimerType DEF TypeOK, Stop, Pending
<1>5. CASE Crash
  BY <1>3, <1>5 DEF TypeOK, Crash, Pending
<1>6. ASSUME NEW t \in Timers, Fire(t) PROVE Counted'
  <2>1. DOMAIN Without(left, t) \subseteq Timers
        /\ Without(left, t) \in [DOMAIN Without(left, t) -> 0..Timeout]
    BY <1>0 DEF Without
  <2>2. DOMAIN left' \subseteq Timers /\ left' \in [DOMAIN left' -> 0..Timeout]
        /\ inactivityTimer' \in Timers \cup {None}
    <3>1. CASE activeRequests = 0
      <4>1. ClearTimer(Without(left, t))
        BY <1>6, <3>1 DEF Fire
      <4>2. QED
        BY <2>1, <4>1, ClearTimerType
    <3>2. CASE activeRequests # 0
      BY <1>6, <2>1, <3>2 DEF Fire, TypeOK
    <3>3. QED
      BY <3>1, <3>2
  <2>3. QED
    BY <1>6, <2>2 DEF TypeOK, ActiveRequestsExact, Fire, Pending
<1>7. CASE UNCHANGED vars
  BY <1>7 DEF TypeOK, ActiveRequestsExact, vars, Pending
<1>8. QED
  BY <1>1, <1>2, <1>4, <1>5, <1>6, <1>7

\* activeRequests is the number of requests that want an answer, whatever happens
\* to the plugin meanwhile.
THEOREM CountingCorrect ==
    ASSUME IsFiniteSet(Requests)
    PROVE  Spec => [](TypeOK /\ ActiveRequestsExact)
<1>1. Init => Counted
  <2> SUFFICES ASSUME Init PROVE Counted
    OBVIOUS
  <2>1. {r \in Requests : req[r] # "none"} = {}
    BY DEF Init
  <2>2. Cardinality({r \in Requests : req[r] # "none"}) = 0 /\ Cardinality(Requests) \in Nat
    BY <2>1, FS_EmptySet, FS_CardinalityType
  <2>3. Pending = {} /\ left \in [{} -> 0..Timeout]
    BY DEF Init, Pending
  <2>4. ActiveRequestsExact /\ activeRequests \in 0..Cardinality(Requests)
    BY <2>2 DEF Init, ActiveRequestsExact
  <2>5. idle \in 0..Timeout
    BY PAAssumption DEF Init, PAAssumption
  <2>6. QED
    BY <2>3, <2>4, <2>5 DEF Init, Counted, TypeOK
<1>2. Counted /\ [Next]_vars => Counted'
  BY RequestSteps, OtherSteps DEF Next
<1>3. QED
  BY <1>1, <1>2, PTL DEF Spec, Counted

\* The timer never stops a plugin that is answering: the counter it looks at is
\* exact.
THEOREM BusyIsNeverStopped ==
    ASSUME IsFiniteSet(Requests)
    PROVE  Spec => NeverStopsBusy
<1>1. ASSUME Counted, NEW t \in Timers, Fire(t), started, ~started'
      PROVE  \A r \in Requests : req[r] \notin {"running", "streaming"}
  <2>1. activeRequests = 0
    BY <1>1 DEF Fire
  <2>2. {r \in Requests : req[r] # "none"} \in SUBSET Requests
    OBVIOUS
  <2>3. IsFiniteSet({r \in Requests : req[r] # "none"})
    BY <2>2, FS_Subset
  <2>4. {r \in Requests : req[r] # "none"} = {}
    BY <1>1, <2>1, <2>3, FS_EmptySet DEF Counted, ActiveRequestsExact
  <2>5. QED
    BY <2>4
<1>2. TypeOK /\ ActiveRequestsExact =>
        [\A t \in Timers : Fire(t) /\ started /\ ~started' =>
           \A r \in Requests : req[r] \notin {"running", "streaming"}]_vars
  BY <1>1 DEF Counted
<1>3. QED
  BY <1>2, CountingCorrect, PTL DEF NeverStopsBusy

=============================================================================
