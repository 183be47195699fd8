--------------------------- MODULE ConversationProofs ---------------------------
(***************************************************************************)
(* What the runs check of Conversation, for any requests, sockets, routes, *)
(* topics and bounds.  ConversationInv, at the end of the definitions, is  *)
(* inductive: it follows a request from the client's phases over the       *)
(* socket to the session and the dispatcher, and what is sent back from    *)
(* the data over the stream of a subscriber and its socket to the handler. *)
(***************************************************************************)
EXTENDS Conversation, FiniteSetTheorems, SequenceTheorems, WellFoundedInduction, TLAPS
-------------------------------------------------------------------------------

\* A set of numbers has a least one.
LEMMA LeastNumber ==
    ASSUME NEW A \in SUBSET Nat, A # {}
    PROVE  \E m \in A : \A n \in A : m <= n
<1> DEFINE Below == {1..n : n \in A}
<1>1. Below \subseteq FiniteSubsetsOf(Nat)
  <2>1. \A n \in A : 1..n \in SUBSET Nat /\ IsFiniteSet(1..n)
    BY FS_Interval
  <2>2. QED
    BY <2>1 DEF FiniteSubsetsOf
<1>2. PICK x \in Below : \A y \in Below : <<y, x>> \notin StrictSubsetOrdering(Nat)
  <2>1. IsWellFoundedOn(StrictSubsetOrdering(Nat), FiniteSubsetsOf(Nat))
    BY FS_StrictSubsetOrderingWellFounded
  <2>2. Below # {}
    OBVIOUS
  <2> HIDE DEF Below
  <2>3. QED
    BY <1>1, <2>1, <2>2, WFMin
<1>3. PICK m \in A : x = 1..m
  OBVIOUS
<1>4. ASSUME NEW n \in A PROVE m <= n
  <2> SUFFICES ASSUME n < m PROVE FALSE
    OBVIOUS
  <2>1. 1..n \subseteq 1..m /\ m \in 1..m /\ m \notin 1..n
    OBVIOUS
  <2>2. <<1..n, 1..m>> \in StrictSubsetOrdering(Nat)
    BY <2>1 DEF StrictSubsetOrdering
  <2>3. QED
    BY <1>2, <1>3, <2>2
<1>5. QED
  BY <1>4

\* Min and Max choose the least and the greatest number, where there is one.
LEMMA MinIsLeast ==
    ASSUME NEW A \in SUBSET Nat, A # {}
    PROVE  DI!Min(A) \in A /\ \A n \in A : DI!Min(A) <= n
BY LeastNumber DEF DI!Min

\* Of finitely many numbers, the greatest: Max of the data service
LEMMA MaxIsGreatest ==
    ASSUME NEW N \in Nat, NEW A \in SUBSET (0..N), A # {}
    PROVE  DS!Max(A) \in A /\ \A n \in A : n <= DS!Max(A)
<1> DEFINE B == {N - n : n \in A}
<1>1. B \in SUBSET Nat /\ B # {}
  <2>1. \A n \in A : n \in Nat /\ N - n \in Nat
    OBVIOUS
  <2>2. QED
    BY <2>1
<1>2. PICK m \in B : \A n \in B : m <= n
  BY <1>1, LeastNumber
<1>3. PICK a \in A : m = N - a
  OBVIOUS
<1>4. \A n \in A : N - n \in B /\ n \in Nat /\ n <= a
  BY <1>2, <1>3
<1>5. a \in A /\ \A n \in A : a >= n
  BY <1>4
<1>6. DS!Max(A) \in A /\ \A n \in A : DS!Max(A) >= n
  BY <1>5 DEF DS!Max
<1>7. QED
  BY <1>6
-------------------------------------------------------------------------------
(* The dispatcher *)

DispatchTypes ==
    /\ routes \in [DI!Dispatchers -> Seq(Handlers)]
    /\ \A d \in DI!Dispatchers : Len(routes[d]) <= MaxRoutes
    /\ frame \in [Requests -> [in : DI!Dispatchers, at : 0..MaxRoutes]]
    /\ result \in [Requests -> Handlers \cup {"none", "waiting", "not found"}]
    /\ passed \in [Requests -> SUBSET Handlers]
    /\ since \in [Requests -> SUBSET (DI!Dispatchers \X Handlers)]
    /\ shifted \subseteq Requests

\* The routes of d up to the i-th that match c, and are among those that have been there,
\* have passed it on.
PassedOn(c, d, i, been) ==
    \A j \in 1..i :
      c \in Matches[routes[d][j]] /\ <<d, routes[d][j]>> \in been => routes[d][j] \in passed[c]

\* What a call that awaits a handler has come past
WaitsInv ==
    \A c \in Requests :
      result[c] = "waiting" /\ c \notin shifted =>
        /\ frame[c].at \in 1..Len(routes[frame[c].in])
        /\ PassedOn(c, frame[c].in, frame[c].at, since[c])

DispatchInv == DispatchTypes /\ WaitsInv

\* The routes of a dispatcher are handlers, MaxRoutes of them at most.
LEMMA RoutesAre ==
    ASSUME CVAssumption, DispatchTypes, NEW d \in DI!Dispatchers
    PROVE  /\ routes[d] \in Seq(Handlers)
           /\ Len(routes[d]) \in Nat /\ Len(routes[d]) <= MaxRoutes /\ MaxRoutes \in Nat
           /\ \A j \in 1..Len(routes[d]) : routes[d][j] \in Handlers
<1>1. routes[d] \in Seq(Handlers)
  BY DEF DispatchTypes
<1>2. Len(routes[d]) <= MaxRoutes
  BY DEF DispatchTypes
<1>3. MaxRoutes \in Nat
  BY DEF CVAssumption, DI!DIAssumption
<1>4. QED
  BY <1>1, <1>2, <1>3, ElementOfSeq

\* FirstFrom finds the first route that matches, or none does.
LEMMA FirstFound ==
    ASSUME CVAssumption, DispatchTypes, NEW d \in DI!Dispatchers, NEW i \in Nat \ {0},
           NEW c \in Requests
    PROVE  LET j == DI!FirstFrom(d, i, c)
               last == IF j = 0 THEN Len(routes[d]) ELSE j - 1
           IN /\ j = 0 \/ j \in i..Len(routes[d])
              /\ j \in 0..MaxRoutes
              /\ \A n \in i..last : c \notin Matches[routes[d][n]]
<1> DEFINE found == {j \in i..Len(routes[d]) : c \in Matches[routes[d][j]]}
<1>1. Len(routes[d]) \in Nat /\ Len(routes[d]) <= MaxRoutes /\ MaxRoutes \in Nat
  BY RoutesAre
<1>2. DI!FirstFrom(d, i, c) = IF found = {} THEN 0 ELSE DI!Min(found)
  BY DEF DI!FirstFrom
<1>3. found \in SUBSET Nat
  BY <1>1
<1>4. CASE found = {}
  <2>1. \A n \in i..Len(routes[d]) : c \notin Matches[routes[d][n]]
    BY <1>4
  <2>2. QED
    BY <1>1, <1>2, <1>4, <2>1
<1>5. CASE found # {}
  <2> DEFINE m == DI!Min(found)
  <2>1. m \in found /\ \A n \in found : m <= n
    <3> HIDE DEF found
    <3>1. QED
      BY <1>3, <1>5, MinIsLeast
  <2>2. DI!FirstFrom(d, i, c) = m
    BY <1>2, <1>5
  <2> HIDE DEF m
  <2>3. m \in i..Len(routes[d]) /\ m # 0 /\ m \in 0..MaxRoutes
    BY <1>1, <2>1
  <2>4. \A n \in i..(m - 1) : c \notin Matches[routes[d][n]]
    BY <1>1, <2>1, <2>3
  <2>5. QED
    BY <2>2, <2>3, <2>4
<1>6. QED
  BY <1>4, <1>5

\* Where a call comes to that dispatch() moves on from route i of d, if those before i
\* have passed it on: every route before that one has.
Before(f) == IF f.at = 0 THEN Len(routes[f.in]) ELSE f.at - 1
Lands(f) == f \in [in : DI!Dispatchers, at : 0..MaxRoutes] /\ f.at <= Len(routes[f.in])

\* A call that moves on lands past routes that do not match it only.
LEMMA LandsPast ==
    ASSUME CVAssumption, DispatchTypes, NEW d \in DI!Dispatchers, NEW i \in Nat, NEW c \in Requests,
           NEW been, PassedOn(c, d, i, been)
    PROVE  LET f == DI!Land(d, i + 1, c)
           IN Lands(f) /\ PassedOn(c, f.in, Before(f), been)
<1> DEFINE j == DI!FirstFrom(d, i + 1, c)
           f == DI!Land(d, i + 1, c)
<1>1. /\ j = 0 \/ j \in (i + 1)..Len(routes[d])
      /\ j \in 0..MaxRoutes
      /\ \A n \in (i + 1)..(IF j = 0 THEN Len(routes[d]) ELSE j - 1) : c \notin Matches[routes[d][n]]
  <2>1. i + 1 \in Nat \ {0}
    OBVIOUS
  <2>2. QED
    BY <2>1, FirstFound
<1>2. Len(routes[d]) \in Nat
  BY RoutesAre
<1>3. CASE j # 0 /\ Kind[routes[d][j]] = "nested"
  <2> DEFINE e == routes[d][j]
             k == DI!FirstFrom(e, 1, c)
  <2>1. e \in Handlers
    <3>1. \A n \in 1..Len(routes[d]) : routes[d][n] \in Handlers
      BY RoutesAre
    <3>2. j \in 1..Len(routes[d])
      BY <1>1, <1>2, <1>3
    <3>3. QED
      BY <3>1, <3>2
  <2>2. e \in DI!Dispatchers
    BY <1>3, <2>1 DEF DI!Dispatchers, DI!Nested
  <2>3. f = [in |-> e, at |-> k]
    BY <1>3 DEF DI!Land
  <2>4. /\ k = 0 \/ k \in 1..Len(routes[e])
        /\ k \in 0..MaxRoutes
        /\ \A n \in 1..(IF k = 0 THEN Len(routes[e]) ELSE k - 1) : c \notin Matches[routes[e][n]]
    <3>1. 1 \in Nat \ {0}
      OBVIOUS
    <3> HIDE DEF e
    <3>2. QED
      BY <2>2, <3>1, FirstFound
  <2>5. Len(routes[e]) \in Nat
    BY <2>2, RoutesAre
  <2> HIDE DEF e, k, f
  <2>6. f.in = e /\ f.at = k
    BY <2>3
  <2>7. Lands(f)
    BY <2>2, <2>3, <2>4, <2>5, <2>6 DEF Lands
  <2>8. Before(f) = IF k = 0 THEN Len(routes[e]) ELSE k - 1
    BY <2>6 DEF Before
  <2>9. \A n \in 1..Before(f) : c \notin Matches[routes[e][n]]
    BY <2>4, <2>8
  <2>10. QED
    BY <2>6, <2>7, <2>9 DEF PassedOn, f
<1>4. CASE ~(j # 0 /\ Kind[routes[d][j]] = "nested")
  <2>1. f = [in |-> d, at |-> j]
    BY <1>4 DEF DI!Land
  <2> HIDE DEF f, j
  <2>2. f.in = d /\ f.at = j
    BY <2>1
  <2>3. Lands(f)
    BY <1>1, <1>2, <2>1, <2>2 DEF Lands
  <2>4. ASSUME NEW n \in 1..Before(f) PROVE n \in 1..i \/ c \notin Matches[routes[d][n]]
    BY <1>1, <1>2, <2>2 DEF Before
  <2>5. PassedOn(c, d, Before(f), been)
    BY <2>4 DEF PassedOn
  <2>6. QED
    BY <2>2, <2>3, <2>5 DEF f
<1>5. QED
  BY <1>3, <1>4

\* dispatch(): wherever the call comes to, what it came past has passed it on.
LEMMA Dispatched ==
    ASSUME CVAssumption, DispatchTypes, NEW d \in DI!Dispatchers, NEW i \in Nat, NEW c \in Requests,
           NEW been, PassedOn(c, d, i, been), DI!Dispatch(d, i + 1, c)
    PROVE  /\ frame' \in [Requests -> [in : DI!Dispatchers, at : 0..MaxRoutes]]
           /\ result' \in [Requests -> Handlers \cup {"none", "waiting", "not found"}]
           /\ passed' \in [Requests -> SUBSET Handlers]
           /\ \A e \in Requests \ {c} : frame'[e] = frame[e] /\ result'[e] = result[e] /\ passed'[e] = passed[e]
           /\ \A j \in 1..Before(frame'[c]) :
                LET h == routes[frame'[c].in][j]
                IN c \in Matches[h] /\ <<frame'[c].in, h>> \in been => h \in passed'[c]
           /\ result'[c] = "waiting" =>
                /\ frame'[c].at \in 1..Len(routes[frame'[c].in])
                /\ routes[frame'[c].in][frame'[c].at] \in passed'[c]
           /\ frame'[c] \in [in : DI!Dispatchers, at : 0..MaxRoutes]
           /\ result'[c] # "none"
<1> DEFINE f == DI!Land(d, i + 1, c)
           h == routes[f.in][f.at]
           goesOn == f.at # 0 /\ Kind[h] = "pass"
<1>1. /\ frame' = [frame EXCEPT ![c] = f]
      /\ result' = [result EXCEPT ![c] = IF f.at = 0 THEN "not found" ELSE IF goesOn THEN "waiting" ELSE h]
      /\ passed' = [passed EXCEPT ![c] = IF goesOn THEN passed[c] \cup {h} ELSE passed[c]]
  BY DEF DI!Dispatch
<1>2. Lands(f) /\ PassedOn(c, f.in, Before(f), been)
  BY LandsPast
<1> HIDE DEF f
<1>3. f \in [in : DI!Dispatchers, at : 0..MaxRoutes] /\ f.in \in DI!Dispatchers /\ f.at \in Nat
  BY <1>2, RoutesAre DEF Lands
<1>4. f.at # 0 => f.at \in 1..Len(routes[f.in]) /\ h \in Handlers
  <2>1. /\ Len(routes[f.in]) \in Nat
        /\ \A j \in 1..Len(routes[f.in]) : routes[f.in][j] \in Handlers
    BY <1>3, RoutesAre
  <2>2. f.at # 0 => f.at \in 1..Len(routes[f.in])
    BY <1>2, <1>3, <2>1 DEF Lands
  <2>3. QED
    BY <2>1, <2>2
<1>5. /\ frame \in [Requests -> [in : DI!Dispatchers, at : 0..MaxRoutes]]
      /\ result \in [Requests -> Handlers \cup {"none", "waiting", "not found"}]
      /\ passed \in [Requests -> SUBSET Handlers]
  BY DEF DispatchTypes
<1>6. Handlers \cap {"root", "none", "waiting", "not found"} = {}
  BY DEF CVAssumption, DI!DIAssumption
<1> HIDE DEF h
<1>7. /\ frame'[c] = f
      /\ passed'[c] = IF goesOn THEN passed[c] \cup {h} ELSE passed[c]
      /\ result'[c] = IF f.at = 0 THEN "not found" ELSE IF goesOn THEN "waiting" ELSE h
  BY <1>1, <1>5
<1>8. /\ frame' \in [Requests -> [in : DI!Dispatchers, at : 0..MaxRoutes]]
      /\ result' \in [Requests -> Handlers \cup {"none", "waiting", "not found"}]
      /\ passed' \in [Requests -> SUBSET Handlers]
  BY <1>1, <1>3, <1>4, <1>5
<1>9. \A e \in Requests \ {c} : frame'[e] = frame[e] /\ result'[e] = result[e] /\ passed'[e] = passed[e]
  BY <1>1, <1>5
<1>10. passed[c] \subseteq passed'[c]
  BY <1>7
<1>11. result'[c] = "waiting" => goesOn /\ h \in passed'[c]
  <2>1. f.at # 0 => h # "waiting"
    BY <1>4, <1>6
  <2>2. QED
    BY <1>7, <2>1
<1>12. result'[c] # "none"
  <2>1. f.at # 0 => h # "none"
    BY <1>4, <1>6
  <2>2. QED
    BY <1>7, <2>1
<1>13. \A j \in 1..Before(f) :
         c \in Matches[routes[f.in][j]] /\ <<f.in, routes[f.in][j]>> \in been => routes[f.in][j] \in passed'[c]
  BY <1>2, <1>10 DEF PassedOn
<1>14. result'[c] = "waiting" =>
         f.at \in 1..Len(routes[f.in]) /\ routes[f.in][f.at] \in passed'[c]
  BY <1>4, <1>11 DEF h
<1>15. QED
  BY <1>3, <1>7, <1>8, <1>9, <1>12, <1>13, <1>14

\* What holds of one call after dispatch(), for NoneIsSkipped
Skips(c) ==
    LET f == frame'[c]
        last == IF f.at = 0 THEN Len(routes[f.in]) ELSE f.at - 1
    IN result'[c] # result[c] /\ c \notin shifted =>
         \A j \in 1..last :
           LET h == routes[f.in][j]
           IN c \in Matches[h] /\ <<f.in, h>> \in since'[c] => h \in passed'[c]

\* call() and next() take a call past no route that it should have come to.
LEMMA CallGoesPast ==
    ASSUME CVAssumption, DispatchInv, NEW c \in Requests, DI!Call(c) \/ DI!Next(c)
    PROVE  /\ DispatchInv' /\ \A e \in Requests : Skips(e)
           /\ result[c] \in {"none", "waiting"} /\ result'[c] # "none"
           /\ \A e \in Requests \ {c} : result'[e] = result[e]
<1> USE DEF DispatchInv
<1>1. DispatchTypes /\ WaitsInv
  OBVIOUS
<1>2. PICK d \in DI!Dispatchers, i \in Nat :
        /\ DI!Dispatch(d, i + 1, c)
        /\ c \notin shifted => PassedOn(c, d, i, since'[c])
  <2>1. CASE DI!Call(c)
    <3>1. DI!Dispatch("root", 0 + 1, c)
      BY <2>1 DEF DI!Call
    <3>2. "root" \in DI!Dispatchers
      BY DEF DI!Dispatchers
    <3>3. PassedOn(c, "root", 0, since'[c])
      BY DEF PassedOn
    <3>4. QED
      BY <3>1, <3>2, <3>3
  <2>2. CASE DI!Next(c)
    <3>1. DI!Dispatch(frame[c].in, frame[c].at + 1, c) /\ result[c] = "waiting" /\ since' = since
      BY <2>2 DEF DI!Next
    <3>2. frame[c].in \in DI!Dispatchers /\ frame[c].at \in Nat
      <4>1. frame[c] \in [in : DI!Dispatchers, at : 0..MaxRoutes]
        BY DEF DispatchTypes
      <4>2. QED
        BY <4>1
    <3>3. c \notin shifted => PassedOn(c, frame[c].in, frame[c].at, since'[c])
      BY <1>1, <3>1 DEF WaitsInv
    <3>4. QED
      BY <3>1, <3>2, <3>3
  <2>3. QED
    BY <2>1, <2>2
<1> DEFINE been == IF c \in shifted THEN {} ELSE since'[c]
<1>3. PassedOn(c, d, i, been)
  BY <1>2 DEF PassedOn
<1> HIDE DEF been
<1>4. /\ frame' \in [Requests -> [in : DI!Dispatchers, at : 0..MaxRoutes]]
      /\ result' \in [Requests -> Handlers \cup {"none", "waiting", "not found"}]
      /\ passed' \in [Requests -> SUBSET Handlers]
  BY <1>2, <1>3, Dispatched
<1>5. \A e \in Requests \ {c} : frame'[e] = frame[e] /\ result'[e] = result[e] /\ passed'[e] = passed[e]
  BY <1>2, <1>3, Dispatched
<1>6. /\ \A j \in 1..Before(frame'[c]) :
           c \in Matches[routes[frame'[c].in][j]] /\ <<frame'[c].in, routes[frame'[c].in][j]>> \in been
             => routes[frame'[c].in][j] \in passed'[c]
      /\ result'[c] = "waiting" =>
           /\ frame'[c].at \in 1..Len(routes[frame'[c].in])
           /\ routes[frame'[c].in][frame'[c].at] \in passed'[c]
  BY <1>2, <1>3, Dispatched
<1>7. routes' = routes /\ shifted' = shifted
  BY DEF DI!Call, DI!Next
<1>8. since' \in [Requests -> SUBSET (DI!Dispatchers \X Handlers)]
  <2>1. since \in [Requests -> SUBSET (DI!Dispatchers \X Handlers)]
    BY DEF DispatchTypes
  <2>2. \A e \in DI!Dispatchers : DI!Range(routes[e]) \subseteq Handlers
    <3>1. ASSUME NEW e \in DI!Dispatchers PROVE DI!Range(routes[e]) \subseteq Handlers
      <4>1. routes[e] \in Seq(Handlers) /\ \A j \in 1..Len(routes[e]) : routes[e][j] \in Handlers
        BY RoutesAre
      <4>2. DOMAIN routes[e] = 1..Len(routes[e])
        BY <4>1
      <4>3. QED
        BY <4>1, <4>2 DEF DI!Range
    <3>2. QED
      BY <3>1
  <2>3. CASE DI!Call(c)
    <3>1. since' = [since EXCEPT ![c] = UNION {{e} \X DI!Range(routes[e]) : e \in DI!Dispatchers}]
      BY <2>3 DEF DI!Call
    <3>2. UNION {{e} \X DI!Range(routes[e]) : e \in DI!Dispatchers} \subseteq DI!Dispatchers \X Handlers
      BY <2>2
    <3>3. QED
      BY <2>1, <3>1, <3>2
  <2>4. CASE DI!Next(c)
    BY <2>1, <2>4 DEF DI!Next
  <2>5. QED
    BY <2>3, <2>4
<1>9. \A e \in Requests \ {c} : since'[e] = since[e]
  BY DEF DI!Call, DI!Next, DispatchTypes
<1>10. DispatchTypes'
  BY <1>1, <1>4, <1>7, <1>8 DEF DispatchTypes
<1>11. \A e \in Requests : Skips(e)
  BY <1>5, <1>6 DEF Skips, Before, been
<1>12. WaitsInv'
  <2> SUFFICES ASSUME NEW e \in Requests, result'[e] = "waiting", e \notin shifted
               PROVE  /\ frame'[e].at \in 1..Len(routes[frame'[e].in])
                      /\ \A j \in 1..frame'[e].at :
                           e \in Matches[routes[frame'[e].in][j]] /\ <<frame'[e].in, routes[frame'[e].in][j]>> \in since'[e]
                             => routes[frame'[e].in][j] \in passed'[e]
    BY <1>7 DEF WaitsInv, PassedOn
  <2>1. CASE e # c
    BY <1>1, <1>5, <1>9, <2>1 DEF WaitsInv, PassedOn
  <2>2. CASE e = c
    <3>1. frame'[c].at \in 1..Len(routes[frame'[c].in])
      BY <1>6, <2>2
    <3>2. frame'[c].at \in Nat \ {0}
      <4>1. frame'[c] \in [in : DI!Dispatchers, at : 0..MaxRoutes]
        BY <1>4
      <4>2. frame'[c].at \in Nat
        BY <4>1
      <4>3. QED
        BY <3>1, <4>2
    <3>3. ASSUME NEW j \in 1..frame'[c].at PROVE j \in 1..Before(frame'[c]) \/ j = frame'[c].at
      BY <3>2 DEF Before
    <3>4. been = since'[c]
      BY <2>2 DEF been
    <3>5. QED
      BY <1>6, <2>2, <3>1, <3>3, <3>4
  <2>3. QED
    BY <2>1, <2>2
<1>13. result[c] \in {"none", "waiting"} /\ result'[c] # "none"
  <2>1. result'[c] # "none"
    BY <1>2, <1>3, Dispatched
  <2>2. QED
    BY <2>1 DEF DI!Call, DI!Next
<1>14. QED
  BY <1>5, <1>10, <1>11, <1>12, <1>13

\* A route that is registered comes after those a waiting call has passed.
LEMMA RegisterKeeps ==
    ASSUME CVAssumption, DispatchInv, NEW d \in DI!Dispatchers,
           NEW h \in Handlers, DI!Register(d, h)
    PROVE  DispatchInv'
<1>1. DispatchTypes /\ WaitsInv
  BY DEF DispatchInv
<1>2. routes' = [routes EXCEPT ![d] = Append(routes[d], h)] /\ Len(routes[d]) < MaxRoutes
  BY DEF DI!Register
<1>3. UNCHANGED <<frame, result, passed, since, shifted>>
  BY DEF DI!Register
<1>4. routes \in [DI!Dispatchers -> Seq(Handlers)]
  BY <1>1 DEF DispatchTypes
<1>5. /\ Append(routes[d], h) \in Seq(Handlers)
      /\ Len(Append(routes[d], h)) = Len(routes[d]) + 1
      /\ \A j \in 1..Len(routes[d]) : Append(routes[d], h)[j] = routes[d][j]
  BY <1>4, AppendProperties
<1>6. DispatchTypes'
  <2>1. routes' \in [DI!Dispatchers -> Seq(Handlers)]
    BY <1>2, <1>4, <1>5
  <2>2. \A e \in DI!Dispatchers : Len(routes'[e]) <= MaxRoutes
    <3>1. ASSUME NEW e \in DI!Dispatchers PROVE Len(routes'[e]) <= MaxRoutes
      <4>1. Len(routes[e]) <= MaxRoutes /\ Len(routes[d]) \in Nat /\ MaxRoutes \in Nat
        BY <1>1, RoutesAre
      <4>2. routes'[e] = IF e = d THEN Append(routes[d], h) ELSE routes[e]
        BY <1>2, <1>4
      <4>3. QED
        BY <1>2, <1>5, <4>1, <4>2
    <3>2. QED
      BY <3>1
  <2>3. QED
    BY <1>1, <1>3, <2>1, <2>2 DEF DispatchTypes
<1>7. WaitsInv'
  <2> SUFFICES ASSUME NEW e \in Requests, result[e] = "waiting", e \notin shifted
               PROVE  /\ frame[e].at \in 1..Len(routes'[frame[e].in])
                      /\ \A j \in 1..frame[e].at :
                           LET r == routes'[frame[e].in][j]
                           IN e \in Matches[r] /\ <<frame[e].in, r>> \in since[e] => r \in passed[e]
    BY <1>3 DEF WaitsInv, PassedOn
  <2>1. frame[e].in \in DI!Dispatchers
    <3>1. frame[e] \in [in : DI!Dispatchers, at : 0..MaxRoutes]
      BY <1>1 DEF DispatchTypes
    <3>2. QED
      BY <3>1
  <2>2. /\ frame[e].at \in 1..Len(routes[frame[e].in])
        /\ PassedOn(e, frame[e].in, frame[e].at, since[e])
    BY <1>1 DEF WaitsInv
  <2>3. Len(routes[frame[e].in]) \in Nat /\ Len(routes[d]) \in Nat
    BY <1>1, <2>1, RoutesAre
  <2>4. Len(routes'[frame[e].in]) >= Len(routes[frame[e].in]) /\ Len(routes'[frame[e].in]) \in Nat
    BY <1>2, <1>4, <1>5, <2>1, <2>3
  <2>5. \A j \in 1..frame[e].at : routes'[frame[e].in][j] = routes[frame[e].in][j]
    BY <1>2, <1>4, <1>5, <2>1, <2>2, <2>3
  <2>6. QED
    BY <2>2, <2>3, <2>4, <2>5 DEF PassedOn
<1>8. QED
  BY <1>6, <1>7 DEF DispatchInv

\* One that is unregistered moves those behind it: the call knows that it may be off.
LEMMA UnregisterKeeps ==
    ASSUME CVAssumption, DispatchInv, NEW d \in DI!Dispatchers,
           NEW h \in Handlers, DI!Unregister(d, h)
    PROVE  DispatchInv'
<1> DEFINE found == {j \in 1..Len(routes[d]) : routes[d][j] = h /\ h \notin Lost}
           m == DI!Min(found)
           s == routes[d]
           s1 == DI!RemoveAt(s, m)
<1>1. DispatchTypes /\ WaitsInv
  BY DEF DispatchInv
<1>2. /\ found # {}
      /\ routes' = [routes EXCEPT ![d] = s1]
      /\ since' = [c \in Requests |-> since[c] \ {<<d, h>>}]
      /\ shifted' = shifted \cup {c \in DI!Pending : frame[c].in = d /\ m <= frame[c].at}
      /\ UNCHANGED <<frame, result, passed>>
  BY DEF DI!Unregister
<1>3. routes \in [DI!Dispatchers -> Seq(Handlers)]
  BY <1>1 DEF DispatchTypes
<1>4. s \in Seq(Handlers) /\ Len(s) \in Nat /\ Len(s) <= MaxRoutes /\ MaxRoutes \in Nat
  BY <1>1, RoutesAre
<1>5. m \in found
  <2>1. found \in SUBSET Nat
    OBVIOUS
  <2> HIDE DEF found
  <2>2. QED
    BY <1>2, <2>1, MinIsLeast
<1> HIDE DEF m
<1>6. m \in 1..Len(s)
  BY <1>5
<1> HIDE DEF s, found
<1>7. s1 \in Seq(Handlers) /\ Len(s1) = Len(s) - 1 /\ \A j \in 1..(m - 1) : s1[j] = s[j]
  <2> DEFINE a == SubSeq(s, 1, m - 1)
             b == SubSeq(s, m + 1, Len(s))
  <2>1. /\ a \in Seq(Handlers) /\ Len(a) = m - 1
        /\ \A j \in 1..(m - 1) : a[j] = s[j]
    BY <1>4, <1>6
  <2>2. b \in Seq(Handlers) /\ Len(b) = Len(s) - m
    BY <1>4, <1>6
  <2>3. s1 = a \o b
    BY DEF DI!RemoveAt
  <2> HIDE DEF a, b
  <2>4. /\ a \o b \in Seq(Handlers) /\ Len(a \o b) = Len(a) + Len(b)
        /\ \A j \in 1..Len(a) : (a \o b)[j] = a[j]
    <3>1. a \in Seq(Handlers) /\ b \in Seq(Handlers) /\ Len(a) \in Nat /\ Len(b) \in Nat
      BY <2>1, <2>2
    <3>2. QED
      BY <3>1, ConcatProperties
  <2>5. QED
    BY <1>4, <1>6, <2>1, <2>2, <2>3, <2>4
<1> HIDE DEF s1
<1>8. DispatchTypes'
  <2>1. routes' \in [DI!Dispatchers -> Seq(Handlers)]
    BY <1>2, <1>3, <1>7
  <2>2. \A e \in DI!Dispatchers : Len(routes'[e]) <= MaxRoutes
    <3>1. ASSUME NEW e \in DI!Dispatchers PROVE Len(routes'[e]) <= MaxRoutes
      <4>1. Len(routes[e]) <= MaxRoutes
        BY <1>1, RoutesAre
      <4>2. routes'[e] = IF e = d THEN s1 ELSE routes[e]
        BY <1>2, <1>3
      <4>3. QED
        BY <1>4, <1>7, <4>1, <4>2
    <3>2. QED
      BY <3>1
  <2>3. since' \in [Requests -> SUBSET (DI!Dispatchers \X Handlers)]
    <3>1. since \in [Requests -> SUBSET (DI!Dispatchers \X Handlers)]
      BY <1>1 DEF DispatchTypes
    <3>2. QED
      BY <1>2, <3>1
  <2>4. shifted' \subseteq Requests
    BY <1>1, <1>2 DEF DispatchTypes, DI!Pending
  <2>5. QED
    BY <1>1, <1>2, <2>1, <2>2, <2>3, <2>4 DEF DispatchTypes
<1>9. WaitsInv'
  <2> SUFFICES ASSUME NEW e \in Requests, result[e] = "waiting", e \notin shifted'
               PROVE  /\ frame[e].at \in 1..Len(routes'[frame[e].in])
                      /\ \A j \in 1..frame[e].at :
                           LET r == routes'[frame[e].in][j]
                           IN e \in Matches[r] /\ <<frame[e].in, r>> \in since'[e] => r \in passed[e]
    BY <1>2 DEF WaitsInv, PassedOn
  <2>1. frame[e].in \in DI!Dispatchers /\ frame[e].at \in Nat
    <3>1. frame[e] \in [in : DI!Dispatchers, at : 0..MaxRoutes]
      BY <1>1 DEF DispatchTypes
    <3>2. QED
      BY <3>1
  <2>2. e \notin shifted /\ (frame[e].in = d => ~ (m <= frame[e].at))
    BY <1>2 DEF DI!Pending
  <2>3. /\ frame[e].at \in 1..Len(routes[frame[e].in])
        /\ PassedOn(e, frame[e].in, frame[e].at, since[e])
    BY <1>1, <2>2 DEF WaitsInv
  <2>4. since'[e] \subseteq since[e]
    BY <1>2
  <2>5. CASE frame[e].in # d
    <3>1. routes'[frame[e].in] = routes[frame[e].in]
      BY <1>2, <1>3, <2>1, <2>5
    <3>2. QED
      BY <2>3, <2>4, <3>1 DEF PassedOn
  <2>6. CASE frame[e].in = d
    <3>1. routes'[d] = s1 /\ frame[e].at < m
      BY <1>2, <1>3, <1>6, <2>1, <2>2, <2>6
    <3>2. \A j \in 1..frame[e].at : j \in 1..(m - 1) /\ s1[j] = routes[d][j]
      BY <1>6, <1>7, <2>1, <3>1 DEF s
    <3>3. frame[e].at \in 1..Len(s1)
      BY <1>4, <1>6, <1>7, <2>1, <2>3, <3>1
    <3>4. QED
      BY <2>3, <2>4, <2>6, <3>1, <3>2, <3>3 DEF PassedOn
  <2>7. QED
    BY <2>5, <2>6
<1>10. QED
  BY <1>8, <1>9 DEF DispatchInv

\* Of each step of a conversation, the dispatcher sees one of its own or nothing.
LEMMA StepsDispatch ==
    ASSUME CVAssumption, [Next]_vars
    PROVE  \/ UNCHANGED diVars
           \/ \E c \in Requests : DI!Call(c) \/ DI!Next(c)
           \/ \E d \in DI!Dispatchers, h \in Handlers : DI!Register(d, h) \/ DI!Unregister(d, h)
<1>1. ASSUME NEW r \in Requests, ClientWorks(r) PROVE UNCHANGED diVars
  BY <1>1 DEF ClientWorks, Client
<1>2. ASSUME NEW r \in Requests, ServerWorks(r)
      PROVE  UNCHANGED diVars \/ DI!Call(r) \/ DI!Next(r)
  BY <1>2 DEF ServerWorks, Receive, PassOn, Reply, Subscribe, OpenStream, Streams, CleanUp,
     WriterEnds
<1>3. ASSUME NEW r \in Requests, (focus # "routes" /\ Client(CL!Request(r))) \/ Write(r) \/ Unsubscribe(r)
      PROVE  UNCHANGED diVars
  BY <1>3 DEF Client, Write, Unsubscribe
<1>4. ASSUME NEW r \in Requests, CallDirectly(r) \/ NextDirectly(r)
      PROVE  DI!Call(r) \/ DI!Next(r)
  BY <1>4 DEF CallDirectly, NextDirectly
<1>5. ASSUME NEW s \in Sockets,
             \/ SocketWorks(s) \/ Client(CL!Cut(s))
             \/ \E refused \in BOOLEAN : focus = "connect" /\ Client(CL!Fails(s, refused))
      PROVE  UNCHANGED diVars
  BY <1>5 DEF SocketWorks, Connected, Hangup, Client
<1>6. ASSUME NEW k \in Keys, SetData(k) PROVE UNCHANGED diVars
  BY <1>6 DEF SetData
<1>7. ASSUME DaemonStops \/ (focus = "connect" /\ Client(CL!Disconnect)) PROVE UNCHANGED diVars
  BY <1>7 DEF DaemonStops, Client
<1>8. ASSUME NEW d \in DI!Dispatchers, NEW h \in Plugged, Reroute(d, h)
      PROVE  h \in Handlers /\ (DI!Register(d, h) \/ DI!Unregister(d, h))
  BY <1>8 DEF Reroute, CVAssumption
<1>9. CASE UNCHANGED vars
  BY <1>9 DEF vars
<1>10. CASE Next
  BY <1>1, <1>2, <1>3, <1>4, <1>5, <1>6, <1>7, <1>8, <1>10 DEF Next
<1>11. QED
  BY <1>9, <1>10

\* No step of a conversation takes a call past a route.
LEMMA DispatchStep ==
    ASSUME CVAssumption, DispatchInv, [Next]_vars
    PROVE  DispatchInv' /\ (UNCHANGED diVars \/ \A e \in Requests : Skips(e))
<1>1. CASE UNCHANGED diVars
  BY <1>1 DEF diVars, DispatchInv, DispatchTypes, WaitsInv, PassedOn
<1>2. ASSUME NEW c \in Requests, DI!Call(c) \/ DI!Next(c)
      PROVE  DispatchInv' /\ \A e \in Requests : Skips(e)
  BY <1>2, CallGoesPast
<1>3. ASSUME NEW d \in DI!Dispatchers, NEW h \in Handlers, DI!Register(d, h) \/ DI!Unregister(d, h)
      PROVE  DispatchInv' /\ \A e \in Requests : Skips(e)
  <2>1. DispatchInv'
    BY <1>3, RegisterKeeps, UnregisterKeeps
  <2>2. result' = result
    BY <1>3 DEF DI!Register, DI!Unregister
  <2>3. QED
    BY <2>1, <2>2 DEF Skips
<1>4. QED
  BY <1>1, <1>2, <1>3, StepsDispatch

\* What a call has come to stands.
LEMMA ResultsStand ==
    ASSUME CVAssumption, DispatchInv, [Next]_vars
    PROVE  \A r \in Requests :
             /\ result[r] # "none" => result'[r] # "none"
             /\ result[r] \in Handlers => result'[r] = result[r]
<1>1. CASE UNCHANGED diVars
  BY <1>1 DEF diVars
<1>2. ASSUME NEW c \in Requests, DI!Call(c) \/ DI!Next(c)
      PROVE  \A r \in Requests :
               /\ result[r] # "none" => result'[r] # "none"
               /\ result[r] \in Handlers => result'[r] = result[r]
  <2>1. /\ result[c] \in {"none", "waiting"} /\ result'[c] # "none"
        /\ \A e \in Requests \ {c} : result'[e] = result[e]
    BY <1>2, CallGoesPast
  <2>2. result[c] \notin Handlers
    BY <2>1 DEF CVAssumption, DI!DIAssumption
  <2>3. QED
    BY <2>1, <2>2
<1>3. ASSUME NEW d \in DI!Dispatchers, NEW h \in Handlers, DI!Register(d, h) \/ DI!Unregister(d, h)
      PROVE  result' = result
  BY <1>3 DEF DI!Register, DI!Unregister
<1>4. QED
  BY <1>1, <1>2, <1>3, StepsDispatch

\* At first no call is under way.
LEMMA DispatchInit == CVAssumption /\ Init => DispatchInv
<1> SUFFICES ASSUME CVAssumption, Init PROVE DispatchInv
  OBVIOUS
<1>1. focus \in Focuses /\ DI!Started(InitialRoutes[focus])
  BY DEF Init
<1>2. MaxRoutes \in Nat /\ "root" \in DI!Dispatchers
  BY DEF CVAssumption, DI!DIAssumption, DI!Dispatchers
<1>3. /\ InitialRoutes[focus] \in [DI!Dispatchers -> Seq(Handlers)]
      /\ \A d \in DI!Dispatchers : Len(InitialRoutes[focus][d]) <= MaxRoutes
  BY <1>1 DEF CVAssumption
<1>4. DispatchTypes
  BY <1>1, <1>2, <1>3 DEF DI!Started, DispatchTypes
<1>5. WaitsInv
  BY <1>1 DEF DI!Started, WaitsInv
<1>6. QED
  BY <1>4, <1>5 DEF DispatchInv

\* No call misses a route that was there when it began and stayed, unless what was
\* unregistered in front of it moved it on: dispatch() goes on from the index it is at.
THEOREM CallsMissNoRoute == Spec => NoneIsSkipped
<1>1. Init => DispatchInv
  BY DispatchInit, CVAssumption
<1>2. DispatchInv /\ [Next]_vars => DispatchInv'
  BY DispatchStep, CVAssumption
<1>3. DispatchInv /\ [Next]_vars =>
        [\A c \in Requests :
           LET f == frame'[c]
               last == IF f.at = 0 THEN Len(routes[f.in]) ELSE f.at - 1
           IN result'[c] # result[c] /\ c \notin shifted =>
                \A j \in 1..last :
                  LET h == routes[f.in][j]
                  IN c \in Matches[h] /\ <<f.in, h>> \in since'[c] => h \in passed'[c]]_(DI!diVars)
  BY DispatchStep, CVAssumption DEF Skips, diVars, DI!diVars
<1>4. QED
  BY <1>1, <1>2, <1>3, PTL DEF Spec, NoneIsSkipped, DI!NoneIsSkipped, DI!diVars, diVars
-------------------------------------------------------------------------------
(* Client, sessions and data *)

Values == 0..MaxChanges
Packets == [type : WS!Types, v : Values]
Statuses == {0, 200, 500}
Responses == [id : Requests, type : WS!Types, v : Values, status : Statuses, fin : BOOLEAN]

ClientTypes ==
    /\ focus \in Focuses /\ chunks \in [Requests -> 0..MaxChunks]
    /\ phase \in [Requests -> {"none", "connect", "locale", "opening", "locating", "sent", "unsent", "failed"}]
    /\ socket \in Sockets \cup {0}
    /\ link \in [Sockets -> {"none", "connecting", "open", "cut", "closed"}]
    /\ opener \in [Sockets -> Requests \cup {0}] /\ sentOn \in [Requests -> Sockets \cup {0}]
    /\ handler \in [Requests -> {"none", "new", "ok", "failed"}]
    /\ appcd \in {"unknown", "missing", "found", "fetched"} /\ daemon \in {"up", "down"}
    /\ starts \in 0..MaxStarts

TalkTypes ==
    /\ heard \in [Requests -> Seq({"response", "finish", "error", "close"})]
    /\ latest \in [Requests -> Values]
    /\ up \in [Sockets -> Seq(Requests)]
    /\ down \in [Sockets -> Seq(Responses)]

ServerTypes ==
    /\ peer \in [Sockets -> {"none", "open", "closed"}]
    /\ session \in [Requests -> {"none", "calling", "reading", "done"}]
    /\ over \in [Requests -> Sockets \cup {0}]
    /\ told \subseteq Requests /\ first \subseteq Requests /\ pubsub \subseteq Requests
    /\ data \in [Keys -> Values]
    /\ topics \in [DS!Topics -> SUBSET Requests] /\ watches \subseteq DS!Topics
    /\ ended \in [Requests -> {"open", "ended", "failed"}]
    /\ queue \in [Requests -> Seq(Packets)]

\* A request that the server has begun with was sent, once, over a socket that has been
\* open.  Each socket that connects does so for a request of its own, that is not sent.
SentInv ==
    /\ \A r \in Requests :
         session[r] # "none" =>
           /\ phase[r] = "sent" /\ result[r] # "none"
           /\ over[r] \in Sockets /\ link[over[r]] \notin {"none", "connecting"}
    /\ \A s \in Sockets : \A i \in 1..Len(up[s]) : phase[up[s][i]] = "sent"
    /\ \A s \in Sockets : link[s] = "connecting" => opener[s] \in Requests /\ phase[opener[s]] = "opening"
    /\ \A s, t \in Sockets :
         link[s] = "connecting" /\ link[t] = "connecting" /\ opener[s] = opener[t] => s = t
    /\ \A s \in Sockets : link[s] = "open" => peer[s] = "open"
    /\ \A s \in Sockets : link[s] \in {"none", "connecting"} => peer[s] = "none"

\* What is on its way to the client belongs to a call that the session has heard of;
\* the last of it that belongs to a call that is over is the last there is.
FlowInv ==
    \A s \in Sockets : \A i \in 1..Len(down[s]) :
      LET m == down[s][i]
      IN /\ over[m.id] = s /\ session[m.id] \in {"reading", "done"}
         /\ m.fin => /\ session[m.id] = "done"
                     /\ \A j \in 1..Len(down[s]) : j > i => down[s][j].id # m.id

FinishInv ==
    \A r \in Requests : \A n \in 1..Len(heard[r]) :
      heard[r][n] = "finish" =>
        /\ session[r] = "done"
        /\ \A s \in Sockets : \A i \in 1..Len(down[s]) : down[s][i].id # r

EndsInv == FlowInv /\ FinishInv /\ CL!OneEnd

KnowsInv ==
    /\ \A r \in Requests : r \in told => session[r] \in {"reading", "done"}
    /\ WS!SourcesKnowOfClose

TopicsInv ==
    /\ DS!WatchesFollowSubscribers
    /\ \A t \in DS!Topics : \A r \in topics[t] : t = Filter[r]

\* The newest event that a subscriber has been written is the latest data: it is the
\* last in its stream, else the last on its way to the client, else what that has.
Subscribing(r) == session[r] = "reading" /\ Reached(r, "subscribe") /\ ended[r] = "open"

LastOf(sent, r, v) ==
    \E i \in 1..Len(sent) :
      /\ sent[i].id = r /\ sent[i].type = "event" /\ sent[i].v = v
      /\ \A j \in 1..Len(sent) : j > i => sent[j].id # r
NoneOf(sent, r) == \A i \in 1..Len(sent) : sent[i].id # r

Newest(r) == DS!Get(Filter[r])

Current(r) ==
    /\ r \in topics[Filter[r]]
    /\ queue[r] # <<>> => queue[r][Len(queue[r])] = DS!Message("event", Newest(r))
    /\ queue[r] = <<>> /\ link[over[r]] = "open" =>
         \/ LastOf(down[over[r]], r, Newest(r))
         \/ NoneOf(down[over[r]], r) /\ (handler[r] = "none" \/ latest[r] = Newest(r))

CurrentInv ==
    /\ \A r \in Requests : session[r] = "reading" => result[r] \in Handlers
    /\ \A r \in Requests : Subscribing(r) => Current(r)

ConversationInv ==
    /\ DispatchInv /\ ClientTypes /\ TalkTypes /\ ServerTypes /\ SentInv
    /\ EndsInv /\ KnowsInv /\ TopicsInv /\ CurrentInv

\* The steps of a conversation
LEMMA Steps ==
    ASSUME [Next]_vars
    PROVE  \/ UNCHANGED vars
           \/ \E r \in Requests : Client(CL!Request(r))
           \/ \E r \in Requests : Client(CL!TryConnect(r))
           \/ \E r \in Requests, s \in Sockets : Client(CL!OpenSocket(r, s))
           \/ \E r \in Requests, found \in BOOLEAN :
                Client(CL!FindAppcd(r, found)) \/ Client(CL!StartFails(r))
           \/ \E r \in Requests, works \in BOOLEAN : Client(CL!StartDaemon(r, works))
           \/ \E r \in Requests, works \in BOOLEAN, elsewhere \in BOOLEAN : Client(CL!FetchConfig(r, elsewhere, works))
           \/ \E s \in Sockets : Client(CL!Close(s))
           \/ \E s \in Sockets : Client(CL!Message(s))
           \/ \E s \in Sockets, refused \in BOOLEAN : Client(CL!Fails(s, refused))
           \/ \E s \in Sockets : Client(CL!Cut(s))
           \/ Client(CL!Disconnect)
           \/ \E s \in Sockets : Connected(s)
           \/ \E r \in Requests, s \in Sockets : Receive(s, r)
           \/ \E r \in Requests : PassOn(r)
           \/ \E r \in Requests : Reply(r)
           \/ \E r \in Requests : Subscribe(r)
           \/ \E r \in Requests : OpenStream(r)
           \/ \E r \in Requests : Streams(r)
           \/ \E r \in Requests : CleanUp(r)
           \/ \E r \in Requests, how \in {"ended", "failed"} : WriterEnds(r, how)
           \/ \E r \in Requests : Write(r)
           \/ \E r \in Requests : Unsubscribe(r)
           \/ \E r \in Requests : CallDirectly(r)
           \/ \E r \in Requests : NextDirectly(r)
           \/ \E s \in Sockets : Hangup(s)
           \/ \E k \in Keys : SetData(k)
           \/ DaemonStops
           \/ \E d \in DI!Dispatchers, h \in Plugged : Reroute(d, h)
<1>1. ASSUME NEW r \in Requests, ClientWorks(r)
      PROVE  \/ Client(CL!TryConnect(r))
             \/ \E s \in Sockets : Client(CL!OpenSocket(r, s))
             \/ \E found \in BOOLEAN : Client(CL!FindAppcd(r, found)) \/ Client(CL!StartFails(r))
             \/ \E works \in BOOLEAN : Client(CL!StartDaemon(r, works))
             \/ \E works \in BOOLEAN, elsewhere \in BOOLEAN : Client(CL!FetchConfig(r, elsewhere, works))
  BY <1>1 DEF ClientWorks
<1>2. ASSUME NEW r \in Requests, ServerWorks(r)
      PROVE  \/ \E s \in Sockets : Receive(s, r)
             \/ PassOn(r)
             \/ Reply(r)
             \/ Subscribe(r)
             \/ OpenStream(r)
             \/ Streams(r)
             \/ CleanUp(r)
             \/ \E how \in {"ended", "failed"} : WriterEnds(r, how)
  BY <1>2 DEF ServerWorks
<1>3. ASSUME NEW s \in Sockets, SocketWorks(s)
      PROVE  Connected(s) \/ Client(CL!Close(s)) \/ Client(CL!Message(s)) \/ Hangup(s)
  BY <1>3 DEF SocketWorks
<1>4. CASE Next
  BY <1>1, <1>2, <1>3, <1>4 DEF Next
<1>5. QED
  BY <1>4

\* What is assumed of the constants, by name
LEMMA Constants ==
    /\ MaxStarts \in Nat /\ MaxChunks \in Nat /\ MaxChanges \in Nat /\ 0 \notin Sockets
    /\ Filter \in [Requests -> Keys \cup {"all"}] /\ "all" \notin Keys /\ Keys # {}
<1>1. CL!CLAssumption /\ DI!DIAssumption /\ DS!DSAssumption /\ MaxChunks \in Nat
  BY CVAssumption DEF CVAssumption
<1>2. MaxStarts \in Nat /\ 0 \notin Sockets
  BY <1>1 DEF CL!CLAssumption
<1>3. QED
  BY <1>1, <1>2 DEF DS!DSAssumption

\* The value of a topic that a subscriber follows
LEMMA GetIs ==
    ASSUME data \in [Keys -> Values]
    PROVE  /\ DS!Get("all") \in Values
           /\ \A k \in Keys : data[k] <= DS!Get("all")
           /\ \A k \in Keys : DS!Get(k) = data[k]
           /\ \A t \in Keys \cup {"all"} : DS!Get(t) \in Values
           /\ \A r \in Requests : DS!Get(Filter[r]) \in Values
<1> DEFINE A == {data[k] : k \in Keys}
<1>1. A \in SUBSET (0..MaxChanges) /\ A # {} /\ MaxChanges \in Nat
  BY Constants DEF Values
<1>2. DS!Get("all") = DS!Max(A)
  BY DEF DS!Get
<1> HIDE DEF A
<1>3. DS!Max(A) \in A /\ \A n \in A : n <= DS!Max(A)
  BY <1>1, MaxIsGreatest
<1>4. DS!Get("all") \in Values /\ \A k \in Keys : data[k] <= DS!Get("all")
  BY <1>1, <1>2, <1>3 DEF A, Values
<1>5. \A k \in Keys : DS!Get(k) = data[k] /\ DS!Get(k) \in Values
  BY Constants DEF DS!Get
<1>6. QED
  BY <1>4, <1>5, Constants

\* What the sessions and the data service keep changes at few steps of the client.
LEMMA ServerSteps ==
    ASSUME [Next]_vars
    PROVE  \/ UNCHANGED <<ownVars, dsVars>>
           \/ \E s \in Sockets : Connected(s)
           \/ \E r \in Requests, s \in Sockets : Receive(s, r)
           \/ \E r \in Requests : Reply(r)
           \/ \E r \in Requests : Subscribe(r)
           \/ \E r \in Requests : OpenStream(r)
           \/ \E r \in Requests : Streams(r)
           \/ \E r \in Requests : CleanUp(r)
           \/ \E r \in Requests, how \in {"ended", "failed"} : WriterEnds(r, how)
           \/ \E r \in Requests : Write(r)
           \/ \E r \in Requests : Unsubscribe(r)
           \/ \E s \in Sockets : Hangup(s)
           \/ \E k \in Keys : SetData(k)
           \/ DaemonStops
<1>1. ASSUME NEW r \in Requests, Client(CL!Request(r)) PROVE UNCHANGED <<ownVars, dsVars>>
  BY <1>1 DEF Client, clVars, ownVars, net, diVars, dsVars
<1>2. ASSUME NEW r \in Requests, Client(CL!TryConnect(r)) PROVE UNCHANGED <<ownVars, dsVars>>
  BY <1>2 DEF Client, clVars, ownVars, net, diVars, dsVars
<1>3. ASSUME NEW r \in Requests, NEW s \in Sockets, Client(CL!OpenSocket(r, s))
      PROVE  UNCHANGED <<ownVars, dsVars>>
  BY <1>3 DEF Client, clVars, ownVars, net, diVars, dsVars
<1>4. ASSUME NEW r \in Requests, NEW found \in BOOLEAN,
             Client(CL!FindAppcd(r, found)) \/ Client(CL!StartFails(r))
      PROVE  UNCHANGED <<ownVars, dsVars>>
  BY <1>4 DEF Client, clVars, ownVars, net, diVars, dsVars
<1>5. ASSUME NEW r \in Requests, NEW works \in BOOLEAN, Client(CL!StartDaemon(r, works))
      PROVE  UNCHANGED <<ownVars, dsVars>>
  BY <1>5 DEF Client, clVars, ownVars, net, diVars, dsVars
<1>6. ASSUME NEW r \in Requests, NEW works \in BOOLEAN, NEW elsewhere \in BOOLEAN, Client(CL!FetchConfig(r, elsewhere, works))
      PROVE  UNCHANGED <<ownVars, dsVars>>
  BY <1>6 DEF Client, clVars, ownVars, net, diVars, dsVars
<1>7. ASSUME NEW s \in Sockets, Client(CL!Close(s)) PROVE UNCHANGED <<ownVars, dsVars>>
  BY <1>7 DEF Client, clVars, ownVars, net, diVars, dsVars
<1>8. ASSUME NEW s \in Sockets, Client(CL!Message(s)) PROVE UNCHANGED <<ownVars, dsVars>>
  BY <1>8 DEF Client, clVars, ownVars, net, diVars, dsVars
<1>9. ASSUME NEW s \in Sockets, NEW refused \in BOOLEAN, Client(CL!Fails(s, refused)) PROVE UNCHANGED <<ownVars, dsVars>>
  BY <1>9 DEF Client, clVars, ownVars, net, diVars, dsVars
<1>10. ASSUME NEW s \in Sockets, Client(CL!Cut(s)) PROVE UNCHANGED <<ownVars, dsVars>>
  BY <1>10 DEF Client, clVars, ownVars, net, diVars, dsVars
<1>11. CASE Client(CL!Disconnect)
  BY <1>11 DEF Client, clVars, ownVars, net, diVars, dsVars
<1>12. ASSUME NEW r \in Requests, PassOn(r) PROVE UNCHANGED <<ownVars, dsVars>>
  BY <1>12 DEF PassOn, ServerOnly, clVars, ownVars, net, diVars, dsVars
<1>13. ASSUME NEW r \in Requests, CallDirectly(r) PROVE UNCHANGED <<ownVars, dsVars>>
  BY <1>13 DEF CallDirectly, ServerOnly, clVars, ownVars, net, diVars, dsVars
<1>14. ASSUME NEW r \in Requests, NextDirectly(r) PROVE UNCHANGED <<ownVars, dsVars>>
  BY <1>14 DEF NextDirectly, ServerOnly, clVars, ownVars, net, diVars, dsVars
<1>15. ASSUME NEW d \in DI!Dispatchers, NEW h \in Plugged, Reroute(d, h)
       PROVE  UNCHANGED <<ownVars, dsVars>>
  BY <1>15 DEF Reroute, ServerOnly, clVars, ownVars, net, diVars, dsVars
<1>16. QED
  BY <1>1, <1>2, <1>3, <1>4, <1>5, <1>6, <1>7, <1>8, <1>9, <1>10, <1>11, <1>12, <1>13,
     <1>14, <1>15, Steps DEF vars, clVars, ownVars, net, diVars, dsVars

\* The steps that send, receive or lose something
LEMMA TalkSteps ==
    ASSUME [Next]_vars
    PROVE  \/ UNCHANGED <<over, session, up, down, heard, latest>>
           \/ \E r \in Requests : Client(CL!TryConnect(r))
           \/ \E r \in Requests, found \in BOOLEAN :
                Client(CL!FindAppcd(r, found)) \/ Client(CL!StartFails(r))
           \/ \E s \in Sockets : Client(CL!Close(s))
           \/ \E s \in Sockets : Client(CL!Message(s))
           \/ \E s \in Sockets, refused \in BOOLEAN : Client(CL!Fails(s, refused))
           \/ \E s \in Sockets : Client(CL!Cut(s))
           \/ Client(CL!Disconnect)
           \/ \E s \in Sockets : Connected(s)
           \/ \E r \in Requests, s \in Sockets : Receive(s, r)
           \/ \E r \in Requests : Reply(r)
           \/ \E r \in Requests : Subscribe(r)
           \/ \E r \in Requests : OpenStream(r)
           \/ \E r \in Requests : Streams(r)
           \/ \E s \in Sockets : Hangup(s)
           \/ DaemonStops
<1>1. ASSUME NEW r \in Requests, Client(CL!Request(r))
      PROVE  UNCHANGED <<over, session, up, down, heard, latest>>
  BY <1>1 DEF CL!Request, Client, clVars, ownVars, net, diVars, dsVars
<1>2. ASSUME NEW r \in Requests, NEW s \in Sockets, Client(CL!OpenSocket(r, s))
      PROVE  UNCHANGED <<over, session, up, down, heard, latest>>
  BY <1>2 DEF CL!OpenSocket, Client, clVars, ownVars, net, diVars, dsVars
<1>3. ASSUME NEW r \in Requests, NEW works \in BOOLEAN, Client(CL!StartDaemon(r, works))
      PROVE  UNCHANGED <<over, session, up, down, heard, latest>>
  BY <1>3 DEF CL!StartDaemon, CL!Starts, Client, clVars, ownVars, net, diVars, dsVars
<1>4. ASSUME NEW r \in Requests, NEW works \in BOOLEAN, NEW elsewhere \in BOOLEAN, Client(CL!FetchConfig(r, elsewhere, works))
      PROVE  UNCHANGED <<over, session, up, down, heard, latest>>
  BY <1>4 DEF CL!FetchConfig, CL!Starts, Client, clVars, ownVars, net, diVars, dsVars
<1>5. ASSUME NEW r \in Requests, PassOn(r)
      PROVE  UNCHANGED <<over, session, up, down, heard, latest>>
  BY <1>5 DEF PassOn, ServerOnly, clVars, ownVars, net, diVars, dsVars
<1>6. ASSUME NEW r \in Requests, CleanUp(r)
      PROVE  UNCHANGED <<over, session, up, down, heard, latest>>
  BY <1>6 DEF CleanUp, DS!CleanUp, DS!Left, ServerOnly, clVars, ownVars, net, diVars,
     dsVars
<1>7. ASSUME NEW r \in Requests, NEW how \in {"ended", "failed"}, WriterEnds(r, how)
      PROVE  UNCHANGED <<over, session, up, down, heard, latest>>
  BY <1>7 DEF WriterEnds, ServerOnly, clVars, ownVars, net, diVars, dsVars
<1>8. ASSUME NEW r \in Requests, Write(r)
      PROVE  UNCHANGED <<over, session, up, down, heard, latest>>
  BY <1>8 DEF Write, clVars, ownVars, net, diVars, dsVars
<1>9. ASSUME NEW r \in Requests, Unsubscribe(r)
      PROVE  UNCHANGED <<over, session, up, down, heard, latest>>
  BY <1>9 DEF Unsubscribe, DS!Unsubscribe, DS!Left, ServerOnly, clVars, ownVars, net,
     diVars, dsVars
<1>10. ASSUME NEW r \in Requests, CallDirectly(r)
       PROVE  UNCHANGED <<over, session, up, down, heard, latest>>
  BY <1>10 DEF CallDirectly, ServerOnly, clVars, ownVars, net, diVars, dsVars
<1>11. ASSUME NEW r \in Requests, NextDirectly(r)
       PROVE  UNCHANGED <<over, session, up, down, heard, latest>>
  BY <1>11 DEF NextDirectly, ServerOnly, clVars, ownVars, net, diVars, dsVars
<1>12. ASSUME NEW k \in Keys, SetData(k)
       PROVE  UNCHANGED <<over, session, up, down, heard, latest>>
  BY <1>12 DEF SetData, DS!SetData, ServerOnly, clVars, ownVars, net, diVars, dsVars
<1>13. ASSUME NEW d \in DI!Dispatchers, NEW h \in Plugged, Reroute(d, h)
       PROVE  UNCHANGED <<over, session, up, down, heard, latest>>
  BY <1>13 DEF Reroute, ServerOnly, clVars, ownVars, net, diVars, dsVars
<1>14. QED
  BY <1>1, <1>2, <1>3, <1>4, <1>5, <1>6, <1>7, <1>8, <1>9, <1>10, <1>11, <1>12, <1>13,
     Steps DEF vars, clVars, ownVars, net, diVars, dsVars

\* What the client sends are requests.
LEMMA SendTypes ==
    ASSUME NEW r \in Requests, NEW links, ClientTypes, TalkTypes, CL!Send(r, links)
    PROVE  up' \in [Sockets -> Seq(Requests)]
<1>1. up \in [Sockets -> Seq(Requests)] /\ socket \in Sockets \cup {0}
  BY DEF ClientTypes, TalkTypes
<1>2. up' = up \/ (socket # 0 /\ up' = [up EXCEPT ![socket] = Append(up[socket], r)])
  BY DEF CL!Send
<1>3. QED
  BY <1>1, <1>2

Words == {"response", "finish", "error", "close"}

\* An emitter adds a word to what was heard.
LEMMA EmitTypes ==
    ASSUME NEW r, heard \in [Requests -> Seq(Words)], NEW e \in Words, CL!Emit(r, e)
    PROVE  heard' \in [Requests -> Seq(Words)]
<1>1. heard' = heard \/ heard' = [heard EXCEPT ![r] = Append(heard[r], e)]
  BY DEF CL!Emit
<1>2. r \in Requests => Append(heard[r], e) \in Seq(Words)
  OBVIOUS
<1>3. QED
  BY <1>1, <1>2

\* A session sends a response, or nothing.
LEMMA RespondTypes ==
    ASSUME NEW r \in Requests, NEW type \in WS!Types, NEW v \in Values, NEW status \in Statuses,
           NEW fin \in BOOLEAN, down \in [Sockets -> Seq(Responses)], WS!Respond(r, type, v, status, fin)
    PROVE  down' \in [Sockets -> Seq(Responses)]
<1> DEFINE m == [id |-> r, type |-> type, v |-> v, status |-> status, fin |-> fin]
<1>1. m \in Responses
  BY DEF Responses
<1>2. down' = down \/ down' = [down EXCEPT ![over[r]] = Append(down[over[r]], m)]
  BY DEF WS!Respond
<1> HIDE DEF m
<1>3. over[r] \in Sockets => Append(down[over[r]], m) \in Seq(Responses)
  BY <1>1
<1>4. CASE over[r] \in Sockets
  BY <1>2, <1>3, <1>4
<1>5. CASE over[r] \notin Sockets
  <2>1. down' = down
    BY <1>2, <1>5
  <2>2. QED
    BY <2>1
<1>6. QED
  BY <1>4, <1>5

\* What the client keeps has its type.
LEMMA ClientTypesKept ==
    ASSUME CVAssumption, ClientTypes, TalkTypes, [Next]_vars
    PROVE  ClientTypes'
<1>1. CASE UNCHANGED vars
  BY <1>1 DEF vars, clVars, ownVars, net, diVars, dsVars, ClientTypes
<1>2. ASSUME NEW r \in Requests, Client(CL!Request(r)) PROVE ClientTypes'
  BY <1>2 DEF CL!Request, Client, clVars, ownVars, net, diVars, dsVars, ClientTypes
<1>3. ASSUME NEW r \in Requests, Client(CL!TryConnect(r)) PROVE ClientTypes'
  BY <1>3 DEF CL!TryConnect, CL!Send, Client, clVars, ownVars, net, diVars, dsVars, ClientTypes
<1>4. ASSUME NEW r \in Requests, NEW s \in Sockets, Client(CL!OpenSocket(r, s))
      PROVE  ClientTypes'
  BY <1>4 DEF CL!OpenSocket, Client, clVars, ownVars, net, diVars, dsVars, ClientTypes
<1>5. ASSUME NEW r \in Requests, NEW found \in BOOLEAN,
             Client(CL!FindAppcd(r, found)) \/ Client(CL!StartFails(r))
      PROVE  ClientTypes'
  BY <1>5 DEF CL!FindAppcd, CL!StartFails, CL!GivesUp, CL!Emit, Client, clVars, ownVars, net, diVars, dsVars,
     ClientTypes
<1>6. ASSUME NEW r \in Requests, NEW works \in BOOLEAN, Client(CL!StartDaemon(r, works))
      PROVE  ClientTypes'
  BY <1>6, Constants DEF CL!StartDaemon, CL!Starts, Client, clVars, ownVars, net, diVars,
     dsVars, ClientTypes
<1>7. ASSUME NEW r \in Requests, NEW works \in BOOLEAN, NEW elsewhere \in BOOLEAN, Client(CL!FetchConfig(r, elsewhere, works))
      PROVE  ClientTypes'
  BY <1>7, Constants DEF CL!FetchConfig, CL!Starts, Client, clVars, ownVars, net, diVars,
     dsVars, ClientTypes
<1>8. ASSUME NEW s \in Sockets, Client(CL!Close(s)) PROVE ClientTypes'
  BY <1>8 DEF CL!Close, CL!Emit, Client, clVars, ownVars, net, diVars, dsVars, ClientTypes
<1>9. ASSUME NEW s \in Sockets, Client(CL!Message(s)) PROVE ClientTypes'
  <2>1. /\ UNCHANGED <<phase, socket, link, opener, sentOn, appcd, daemon, starts, focus, chunks>>
        /\ handler' = handler \/ \E r \in Requests, x \in {"none", "new", "ok", "failed"} :
             handler' = [handler EXCEPT ![r] = x]
    <3>1. UNCHANGED <<phase, socket, link, opener, sentOn, appcd, daemon, starts, focus, chunks>>
      BY <1>9 DEF CL!Message, Client
    <3>2. CASE handler[Head(down[s]).id] = "none"
      BY <1>9, <3>2 DEF CL!Message, Client
    <3>3. CASE handler[Head(down[s]).id] # "none"
      <4> DEFINE r == Head(down[s]).id
                 x == IF handler[r] = "new" THEN (IF Head(down[s]).status = 200 THEN "ok" ELSE "failed") ELSE handler[r]
      <4>1. handler' = [handler EXCEPT ![r] = x]
        BY <1>9, <3>3 DEF CL!Message, Client
      <4>2. down[s] \in Seq(Responses) /\ down[s] # <<>>
        BY <1>9 DEF CL!Message, Client, TalkTypes
      <4>3. Head(down[s]) \in Responses
        BY <4>2
      <4>4. r \in Requests
        BY <4>3 DEF Responses
      <4>5. x \in {"none", "new", "ok", "failed"}
        BY <4>4 DEF ClientTypes
      <4> HIDE DEF x, r
      <4>6. QED
        BY <3>1, <4>1, <4>4, <4>5
    <3>4. QED
      BY <3>1, <3>2, <3>3
  <2>2. QED
    BY <2>1 DEF ClientTypes
<1>10. ASSUME NEW s \in Sockets, NEW refused \in BOOLEAN, Client(CL!Fails(s, refused)) PROVE ClientTypes'
  BY <1>10 DEF CL!Fails, CL!Dropped, CL!Emit, Client, clVars, ownVars, net, diVars, dsVars,
     ClientTypes
<1>11. ASSUME NEW s \in Sockets, Client(CL!Cut(s)) PROVE ClientTypes'
  BY <1>11 DEF CL!Cut, Client, clVars, ownVars, net, diVars, dsVars, ClientTypes
<1>12. CASE Client(CL!Disconnect)
  BY <1>12 DEF CL!Disconnect, CL!Dropped, Client, clVars, ownVars, net, diVars, dsVars,
     ClientTypes
<1>13. ASSUME NEW s \in Sockets, Connected(s) PROVE ClientTypes'
  BY <1>13 DEF Connected, CL!Opened, CL!Send, clVars, ownVars, net, diVars, dsVars, ClientTypes
<1>14. ASSUME NEW r \in Requests, NEW s \in Sockets, Receive(s, r) PROVE ClientTypes'
  BY <1>14 DEF Receive, WS!Receive, ServerOnly, DI!Call, clVars, ownVars, net, diVars, dsVars,
     ClientTypes
<1>15. ASSUME NEW r \in Requests, PassOn(r) PROVE ClientTypes'
  BY <1>15 DEF PassOn, ServerOnly, clVars, ownVars, net, diVars, dsVars, ClientTypes
<1>16. ASSUME NEW r \in Requests, Reply(r) PROVE ClientTypes'
  BY <1>16 DEF Reply, WS!Answer, WS!Done, WS!Respond, ServerOnly, clVars, ownVars, net,
     diVars, dsVars, ClientTypes
<1>17. ASSUME NEW r \in Requests, Subscribe(r) PROVE ClientTypes'
  BY <1>17 DEF Subscribe, WS!ReadStream, DS!Subscribe, ServerOnly, clVars, ownVars, net,
     diVars, dsVars, ClientTypes
<1>18. ASSUME NEW r \in Requests, OpenStream(r) PROVE ClientTypes'
  BY <1>18 DEF OpenStream, WS!ReadStream, ServerOnly, clVars, ownVars, net, diVars, dsVars,
     ClientTypes
<1>19. ASSUME NEW r \in Requests, Streams(r) PROVE ClientTypes'
  BY <1>19 DEF Streams, WS!Data, WS!End, WS!Error, WS!Done, WS!Respond, ServerOnly, clVars,
     ownVars, net, diVars, dsVars, ClientTypes
<1>20. ASSUME NEW r \in Requests, CleanUp(r) PROVE ClientTypes'
  BY <1>20 DEF CleanUp, DS!CleanUp, DS!Left, ServerOnly, clVars, ownVars, net, diVars, dsVars,
     ClientTypes
<1>21. ASSUME NEW r \in Requests, NEW how \in {"ended", "failed"}, WriterEnds(r, how)
       PROVE  ClientTypes'
  BY <1>21 DEF WriterEnds, ServerOnly, clVars, ownVars, net, diVars, dsVars, ClientTypes
<1>22. ASSUME NEW r \in Requests, Write(r) PROVE ClientTypes'
  BY <1>22, Constants DEF Write, clVars, ownVars, net, diVars, dsVars, ClientTypes
<1>23. ASSUME NEW r \in Requests, Unsubscribe(r) PROVE ClientTypes'
  BY <1>23 DEF Unsubscribe, DS!Unsubscribe, DS!Left, ServerOnly, clVars, ownVars, net, diVars,
     dsVars, ClientTypes
<1>24. ASSUME NEW r \in Requests, CallDirectly(r) PROVE ClientTypes'
  BY <1>24 DEF CallDirectly, ServerOnly, clVars, ownVars, net, diVars, dsVars, ClientTypes
<1>25. ASSUME NEW r \in Requests, NextDirectly(r) PROVE ClientTypes'
  BY <1>25 DEF NextDirectly, ServerOnly, clVars, ownVars, net, diVars, dsVars, ClientTypes
<1>26. ASSUME NEW s \in Sockets, Hangup(s) PROVE ClientTypes'
  BY <1>26 DEF Hangup, WS!Closed, ServerOnly, clVars, ownVars, net, diVars, dsVars, ClientTypes
<1>27. ASSUME NEW k \in Keys, SetData(k) PROVE ClientTypes'
  BY <1>27 DEF SetData, DS!SetData, ServerOnly, clVars, ownVars, net, diVars, dsVars,
     ClientTypes
<1>28. CASE DaemonStops
  BY <1>28 DEF DaemonStops, clVars, ownVars, net, diVars, dsVars, ClientTypes
<1>29. ASSUME NEW d \in DI!Dispatchers, NEW h \in Plugged, Reroute(d, h) PROVE ClientTypes'
  BY <1>29 DEF Reroute, ServerOnly, clVars, ownVars, net, diVars, dsVars, ClientTypes
<1>30. QED
  BY <1>1, <1>2, <1>3, <1>4, <1>5, <1>6, <1>7, <1>8, <1>9, <1>10, <1>11, <1>12, <1>13,
     <1>14, <1>15, <1>16, <1>17, <1>18, <1>19, <1>20, <1>21, <1>22, <1>23, <1>24, <1>25,
     <1>26, <1>27, <1>28, <1>29, Steps

\* What is heard, and what is on its way, has its type.
LEMMA TalkTypesKept ==
    ASSUME CVAssumption, TalkTypes, ClientTypes, ServerTypes, SentInv, [Next]_vars
    PROVE  TalkTypes'
<1>1. CASE UNCHANGED <<over, session, up, down, heard, latest>>
  BY <1>1 DEF TalkTypes
<1>2. ASSUME NEW r \in Requests, Client(CL!TryConnect(r)) PROVE TalkTypes'
  <2>1. up' \in [Sockets -> Seq(Requests)]
    BY <1>2, SendTypes DEF CL!TryConnect, Client, TalkTypes
  <2>2. UNCHANGED <<heard, latest, down>>
    BY <1>2 DEF CL!TryConnect, Client
  <2>3. QED
    BY <2>1, <2>2 DEF TalkTypes
<1>3. ASSUME NEW r \in Requests, NEW found \in BOOLEAN,
             Client(CL!FindAppcd(r, found)) \/ Client(CL!StartFails(r))
      PROVE  TalkTypes'
  <2>1. heard' \in [Requests -> Seq(Words)]
    <3>1. heard \in [Requests -> Seq(Words)]
      BY DEF TalkTypes, Words
    <3>2. heard' = heard \/ CL!Emit(r, "error")
      BY <1>3 DEF CL!FindAppcd, CL!StartFails, CL!GivesUp, Client
    <3>3. QED
      BY <3>1, <3>2, EmitTypes DEF Words
  <2>2. UNCHANGED <<up, latest, down>>
    BY <1>3 DEF CL!FindAppcd, CL!StartFails, Client
  <2>3. QED
    BY <2>1, <2>2 DEF TalkTypes, Words
<1>4. ASSUME NEW s \in Sockets, Client(CL!Close(s)) PROVE TalkTypes'
  <2>1. heard' \in [Requests -> Seq(Words)]
    <3>1. heard \in [Requests -> Seq(Words)]
      BY DEF TalkTypes, Words
    <3>2. CL!Emit(opener[s], "close")
      BY <1>4 DEF CL!Close, Client
    <3>3. QED
      BY <3>1, <3>2, EmitTypes DEF Words
  <2>2. UNCHANGED <<up, latest, down>>
    BY <1>4 DEF CL!Close, Client
  <2>3. QED
    BY <2>1, <2>2 DEF TalkTypes, Words
<1>5. ASSUME NEW s \in Sockets, Client(CL!Message(s)) PROVE TalkTypes'
  <2> DEFINE m == Head(down[s])
             r == m.id
  <2>1. down[s] \in Seq(Responses) /\ down[s] # <<>> /\ down' = [down EXCEPT ![s] = Tail(down[s])] /\ up' = up
    BY <1>5 DEF CL!Message, Client, TalkTypes
  <2>2. m \in Responses /\ Tail(down[s]) \in Seq(Responses)
    BY <2>1
  <2>3. r \in Requests /\ m.v \in Values
    BY <2>2 DEF Responses
  <2>4. \/ UNCHANGED <<heard, latest>>
        \/ CL!Handled(r, m) /\ latest' = [latest EXCEPT ![r] = IF m.type \in {"value", "event"} THEN m.v ELSE latest[r]]
    BY <1>5 DEF CL!Message, Client
  <2> HIDE DEF m
  <2>5. down' \in [Sockets -> Seq(Responses)]
    BY <2>1, <2>2 DEF TalkTypes
  <2>6. latest' \in [Requests -> Values]
    BY <2>3, <2>4 DEF TalkTypes
  <2>7. heard' \in [Requests -> Seq(Words)]
    <3>1. heard \in [Requests -> Seq(Words)]
      BY DEF TalkTypes, Words
    <3>2. CASE UNCHANGED <<heard, latest>>
      BY <3>1, <3>2
    <3>3. CASE CL!Handled(r, m)
      <4>1. PICK w \in Seq(Words) : heard' = [heard EXCEPT ![r] = heard[r] \o w]
        <5>1. <<"error">> \in Seq(Words) /\ <<"response">> \in Seq(Words) /\ <<"finish">> \in Seq(Words) /\ <<>> \in Seq(Words)
          BY DEF Words
        <5> DEFINE failed == IF handler[r] = "new" THEN m.status # 200 ELSE handler[r] = "failed"
                   a == IF m.type = "finish" THEN <<>> ELSE <<"response">>
                   b == IF m.fin THEN <<"finish">> ELSE <<>>
        <5>2. heard' = [heard EXCEPT ![r] = heard[r] \o (IF failed THEN <<"error">> ELSE a \o b)]
          BY <3>3 DEF CL!Handled
        <5>3. a \in Seq(Words) /\ b \in Seq(Words)
          BY <5>1
        <5> HIDE DEF a, b, failed
        <5>4. a \o b \in Seq(Words)
          BY <5>3
        <5>5. QED
          BY <5>1, <5>2, <5>4
      <4>2. heard[r] \in Seq(Words)
        BY <2>3, <3>1
      <4>3. heard[r] \o w \in Seq(Words)
        BY <4>2
      <4>4. QED
        BY <3>1, <4>1, <4>3
    <3>4. QED
      BY <2>4, <3>2, <3>3
  <2>8. QED
    BY <2>1, <2>5, <2>6, <2>7 DEF TalkTypes, Words
<1>6. ASSUME NEW s \in Sockets, NEW refused \in BOOLEAN, Client(CL!Fails(s, refused)) PROVE TalkTypes'
  <2>1. heard' \in [Requests -> Seq(Words)]
    <3>1. heard \in [Requests -> Seq(Words)]
      BY DEF TalkTypes, Words
    <3>2. heard' = heard \/ CL!Emit(opener[s], "error")
      BY <1>6 DEF CL!Fails, Client
    <3>3. QED
      BY <3>1, <3>2, EmitTypes DEF Words
  <2>2. CL!Dropped(s) /\ latest' = latest
    BY <1>6 DEF CL!Fails, Client
  <2>3. up' \in [Sockets -> Seq(Requests)] /\ down' \in [Sockets -> Seq(Responses)]
    BY <2>2 DEF CL!Dropped, TalkTypes
  <2>4. QED
    BY <2>1, <2>2, <2>3 DEF TalkTypes, Words
<1>7. ASSUME NEW s \in Sockets, Client(CL!Cut(s)) PROVE TalkTypes'
  BY <1>7 DEF CL!Cut, Client, clVars, ownVars, net, diVars, dsVars, TalkTypes
<1>8. CASE Client(CL!Disconnect)
  <2>1. CL!Dropped(socket) /\ latest' = latest /\ heard' = heard /\ socket \in Sockets
    BY <1>8 DEF CL!Disconnect, Client, ClientTypes
  <2>2. up' \in [Sockets -> Seq(Requests)] /\ down' \in [Sockets -> Seq(Responses)]
    BY <2>1 DEF CL!Dropped, TalkTypes
  <2>3. QED
    BY <2>1, <2>2 DEF TalkTypes
<1>9. ASSUME NEW s \in Sockets, Connected(s) PROVE TalkTypes'
  <2>1. CL!Send(opener[s], link') /\ UNCHANGED <<heard, latest, down>>
    BY <1>9 DEF Connected, CL!Opened
  <2>2. opener[s] \in Requests
    BY <1>9 DEF Connected, CL!Opened, SentInv
  <2>3. up' \in [Sockets -> Seq(Requests)]
    BY <2>1, <2>2, SendTypes
  <2>4. QED
    BY <2>1, <2>3 DEF TalkTypes
<1>10. ASSUME NEW r \in Requests, NEW s \in Sockets, Receive(s, r) PROVE TalkTypes'
  BY <1>10 DEF Receive, WS!Receive, ServerOnly, DI!Call, clVars, ownVars, net, diVars, dsVars,
     TalkTypes
<1>11. ASSUME NEW r \in Requests, Reply(r) PROVE TalkTypes'
  <2>1. UNCHANGED <<heard, latest, up>>
    BY <1>11 DEF Reply, ServerOnly, clVars, WS!Answer
  <2>2. DS!Get(Filter[r]) \in Values /\ 0 \in Values
    BY GetIs, Constants DEF ServerTypes, Values
  <2>3. "value" \in WS!Types /\ "error" \in WS!Types /\ 200 \in Statuses /\ 500 \in Statuses
    BY DEF WS!Types, Statuses
  <2>4. down \in [Sockets -> Seq(Responses)]
    BY DEF TalkTypes
  <2>5. down' \in [Sockets -> Seq(Responses)]
    <3>1. CASE WS!Respond(r, "value", DS!Get(Filter[r]), 200, TRUE)
      BY <2>2, <2>3, <2>4, <3>1, RespondTypes
    <3>2. CASE WS!Respond(r, "error", 0, 500, FALSE)
      BY <2>2, <2>3, <2>4, <3>2, RespondTypes
    <3>3. QED
      BY <1>11, <3>1, <3>2 DEF Reply, WS!Answer
  <2>6. QED
    BY <2>1, <2>5 DEF TalkTypes
<1>12. ASSUME NEW r \in Requests, Subscribe(r) PROVE TalkTypes'
  BY <1>12 DEF Subscribe, WS!ReadStream, DS!Subscribe, ServerOnly, clVars, ownVars, net,
     diVars, dsVars, TalkTypes
<1>13. ASSUME NEW r \in Requests, OpenStream(r) PROVE TalkTypes'
  BY <1>13 DEF OpenStream, WS!ReadStream, ServerOnly, clVars, ownVars, net, diVars, dsVars,
     TalkTypes
<1>14. ASSUME NEW r \in Requests, Streams(r) PROVE TalkTypes'
  <2>1. UNCHANGED <<heard, latest, up>>
    BY <1>14 DEF Streams, ServerOnly, clVars, WS!Data, WS!End, WS!Error
  <2>2. "finish" \in WS!Types /\ "error" \in WS!Types /\ 0 \in Values /\ 200 \in Statuses /\ 500 \in Statuses
    BY Constants DEF WS!Types, Values, Statuses
  <2>3. down \in [Sockets -> Seq(Responses)]
    BY DEF TalkTypes
  <2>4. down' \in [Sockets -> Seq(Responses)]
    <3>1. CASE WS!Data(r)
      <4> DEFINE m == Head(queue[r])
                 status == IF (r \in pubsub \/ m.type = "subscribe") \/ r \in first THEN 200 ELSE 0
      <4>1. WS!Respond(r, m.type, m.v, status, FALSE)
        BY <3>1 DEF WS!Data
      <4>2. queue[r] \in Seq(Packets) /\ queue[r] # <<>>
        BY <3>1 DEF WS!Data, ServerTypes
      <4>3. m \in Packets
        BY <4>2
      <4>4. m.type \in WS!Types /\ m.v \in Values
        BY <4>3 DEF Packets
      <4>5. status \in Statuses
        BY DEF Statuses
      <4> HIDE DEF m, status
      <4>6. QED
        BY <2>3, <4>1, <4>4, <4>5, RespondTypes
    <3>2. CASE WS!End(r)
      <4>1. WS!Respond(r, "finish", 0, 200, TRUE)
        BY <3>2 DEF WS!End
      <4>2. QED
        BY <2>2, <2>3, <4>1, RespondTypes
    <3>3. CASE WS!Error(r)
      <4>1. WS!Respond(r, "error", 0, 500, TRUE)
        BY <3>3 DEF WS!Error
      <4>2. QED
        BY <2>2, <2>3, <4>1, RespondTypes
    <3>4. QED
      BY <1>14, <3>1, <3>2, <3>3 DEF Streams
  <2>5. QED
    BY <2>1, <2>4 DEF TalkTypes
<1>15. ASSUME NEW s \in Sockets, Hangup(s) PROVE TalkTypes'
  BY <1>15 DEF Hangup, WS!Closed, ServerOnly, clVars, ownVars, net, diVars, dsVars, TalkTypes
<1>16. CASE DaemonStops
  BY <1>16 DEF DaemonStops, clVars, ownVars, net, diVars, dsVars, TalkTypes
<1>17. QED
  BY <1>1, <1>2, <1>3, <1>4, <1>5, <1>6, <1>7, <1>8, <1>9, <1>10, <1>11, <1>12, <1>13,
     <1>14, <1>15, <1>16, TalkSteps

\* What the sessions and the data service keep has its type.
LEMMA ServerTypesKept ==
    ASSUME CVAssumption, ClientTypes, ServerTypes, DispatchTypes, [Next]_vars
    PROVE  ServerTypes'
<1>1. CASE UNCHANGED <<ownVars, dsVars>>
  BY <1>1 DEF ownVars, dsVars, ServerTypes
<1>2. ASSUME NEW s \in Sockets, Connected(s) PROVE ServerTypes'
  BY <1>2 DEF Connected, CL!Opened, CL!Send, clVars, ownVars, net, diVars, dsVars, ServerTypes
<1>3. ASSUME NEW r \in Requests, NEW s \in Sockets, Receive(s, r) PROVE ServerTypes'
  BY <1>3 DEF Receive, WS!Receive, ServerOnly, DI!Call, clVars, ownVars, net, diVars, dsVars,
     ServerTypes
<1>4. ASSUME NEW r \in Requests, Reply(r) PROVE ServerTypes'
  BY <1>4 DEF Reply, WS!Answer, WS!Done, WS!Respond, ServerOnly, clVars, ownVars, net, diVars,
     dsVars, ServerTypes
<1>5. ASSUME NEW r \in Requests, Subscribe(r) PROVE ServerTypes'
  <2>1. Filter[r] \in DS!Topics
    BY Constants DEF DS!Topics
  <2>2. /\ UNCHANGED <<peer, over, first, pubsub, data, ended>>
        /\ session' = [session EXCEPT ![r] = "reading"]
        /\ told' = told \cup {r} \/ told' = told
        /\ topics' = [topics EXCEPT ![Filter[r]] = topics[Filter[r]] \cup {r}]
        /\ watches' = watches \cup {Filter[r]}
        /\ queue' = [queue EXCEPT ![r] = queue[r] \o DS!Subscribed(r)]
    BY <1>5 DEF Subscribe, WS!ReadStream, DS!Subscribe
  <2>3. DS!Subscribed(r) \in Seq(Packets)
    <3>1. DS!Message("subscribe", 0) \in Packets /\ DS!Message("event", DS!Get(Filter[r])) \in Packets
      BY GetIs, Constants DEF Packets, DS!Message, WS!Types, ServerTypes, Values
    <3>2. QED
      BY <3>1 DEF DS!Subscribed
  <2>4. queue' \in [Requests -> Seq(Packets)]
    <3>1. queue[r] \in Seq(Packets)
      BY DEF ServerTypes
    <3>2. queue[r] \o DS!Subscribed(r) \in Seq(Packets)
      BY <2>3, <3>1
    <3>3. QED
      BY <2>2, <3>2 DEF ServerTypes
  <2>5. QED
    BY <2>1, <2>2, <2>4 DEF ServerTypes
<1>6. ASSUME NEW r \in Requests, OpenStream(r) PROVE ServerTypes'
  BY <1>6 DEF OpenStream, WS!ReadStream, ServerOnly, clVars, ownVars, net, diVars, dsVars,
     ServerTypes
<1>7. ASSUME NEW r \in Requests, Streams(r) PROVE ServerTypes'
  <2>1. UNCHANGED <<peer, over, told, data, topics, watches, ended>>
    BY <1>7 DEF Streams, WS!Data, WS!End, WS!Error
  <2>2. session' \in [Requests -> {"none", "calling", "reading", "done"}]
    BY <1>7 DEF Streams, WS!Data, WS!End, WS!Error, WS!Done, ServerTypes
  <2>3. first' \subseteq Requests /\ pubsub' \subseteq Requests
    BY <1>7 DEF Streams, WS!Data, WS!End, WS!Error, WS!Respond, ServerTypes
  <2>4. queue' \in [Requests -> Seq(Packets)]
    <3>1. queue' = queue \/ (queue[r] # <<>> /\ queue' = [queue EXCEPT ![r] = Tail(queue[r])])
      BY <1>7 DEF Streams, WS!Data, WS!End, WS!Error
    <3>2. queue[r] \in Seq(Packets)
      BY DEF ServerTypes
    <3>3. queue[r] # <<>> => Tail(queue[r]) \in Seq(Packets)
      BY <3>2
    <3>4. QED
      BY <3>1, <3>3 DEF ServerTypes
  <2>5. QED
    BY <2>1, <2>2, <2>3, <2>4 DEF ServerTypes
<1>8. ASSUME NEW r \in Requests, CleanUp(r) PROVE ServerTypes'
  BY <1>8 DEF CleanUp, DS!CleanUp, DS!Left, ServerOnly, clVars, ownVars, net, diVars, dsVars,
     ServerTypes
<1>9. ASSUME NEW r \in Requests, NEW how \in {"ended", "failed"}, WriterEnds(r, how)
      PROVE  ServerTypes'
  BY <1>9 DEF WriterEnds, ServerOnly, clVars, ownVars, net, diVars, dsVars, ServerTypes
<1>10. ASSUME NEW r \in Requests, Write(r) PROVE ServerTypes'
  <2>1. DS!Message("chunk", 0) \in Packets
    BY Constants DEF Packets, DS!Message, WS!Types, Values
  <2>2. queue' = [queue EXCEPT ![r] = Append(queue[r], DS!Message("chunk", 0))]
    BY <1>10 DEF Write
  <2>3. queue' \in [Requests -> Seq(Packets)]
    BY <2>1, <2>2 DEF ServerTypes
  <2>4. UNCHANGED <<peer, session, over, told, first, pubsub, data, topics, watches, ended>>
    BY <1>10 DEF Write, ownVars
  <2>5. QED
    BY <2>3, <2>4 DEF ServerTypes
<1>11. ASSUME NEW r \in Requests, Unsubscribe(r) PROVE ServerTypes'
  <2>1. Filter[r] \in DS!Topics
    BY Constants DEF DS!Topics
  <2>2. DS!Message("unsubscribe", 0) \in Packets
    BY Constants DEF Packets, DS!Message, WS!Types, Values
  <2>3. queue' = [queue EXCEPT ![r] = Append(queue[r], DS!Message("unsubscribe", 0))]
    BY <1>11 DEF Unsubscribe, DS!Unsubscribe
  <2>4. queue' \in [Requests -> Seq(Packets)]
    BY <2>2, <2>3 DEF ServerTypes
  <2>5. /\ UNCHANGED <<peer, session, over, told, first, pubsub, data>>
        /\ ended' = [ended EXCEPT ![r] = "ended"]
        /\ topics' = [topics EXCEPT ![Filter[r]] = topics[Filter[r]] \ {r}]
        /\ watches' \subseteq watches
    BY <1>11 DEF Unsubscribe, DS!Unsubscribe, DS!Left, ownVars
  <2>6. QED
    BY <2>1, <2>4, <2>5 DEF ServerTypes
<1>12. ASSUME NEW s \in Sockets, Hangup(s) PROVE ServerTypes'
  BY <1>12 DEF Hangup, WS!Closed, ServerOnly, clVars, ownVars, net, diVars, dsVars, ServerTypes
<1>13. ASSUME NEW k \in Keys, SetData(k) PROVE ServerTypes'
  <2> DEFINE value == DS!Get("all") + 1
             followers == UNION {topics[t] : t \in watches \cap {k, "all"}}
             late == {r \in followers : ended[r] # "open"}
             heirs == followers \ late
  <2>1. value \in Values
    <3>1. DS!Get("all") \in Values
      BY GetIs DEF ServerTypes
    <3>2. value <= MaxChanges
      BY <1>13 DEF SetData, DS!SetData
    <3>3. QED
      BY <3>1, <3>2, Constants DEF Values
  <2>2. /\ data' = [data EXCEPT ![k] = value]
        /\ queue' = [r \in Requests |-> IF r \in heirs THEN Append(queue[r], DS!Message("event", value)) ELSE queue[r]]
        /\ ended' = [r \in Requests |-> IF r \in late THEN "failed" ELSE ended[r]]
        /\ topics' = [t \in DS!Topics |-> topics[t] \ late]
        /\ watches' = {t \in watches : topics[t] \ late # {}}
        /\ UNCHANGED <<peer, session, over, told, first, pubsub>>
    BY <1>13 DEF SetData, DS!SetData, ownVars
  <2> HIDE DEF value, followers, late, heirs
  <2>3. DS!Message("event", value) \in Packets
    BY <2>1 DEF Packets, DS!Message, WS!Types
  <2>4. queue' \in [Requests -> Seq(Packets)]
    BY <2>2, <2>3 DEF ServerTypes
  <2>5. data' \in [Keys -> Values]
    BY <2>1, <2>2 DEF ServerTypes
  <2>6. QED
    BY <2>2, <2>4, <2>5 DEF ServerTypes
<1>14. CASE DaemonStops
  BY <1>14 DEF DaemonStops, clVars, ownVars, net, diVars, dsVars, ServerTypes
<1>15. QED
  BY <1>1, <1>2, <1>3, <1>4, <1>5, <1>6, <1>7, <1>8, <1>9, <1>10, <1>11, <1>12, <1>13,
     <1>14, ServerSteps


\* A request that send() takes is counted as sent, and only then goes to the server.
LEMMA SendSends ==
    ASSUME ClientTypes, TalkTypes, SentInv, NEW r \in Requests, phase[r] # "sent",
           NEW links, CL!Send(r, links)
    PROVE  /\ \A q \in Requests : phase[q] = "sent" => phase'[q] = "sent"
           /\ \A q \in Requests \ {r} : phase'[q] = phase[q]
           /\ \A s \in Sockets : \A i \in 1..Len(up'[s]) : phase'[up'[s][i]] = "sent"
<1>1. phase' \in {[phase EXCEPT ![r] = "unsent"], [phase EXCEPT ![r] = "sent"]}
  BY DEF CL!Send
<1>2. /\ \A q \in Requests : phase[q] = "sent" => phase'[q] = "sent"
      /\ \A q \in Requests \ {r} : phase'[q] = phase[q]
  BY <1>1 DEF ClientTypes
<1>3. ASSUME NEW s \in Sockets PROVE \A i \in 1..Len(up[s]) : phase'[up[s][i]] = "sent"
  <2>1. \A i \in 1..Len(up[s]) : up[s][i] \in Requests
    BY DEF TalkTypes
  <2>2. QED
    BY <1>2, <2>1 DEF SentInv
<1>4. CASE up' = up
  BY <1>2, <1>3, <1>4
<1>5. CASE up' # up
  <2>1. /\ phase' = [phase EXCEPT ![r] = "sent"]
        /\ up' = [up EXCEPT ![socket] = Append(up[socket], r)]
    BY <1>5 DEF CL!Send
  <2>2. phase'[r] = "sent"
    BY <2>1 DEF ClientTypes
  <2>3. ASSUME NEW s \in Sockets PROVE \A i \in 1..Len(up'[s]) : phase'[up'[s][i]] = "sent"
    <3>1. up[s] \in Seq(Requests)
      BY DEF TalkTypes
    <3>2. up'[s] = up[s] \/ up'[s] = Append(up[s], r)
      BY <2>1 DEF TalkTypes
    <3>3. \A i \in 1..Len(Append(up[s], r)) :
            (i \in 1..Len(up[s]) /\ Append(up[s], r)[i] = up[s][i]) \/ Append(up[s], r)[i] = r
      BY <3>1
    <3>4. QED
      BY <1>3, <2>2, <3>2, <3>3
  <2>4. QED
    BY <1>2, <2>3
<1>6. QED
  BY <1>2, <1>4, <1>5

\* A request comes to its session by one socket, once.
LEMMA SentKept ==
    ASSUME CVAssumption, ClientTypes, TalkTypes, ServerTypes, DispatchInv, SentInv, [Next]_vars
    PROVE  SentInv'
<1>1. \A r \in Requests : result[r] # "none" => result'[r] # "none"
  BY ResultsStand
<1>2. CASE UNCHANGED vars
  BY <1>2 DEF vars, clVars, ownVars, net, diVars, dsVars, SentInv, ClientTypes, ServerTypes
<1>3. ASSUME NEW r \in Requests, Client(CL!Request(r)) PROVE SentInv'
  BY <1>3 DEF CL!Request, Client, clVars, ownVars, net, diVars, dsVars, SentInv, ClientTypes,
     ServerTypes
<1>4. ASSUME NEW r \in Requests, Client(CL!TryConnect(r)) PROVE SentInv'
  <2>1. UNCHANGED <<link, opener, peer, session, over, result>> /\ phase[r] = "connect"
    BY <1>4 DEF CL!TryConnect, Client, ownVars, diVars
  <2>2. /\ \A q \in Requests : phase[q] = "sent" => phase'[q] = "sent"
        /\ \A q \in Requests \ {r} : phase'[q] = phase[q]
        /\ \A s \in Sockets : \A i \in 1..Len(up'[s]) : phase'[up'[s][i]] = "sent"
    <3>1. CASE CL!Send(r, link)
      BY <2>1, <3>1, SendSends
    <3>2. CASE phase' = [phase EXCEPT ![r] = "locale"] /\ up' = up
      <4>1. \A s \in Sockets : \A i \in 1..Len(up[s]) : up[s][i] \in Requests
        BY DEF TalkTypes
      <4>2. QED
        BY <2>1, <3>2, <4>1 DEF SentInv, ClientTypes
    <3>3. QED
      BY <1>4, <3>1, <3>2 DEF CL!TryConnect, Client
  <2>3. QED
    BY <2>1, <2>2 DEF SentInv
<1>5. ASSUME NEW r \in Requests, NEW s \in Sockets, Client(CL!OpenSocket(r, s)) PROVE SentInv'
  BY <1>5 DEF CL!OpenSocket, Client, clVars, ownVars, net, diVars, dsVars, SentInv,
     ClientTypes, ServerTypes
<1>6. ASSUME NEW r \in Requests, NEW found \in BOOLEAN,
             Client(CL!FindAppcd(r, found)) \/ Client(CL!StartFails(r))
      PROVE  SentInv'
  <2>1. UNCHANGED <<link, opener, peer, session, over, result, up>> /\ phase[r] = "locating"
    BY <1>6 DEF CL!FindAppcd, CL!StartFails, Client, ownVars, diVars
  <2>2. phase' = phase \/ phase' = [phase EXCEPT ![r] = "failed"]
    BY <1>6 DEF CL!FindAppcd, CL!StartFails, CL!GivesUp, Client
  <2>3. \A q \in Requests : phase[q] \in {"sent", "opening"} => phase'[q] = phase[q]
    BY <2>1, <2>2 DEF ClientTypes
  <2>4. \A s \in Sockets : \A i \in 1..Len(up[s]) : up[s][i] \in Requests
    BY DEF TalkTypes
  <2>5. QED
    BY <2>1, <2>3, <2>4 DEF SentInv
<1>7. ASSUME NEW r \in Requests, NEW works \in BOOLEAN, Client(CL!StartDaemon(r, works))
      PROVE  SentInv'
  BY <1>7 DEF CL!StartDaemon, CL!Starts, Client, clVars, ownVars, net, diVars, dsVars,
     SentInv, ClientTypes, ServerTypes
<1>8. ASSUME NEW r \in Requests, NEW works \in BOOLEAN, NEW elsewhere \in BOOLEAN, Client(CL!FetchConfig(r, elsewhere, works))
      PROVE  SentInv'
  BY <1>8 DEF CL!FetchConfig, CL!Starts, Client, clVars, ownVars, net, diVars, dsVars,
     SentInv, ClientTypes, ServerTypes
<1>9. ASSUME NEW s \in Sockets, Client(CL!Close(s)) PROVE SentInv'
  BY <1>9 DEF CL!Close, CL!Emit, Client, clVars, ownVars, net, diVars, dsVars, SentInv,
     ClientTypes, ServerTypes
<1>10. ASSUME NEW s \in Sockets, Client(CL!Message(s)) PROVE SentInv'
  <2>1. UNCHANGED <<link, opener, peer, session, over, result, up, phase>>
    BY <1>10 DEF CL!Message, Client, ownVars, diVars
  <2>2. QED
    BY <2>1 DEF SentInv
<1>11. ASSUME NEW s \in Sockets, NEW refused \in BOOLEAN, Client(CL!Fails(s, refused)) PROVE SentInv'
  BY <1>11 DEF CL!Fails, CL!Dropped, CL!Emit, Client, clVars, ownVars, net, diVars, dsVars,
     SentInv, ClientTypes, ServerTypes
<1>12. ASSUME NEW s \in Sockets, Client(CL!Cut(s)) PROVE SentInv'
  <2>1. UNCHANGED <<opener, peer, session, over, result, phase>>
    BY <1>12 DEF CL!Cut, Client, ownVars, diVars
  <2>2. link' = [link EXCEPT ![s] = "cut"] /\ up' = [up EXCEPT ![s] = <<>>] /\ link[s] = "open"
    BY <1>12 DEF CL!Cut, Client
  <2>3. QED
    BY <2>1, <2>2 DEF SentInv, ClientTypes, TalkTypes
<1>13. CASE Client(CL!Disconnect)
  BY <1>13 DEF CL!Disconnect, CL!Dropped, Client, clVars, ownVars, net, diVars, dsVars,
     SentInv, ClientTypes, ServerTypes
<1>14. ASSUME NEW s \in Sockets, Connected(s) PROVE SentInv'
  <2>1. /\ link[s] = "connecting" /\ link' = [link EXCEPT ![s] = "open"]
        /\ peer' = [peer EXCEPT ![s] = "open"] /\ UNCHANGED <<opener, session, over, result>>
        /\ CL!Send(opener[s], link')
    BY <1>14 DEF Connected, CL!Opened, diVars
  <2>2. opener[s] \in Requests /\ phase[opener[s]] = "opening"
    BY <2>1 DEF SentInv
  <2>3. /\ \A q \in Requests : phase[q] = "sent" => phase'[q] = "sent"
        /\ \A q \in Requests \ {opener[s]} : phase'[q] = phase[q]
        /\ \A t \in Sockets : \A i \in 1..Len(up'[t]) : phase'[up'[t][i]] = "sent"
    BY <2>1, <2>2, SendSends
  <2>4. \A t \in Sockets : link'[t] = IF t = s THEN "open" ELSE link[t]
    BY <2>1 DEF ClientTypes
  <2>5. \A t \in Sockets : peer'[t] = IF t = s THEN "open" ELSE peer[t]
    BY <2>1 DEF ServerTypes
  <2>6. \A q \in Requests :
         session'[q] # "none" =>
           /\ phase'[q] = "sent" /\ result'[q] # "none"
           /\ over'[q] \in Sockets /\ link'[over'[q]] \notin {"none", "connecting"}
    BY <2>1, <2>3, <2>4 DEF SentInv
  <2>7. \A t \in Sockets : link'[t] = "connecting" => opener'[t] \in Requests /\ phase'[opener'[t]] = "opening"
    BY <2>1, <2>3, <2>4 DEF SentInv
  <2>8. QED
    BY <2>1, <2>3, <2>4, <2>5, <2>6, <2>7 DEF SentInv
<1>15. ASSUME NEW r \in Requests, NEW s \in Sockets, Receive(s, r) PROVE SentInv'
  <2>1. /\ UNCHANGED <<phase, link, opener, peer>>
        /\ peer[s] = "open" /\ up[s] # <<>> /\ Head(up[s]) = r
        /\ up' = [up EXCEPT ![s] = Tail(up[s])]
        /\ session' = [session EXCEPT ![r] = "calling"]
        /\ over' = [over EXCEPT ![r] = s]
        /\ DI!Call(r)
    BY <1>15 DEF Receive, WS!Receive, ServerOnly, clVars
  <2>2. result'[r] # "none"
    BY <2>1, CallGoesPast
  <2>3. up[s] \in Seq(Requests) /\ r = up[s][1] /\ 1 \in 1..Len(up[s])
    BY <2>1 DEF TalkTypes
  <2>4. phase[r] = "sent"
    BY <2>3 DEF SentInv
  <2>5. link[s] \notin {"none", "connecting"}
    BY <2>1 DEF SentInv
  <2>6. \A q \in Requests :
          session'[q] # "none" =>
            /\ phase[q] = "sent" /\ result'[q] # "none"
            /\ over'[q] \in Sockets /\ link[over'[q]] \notin {"none", "connecting"}
    BY <1>1, <2>1, <2>2, <2>4, <2>5 DEF SentInv, ServerTypes
  <2>7. \A t \in Sockets : \A i \in 1..Len(up'[t]) : phase[up'[t][i]] = "sent"
    <3>1. ASSUME NEW i \in 1..Len(Tail(up[s])) PROVE phase[Tail(up[s])[i]] = "sent"
      <4>1. Tail(up[s])[i] = up[s][i + 1] /\ i + 1 \in 1..Len(up[s])
        BY <2>1, <2>3
      <4>2. QED
        BY <4>1 DEF SentInv
    <3>2. \A t \in Sockets : up'[t] = IF t = s THEN Tail(up[s]) ELSE up[t]
      BY <2>1 DEF TalkTypes
    <3>3. \A t \in Sockets : \A i \in 1..Len(up[t]) : phase[up[t][i]] = "sent"
      BY DEF SentInv
    <3>4. ASSUME NEW t \in Sockets, NEW i \in 1..Len(up'[t]) PROVE phase[up'[t][i]] = "sent"
      <4>1. CASE t = s
        BY <3>1, <3>2, <4>1
      <4>2. CASE t # s
        BY <3>2, <3>3, <4>2
      <4>3. QED
        BY <4>1, <4>2
    <3>5. QED
      BY <3>4
  <2>8. QED
    BY <2>1, <2>6, <2>7 DEF SentInv
<1>16. ASSUME NEW r \in Requests, PassOn(r) PROVE SentInv'
  <2>1. UNCHANGED <<phase, link, opener, up, peer, over>>
    BY <1>16 DEF PassOn, ServerOnly, clVars, net, ownVars
  <2>2. \A q \in Requests : session'[q] # "none" => session[q] # "none"
    BY <1>16 DEF PassOn, ownVars, ServerTypes
  <2>3. QED
    BY <1>1, <2>1, <2>2 DEF SentInv
<1>17. ASSUME NEW r \in Requests, Reply(r) PROVE SentInv'
  <2>1. UNCHANGED <<phase, link, opener, up, peer, over>>
    BY <1>17 DEF Reply, ServerOnly, clVars, net, ownVars, WS!Answer
  <2>2. \A q \in Requests : session'[q] # "none" => session[q] # "none"
    BY <1>17 DEF Reply, ownVars, ServerTypes, WS!Answer, WS!Done
  <2>3. QED
    BY <1>1, <2>1, <2>2 DEF SentInv
<1>18. ASSUME NEW r \in Requests, Subscribe(r) PROVE SentInv'
  BY <1>18, <1>1 DEF Subscribe, WS!ReadStream, DS!Subscribe, ServerOnly, clVars, ownVars, net,
     diVars, dsVars, SentInv, ClientTypes, ServerTypes
<1>19. ASSUME NEW r \in Requests, OpenStream(r) PROVE SentInv'
  BY <1>19 DEF OpenStream, WS!ReadStream, ServerOnly, clVars, ownVars, net, diVars, dsVars,
     SentInv, ClientTypes, ServerTypes
<1>20. ASSUME NEW r \in Requests, Streams(r) PROVE SentInv'
  BY <1>20 DEF Streams, WS!Data, WS!End, WS!Error, WS!Done, WS!Respond, ServerOnly, clVars,
     ownVars, net, diVars, dsVars, SentInv, ClientTypes, ServerTypes
<1>21. ASSUME NEW r \in Requests, CleanUp(r) PROVE SentInv'
  BY <1>21 DEF CleanUp, DS!CleanUp, DS!Left, ServerOnly, clVars, ownVars, net, diVars, dsVars,
     SentInv, ClientTypes, ServerTypes
<1>22. ASSUME NEW r \in Requests, NEW how \in {"ended", "failed"}, WriterEnds(r, how)
       PROVE  SentInv'
  BY <1>22 DEF WriterEnds, ServerOnly, clVars, ownVars, net, diVars, dsVars, SentInv,
     ClientTypes, ServerTypes
<1>23. ASSUME NEW r \in Requests, Write(r) PROVE SentInv'
  BY <1>23 DEF Write, clVars, ownVars, net, diVars, dsVars, SentInv, ClientTypes, ServerTypes
<1>24. ASSUME NEW r \in Requests, Unsubscribe(r) PROVE SentInv'
  BY <1>24 DEF Unsubscribe, DS!Unsubscribe, DS!Left, ServerOnly, clVars, ownVars, net, diVars,
     dsVars, SentInv, ClientTypes, ServerTypes
<1>25. ASSUME NEW r \in Requests, CallDirectly(r) PROVE SentInv'
  <2>1. UNCHANGED <<phase, link, opener, up, peer, over>>
    BY <1>25 DEF CallDirectly, ServerOnly, clVars, net, ownVars
  <2>2. \A q \in Requests : session'[q] # "none" => session[q] # "none"
    BY <1>25 DEF CallDirectly, ownVars, ServerTypes
  <2>3. QED
    BY <1>1, <2>1, <2>2 DEF SentInv
<1>26. ASSUME NEW r \in Requests, NextDirectly(r) PROVE SentInv'
  <2>1. UNCHANGED <<phase, link, opener, up, peer, over>>
    BY <1>26 DEF NextDirectly, ServerOnly, clVars, net, ownVars
  <2>2. \A q \in Requests : session'[q] # "none" => session[q] # "none"
    BY <1>26 DEF NextDirectly, ownVars, ServerTypes
  <2>3. QED
    BY <1>1, <2>1, <2>2 DEF SentInv
<1>27. ASSUME NEW s \in Sockets, Hangup(s) PROVE SentInv'
  BY <1>27 DEF Hangup, WS!Closed, ServerOnly, clVars, ownVars, net, diVars, dsVars, SentInv,
     ClientTypes, ServerTypes
<1>28. ASSUME NEW k \in Keys, SetData(k) PROVE SentInv'
  BY <1>28 DEF SetData, DS!SetData, ServerOnly, clVars, ownVars, net, diVars, dsVars, SentInv,
     ClientTypes, ServerTypes
<1>29. CASE DaemonStops
  BY <1>29 DEF DaemonStops, clVars, ownVars, net, diVars, dsVars, SentInv, ClientTypes,
     ServerTypes
<1>30. ASSUME NEW d \in DI!Dispatchers, NEW h \in Plugged, Reroute(d, h) PROVE SentInv'
  <2>1. UNCHANGED <<phase, link, opener, up, peer, over>>
    BY <1>30 DEF Reroute, ServerOnly, clVars, net, ownVars
  <2>2. \A q \in Requests : session'[q] # "none" => session[q] # "none"
    BY <1>30 DEF Reroute, ownVars, ServerTypes
  <2>3. QED
    BY <1>1, <2>1, <2>2 DEF SentInv
<1>31. QED
  BY <1>2, <1>3, <1>4, <1>5, <1>6, <1>7, <1>8, <1>9, <1>10, <1>11, <1>12, <1>13, <1>14,
     <1>15, <1>16, <1>17, <1>18, <1>19, <1>20, <1>21, <1>22, <1>23, <1>24, <1>25, <1>26,
     <1>27, <1>28, <1>29, <1>30, Steps

\* The source of a stream ends when its session is told that the socket has ended.
LEMMA KnowsKept ==
    ASSUME CVAssumption, ClientTypes, ServerTypes, SentInv, DispatchInv, KnowsInv, [Next]_vars
    PROVE  KnowsInv'
<1>1. CASE UNCHANGED <<ownVars, dsVars>>
  BY <1>1 DEF ownVars, dsVars, KnowsInv, WS!SourcesKnowOfClose, ServerTypes
<1>2. ASSUME NEW s \in Sockets, Connected(s) PROVE KnowsInv'
  BY <1>2 DEF Connected, CL!Opened, CL!Send, clVars, ownVars, net, diVars, dsVars, KnowsInv,
     WS!SourcesKnowOfClose, ServerTypes
<1>3. ASSUME NEW r \in Requests, NEW s \in Sockets, Receive(s, r) PROVE KnowsInv'
  <2>1. /\ UNCHANGED <<peer, told, ended>> /\ result[r] = "none"
        /\ session' = [session EXCEPT ![r] = "calling"] /\ over' = [over EXCEPT ![r] = s]
    BY <1>3 DEF Receive, WS!Receive, DI!Call, dsVars
  <2>2. session[r] = "none"
    BY <2>1 DEF SentInv
  <2>3. r \notin told
    BY <2>2 DEF KnowsInv
  <2>4. QED
    BY <2>1, <2>2, <2>3 DEF KnowsInv, WS!SourcesKnowOfClose, ServerTypes
<1>4. ASSUME NEW r \in Requests, Reply(r) PROVE KnowsInv'
  BY <1>4 DEF Reply, WS!Answer, WS!Done, WS!Respond, ServerOnly, clVars, ownVars, net, diVars,
     dsVars, KnowsInv, WS!SourcesKnowOfClose, ServerTypes
<1>5. ASSUME NEW r \in Requests, Subscribe(r) PROVE KnowsInv'
  BY <1>5 DEF Subscribe, WS!ReadStream, DS!Subscribe, ServerOnly, clVars, ownVars, net,
     diVars, dsVars, KnowsInv, WS!SourcesKnowOfClose, ServerTypes
<1>6. ASSUME NEW r \in Requests, OpenStream(r) PROVE KnowsInv'
  BY <1>6 DEF OpenStream, WS!ReadStream, ServerOnly, clVars, ownVars, net, diVars, dsVars,
     KnowsInv, WS!SourcesKnowOfClose, ServerTypes
<1>7. ASSUME NEW r \in Requests, Streams(r) PROVE KnowsInv'
  BY <1>7 DEF Streams, WS!Data, WS!End, WS!Error, WS!Done, WS!Respond, ServerOnly, clVars,
     ownVars, net, diVars, dsVars, KnowsInv, WS!SourcesKnowOfClose, ServerTypes
<1>8. ASSUME NEW r \in Requests, CleanUp(r) PROVE KnowsInv'
  BY <1>8 DEF CleanUp, DS!CleanUp, DS!Left, ServerOnly, clVars, ownVars, net, diVars, dsVars,
     KnowsInv, WS!SourcesKnowOfClose, ServerTypes
<1>9. ASSUME NEW r \in Requests, NEW how \in {"ended", "failed"}, WriterEnds(r, how)
      PROVE  KnowsInv'
  BY <1>9 DEF WriterEnds, ServerOnly, clVars, ownVars, net, diVars, dsVars, KnowsInv,
     WS!SourcesKnowOfClose, ServerTypes
<1>10. ASSUME NEW r \in Requests, Write(r) PROVE KnowsInv'
  BY <1>10 DEF Write, clVars, ownVars, net, diVars, dsVars, KnowsInv, WS!SourcesKnowOfClose,
     ServerTypes
<1>11. ASSUME NEW r \in Requests, Unsubscribe(r) PROVE KnowsInv'
  BY <1>11 DEF Unsubscribe, DS!Unsubscribe, DS!Left, ServerOnly, clVars, ownVars, net, diVars,
     dsVars, KnowsInv, WS!SourcesKnowOfClose, ServerTypes
<1>12. ASSUME NEW s \in Sockets, Hangup(s) PROVE KnowsInv'
  BY <1>12 DEF Hangup, WS!Closed, ServerOnly, clVars, ownVars, net, diVars, dsVars, KnowsInv,
     WS!SourcesKnowOfClose, ServerTypes
<1>13. ASSUME NEW k \in Keys, SetData(k) PROVE KnowsInv'
  BY <1>13 DEF SetData, DS!SetData, ServerOnly, clVars, ownVars, net, diVars, dsVars,
     KnowsInv, WS!SourcesKnowOfClose, ServerTypes
<1>14. CASE DaemonStops
  BY <1>14 DEF DaemonStops, clVars, ownVars, net, diVars, dsVars, KnowsInv,
     WS!SourcesKnowOfClose, ServerTypes
<1>15. QED
  BY <1>1, <1>2, <1>3, <1>4, <1>5, <1>6, <1>7, <1>8, <1>9, <1>10, <1>11, <1>12, <1>13,
     <1>14, ServerSteps

\* gawk watches the topics that have subscribers, and no other.
LEMMA TopicsKept ==
    ASSUME CVAssumption, ServerTypes, TopicsInv, [Next]_vars
    PROVE  TopicsInv'
<1>1. CASE UNCHANGED <<ownVars, dsVars>>
  BY <1>1 DEF ownVars, dsVars, TopicsInv, DS!WatchesFollowSubscribers, DS!Topics, ServerTypes
<1>2. ASSUME NEW s \in Sockets, Connected(s) PROVE TopicsInv'
  BY <1>2 DEF Connected, CL!Opened, CL!Send, clVars, ownVars, net, diVars, dsVars, TopicsInv,
     DS!WatchesFollowSubscribers, DS!Topics, ServerTypes
<1>3. ASSUME NEW r \in Requests, NEW s \in Sockets, Receive(s, r) PROVE TopicsInv'
  BY <1>3 DEF Receive, WS!Receive, ServerOnly, DI!Call, clVars, ownVars, net, diVars, dsVars,
     TopicsInv, DS!WatchesFollowSubscribers, DS!Topics, ServerTypes
<1>4. ASSUME NEW r \in Requests, Reply(r) PROVE TopicsInv'
  BY <1>4 DEF Reply, WS!Answer, WS!Done, WS!Respond, ServerOnly, clVars, ownVars, net, diVars,
     dsVars, TopicsInv, DS!WatchesFollowSubscribers, DS!Topics, ServerTypes
<1>5. ASSUME NEW r \in Requests, Subscribe(r) PROVE TopicsInv'
  BY <1>5 DEF Subscribe, WS!ReadStream, DS!Subscribe, ServerOnly, clVars, ownVars, net,
     diVars, dsVars, TopicsInv, DS!WatchesFollowSubscribers, DS!Topics, ServerTypes
<1>6. ASSUME NEW r \in Requests, OpenStream(r) PROVE TopicsInv'
  BY <1>6 DEF OpenStream, WS!ReadStream, ServerOnly, clVars, ownVars, net, diVars, dsVars,
     TopicsInv, DS!WatchesFollowSubscribers, DS!Topics, ServerTypes
<1>7. ASSUME NEW r \in Requests, Streams(r) PROVE TopicsInv'
  BY <1>7 DEF Streams, WS!Data, WS!End, WS!Error, WS!Done, WS!Respond, ServerOnly, clVars,
     ownVars, net, diVars, dsVars, TopicsInv, DS!WatchesFollowSubscribers, DS!Topics,
     ServerTypes
<1>8. ASSUME NEW r \in Requests, CleanUp(r) PROVE TopicsInv'
  BY <1>8 DEF CleanUp, DS!CleanUp, DS!Left, ServerOnly, clVars, ownVars, net, diVars, dsVars,
     TopicsInv, DS!WatchesFollowSubscribers, DS!Topics, ServerTypes
<1>9. ASSUME NEW r \in Requests, NEW how \in {"ended", "failed"}, WriterEnds(r, how)
      PROVE  TopicsInv'
  BY <1>9 DEF WriterEnds, ServerOnly, clVars, ownVars, net, diVars, dsVars, TopicsInv,
     DS!WatchesFollowSubscribers, DS!Topics, ServerTypes
<1>10. ASSUME NEW r \in Requests, Write(r) PROVE TopicsInv'
  BY <1>10 DEF Write, clVars, ownVars, net, diVars, dsVars, TopicsInv,
     DS!WatchesFollowSubscribers, DS!Topics, ServerTypes
<1>11. ASSUME NEW r \in Requests, Unsubscribe(r) PROVE TopicsInv'
  BY <1>11 DEF Unsubscribe, DS!Unsubscribe, DS!Left, ServerOnly, clVars, ownVars, net, diVars,
     dsVars, TopicsInv, DS!WatchesFollowSubscribers, DS!Topics, ServerTypes
<1>12. ASSUME NEW s \in Sockets, Hangup(s) PROVE TopicsInv'
  BY <1>12 DEF Hangup, WS!Closed, ServerOnly, clVars, ownVars, net, diVars, dsVars, TopicsInv,
     DS!WatchesFollowSubscribers, DS!Topics, ServerTypes
<1>13. ASSUME NEW k \in Keys, SetData(k) PROVE TopicsInv'
  BY <1>13 DEF SetData, DS!SetData, ServerOnly, clVars, ownVars, net, diVars, dsVars,
     TopicsInv, DS!WatchesFollowSubscribers, DS!Topics, ServerTypes
<1>14. CASE DaemonStops
  BY <1>14 DEF DaemonStops, clVars, ownVars, net, diVars, dsVars, TopicsInv,
     DS!WatchesFollowSubscribers, DS!Topics, ServerTypes
<1>15. QED
  BY <1>1, <1>2, <1>3, <1>4, <1>5, <1>6, <1>7, <1>8, <1>9, <1>10, <1>11, <1>12, <1>13,
     <1>14, ServerSteps

\* The messages in flight and what was heard, after a step that adds no message to
\* either: connections that end lose theirs, an emitter may be told of that.
LEMMA EndsLess ==
    ASSUME TalkTypes, EndsInv,
           \A s \in Sockets : down'[s] = down[s] \/ down'[s] = <<>>,
           \A r \in Requests : session[r] \in {"reading", "done"} =>
             over'[r] = over[r] /\ session'[r] \in {"reading", "done"}
             /\ (session[r] = "done" => session'[r] = "done"),
           \A r \in Requests : heard'[r] = heard[r]
                               \/ \E e \in {"error", "close"} : heard'[r] = Append(heard[r], e)
    PROVE  EndsInv'
<1>1. \A s \in Sockets : down[s] \in Seq(Responses) /\ \A i \in 1..Len(down[s]) : down[s][i] \in Responses /\ down[s][i].id \in Requests
  <2>1. ASSUME NEW s \in Sockets
        PROVE  down[s] \in Seq(Responses) /\ \A i \in 1..Len(down[s]) : down[s][i] \in Responses
    BY DEF TalkTypes
  <2>2. \A m \in Responses : m.id \in Requests
    BY DEF Responses
  <2>3. QED
    BY <2>1, <2>2
<1>2. FlowInv'
  <2>1. ASSUME NEW s \in Sockets, NEW i \in 1..Len(down'[s])
        PROVE  /\ down'[s] = down[s] /\ i \in 1..Len(down[s])
    OBVIOUS
  <2>2. ASSUME NEW s \in Sockets, NEW i \in 1..Len(down'[s])
        PROVE  LET m == down'[s][i]
               IN /\ over'[m.id] = s /\ session'[m.id] \in {"reading", "done"}
                  /\ m.fin => /\ session'[m.id] = "done"
                              /\ \A j \in 1..Len(down'[s]) : j > i => down'[s][j].id # m.id
    BY <1>1, <2>1, <2>2 DEF EndsInv, FlowInv
  <2>3. QED
    BY <2>2 DEF FlowInv
<1>3. ASSUME NEW r \in Requests
      PROVE  /\ Len(heard[r]) \in Nat /\ Len(heard'[r]) \in Nat /\ Len(heard'[r]) >= Len(heard[r])
             /\ \A n \in 1..Len(heard[r]) : heard'[r][n] = heard[r][n]
             /\ \A n \in 1..Len(heard'[r]) : n \in 1..Len(heard[r]) \/ heard'[r][n] \in {"error", "close"}
  <2>1. heard[r] \in Seq({"response", "finish", "error", "close"})
    BY DEF TalkTypes
  <2>2. CASE heard'[r] = heard[r]
    BY <2>1, <2>2
  <2>3. ASSUME NEW e \in {"error", "close"}, heard'[r] = Append(heard[r], e)
        PROVE  /\ Len(heard'[r]) = Len(heard[r]) + 1
               /\ \A n \in 1..Len(heard[r]) : heard'[r][n] = heard[r][n]
               /\ heard'[r][Len(heard[r]) + 1] = e
    BY <2>1, <2>3
  <2>4. Len(heard[r]) \in Nat
    BY <2>1
  <2>5. QED
    BY <2>2, <2>3, <2>4
<1>4. \A r \in Requests : \A n \in 1..Len(heard'[r]) :
        heard'[r][n] \in {"finish", "response"} => n \in 1..Len(heard[r]) /\ heard[r][n] = heard'[r][n]
  BY <1>3
<1>5. FinishInv'
  <2>1. ASSUME NEW r \in Requests, NEW n \in 1..Len(heard'[r]), heard'[r][n] = "finish"
        PROVE  /\ session'[r] = "done"
               /\ \A s \in Sockets : \A i \in 1..Len(down'[s]) : down'[s][i].id # r
    <3>1. n \in 1..Len(heard[r]) /\ heard[r][n] = "finish"
      BY <1>4, <2>1
    <3>2. session[r] = "done" /\ \A s \in Sockets : \A i \in 1..Len(down[s]) : down[s][i].id # r
      BY <3>1 DEF EndsInv, FinishInv
    <3>3. ASSUME NEW s \in Sockets, NEW i \in 1..Len(down'[s]) PROVE down'[s][i].id # r
      <4>1. down'[s] = down[s] /\ i \in 1..Len(down[s])
        OBVIOUS
      <4>2. QED
        BY <3>2, <4>1
    <3>4. QED
      BY <3>2, <3>3
  <2>2. QED
    BY <2>1 DEF FinishInv
<1>6. CL!OneEnd'
  <2>1. ASSUME NEW r \in Requests, NEW i \in 1..Len(heard'[r]), NEW j \in 1..Len(heard'[r]),
               heard'[r][i] = "finish"
        PROVE  (heard'[r][j] = "finish" => i = j) /\ (j > i => heard'[r][j] # "response")
    <3>1. i \in 1..Len(heard[r]) /\ heard[r][i] = "finish"
      BY <1>4, <2>1
    <3>2. heard'[r][j] \in {"finish", "response"} => j \in 1..Len(heard[r]) /\ heard[r][j] = heard'[r][j]
      BY <1>4
    <3>3. QED
      BY <3>1, <3>2 DEF EndsInv, CL!OneEnd
  <2>2. QED
    BY <2>1 DEF CL!OneEnd
<1>7. QED
  BY <1>2, <1>5, <1>6 DEF EndsInv

\* A response is sent while the call is not over; it is when it sends the last.
LEMMA EndsRespond ==
    ASSUME TalkTypes, ServerTypes, SentInv, EndsInv, NEW r \in Requests, NEW type, NEW v, NEW status, NEW fin \in BOOLEAN,
           session[r] \in {"calling", "reading"}, WS!Respond(r, type, v, status, fin),
           session' = [session EXCEPT ![r] = session'[r]], session'[r] \in {"reading", "done"},
           fin => session'[r] = "done",
           UNCHANGED <<over, heard>>
    PROVE  EndsInv'
<1> DEFINE m == [id |-> r, type |-> type, v |-> v, status |-> status, fin |-> fin]
<1>1. over[r] \in Sockets
  BY DEF SentInv
<1>2. down' = down \/ down' = [down EXCEPT ![over[r]] = Append(down[over[r]], m)]
  BY DEF WS!Respond
<1>3. m.id = r /\ m.fin = fin
  OBVIOUS
<1> HIDE DEF m
<1>4. \A s \in Sockets : down[s] \in Seq(Responses) /\ \A i \in 1..Len(down[s]) : down[s][i] \in Responses /\ down[s][i].id \in Requests
  <2>1. ASSUME NEW s \in Sockets
        PROVE  down[s] \in Seq(Responses) /\ \A i \in 1..Len(down[s]) : down[s][i] \in Responses
    BY DEF TalkTypes
  <2>2. \A x \in Responses : x.id \in Requests
    BY DEF Responses
  <2>3. QED
    BY <2>1, <2>2
<1>5. \A q \in Requests : q # r => session'[q] = session[q]
  BY DEF ServerTypes
<1>6. ASSUME NEW s \in Sockets, NEW i \in 1..Len(down'[s])
      PROVE  \/ i \in 1..Len(down[s]) /\ down'[s][i] = down[s][i]
             \/ s = over[r] /\ i = Len(down[s]) + 1 /\ Len(down'[s]) = i /\ down'[s][i] = m
  <2>1. down'[s] = down[s] \/ (s = over[r] /\ down'[s] = Append(down[s], m))
    BY <1>1, <1>2 DEF TalkTypes
  <2>2. down[s] \in Seq(Responses)
    BY <1>4
  <2>3. CASE down'[s] = down[s]
    BY <2>3
  <2>4. CASE s = over[r] /\ down'[s] = Append(down[s], m)
    <3>1. Len(Append(down[s], m)) = Len(down[s]) + 1 /\ Len(down[s]) \in Nat
      BY <2>2
    <3>2. \A n \in 1..Len(down[s]) : Append(down[s], m)[n] = down[s][n]
      BY <2>2
    <3>3. Append(down[s], m)[Len(down[s]) + 1] = m
      BY <2>2
    <3>4. QED
      BY <2>4, <3>1, <3>2, <3>3
  <2>5. QED
    BY <2>1, <2>3, <2>4
<1>7. \A s \in Sockets : \A i \in 1..Len(down[s]) : down[s][i].id = r => ~down[s][i].fin
  BY DEF EndsInv, FlowInv
<1>8. FlowInv'
  <2>1. ASSUME NEW s \in Sockets, NEW i \in 1..Len(down'[s])
        PROVE  LET x == down'[s][i]
               IN over[x.id] = s /\ session'[x.id] \in {"reading", "done"}
    <3>1. CASE i \in 1..Len(down[s]) /\ down'[s][i] = down[s][i]
      BY <1>4, <1>5, <3>1 DEF EndsInv, FlowInv
    <3>2. CASE s = over[r] /\ down'[s][i] = m
      BY <1>3, <3>2
    <3>3. QED
      BY <1>6, <3>1, <3>2
  <2>2. ASSUME NEW s \in Sockets, NEW i \in 1..Len(down'[s]), down'[s][i].fin
        PROVE  /\ session'[down'[s][i].id] = "done"
               /\ \A j \in 1..Len(down'[s]) : j > i => down'[s][j].id # down'[s][i].id
    <3>1. CASE i \in 1..Len(down[s]) /\ down'[s][i] = down[s][i]
      <4> DEFINE q == down[s][i].id
      <4>1. q # r /\ q \in Requests
        BY <1>4, <1>7, <2>2, <3>1
      <4>2. session[q] = "done" /\ \A j \in 1..Len(down[s]) : j > i => down[s][j].id # q
        BY <2>2, <3>1 DEF EndsInv, FlowInv
      <4>3. \A j \in 1..Len(down'[s]) : j > i => down'[s][j].id # q
        BY <1>3, <1>6, <4>1, <4>2
      <4>4. QED
        BY <1>5, <3>1, <4>1, <4>2, <4>3
    <3>2. CASE i = Len(down[s]) + 1 /\ Len(down'[s]) = i /\ down'[s][i] = m
      <4>1. session'[r] = "done"
        BY <1>3, <2>2, <3>2
      <4>2. QED
        BY <1>3, <3>2, <4>1
    <3>3. QED
      BY <1>6, <3>1, <3>2
  <2>3. QED
    BY <2>1, <2>2 DEF FlowInv
<1>9. FinishInv'
  <2>1. ASSUME NEW q \in Requests, NEW n \in 1..Len(heard[q]), heard[q][n] = "finish"
        PROVE  /\ session'[q] = "done"
               /\ \A s \in Sockets : \A i \in 1..Len(down'[s]) : down'[s][i].id # q
    <3>1. session[q] = "done" /\ \A s \in Sockets : \A i \in 1..Len(down[s]) : down[s][i].id # q
      BY <2>1 DEF EndsInv, FinishInv
    <3>2. q # r
      BY <3>1
    <3>3. QED
      BY <1>3, <1>5, <1>6, <3>1, <3>2
  <2>2. QED
    BY <2>1 DEF FinishInv
<1>10. CL!OneEnd'
  BY DEF EndsInv, CL!OneEnd
<1>11. QED
  BY <1>8, <1>9, <1>10 DEF EndsInv

\* What the handler of a request emits for a message: it has the end last.
LEMMA HandledEmits ==
    ASSUME heard \in [Requests -> Seq(Words)], NEW r \in Requests, NEW m, CL!Handled(r, m)
    PROVE  /\ \A q \in Requests : q # r => heard'[q] = heard[q]
           /\ Len(heard[r]) \in Nat /\ Len(heard'[r]) \in Nat
           /\ \A n \in 1..Len(heard[r]) : n \in 1..Len(heard'[r]) /\ heard'[r][n] = heard[r][n]
           /\ \A n \in 1..Len(heard'[r]) : n \notin 1..Len(heard[r]) /\ heard'[r][n] = "finish" =>
                n = Len(heard'[r]) /\ m.fin
<1> DEFINE h == heard[r]
           failed == IF handler[r] = "new" THEN m.status # 200 ELSE handler[r] = "failed"
           w == IF failed THEN <<"error">>
                ELSE (IF m.type = "finish" THEN <<>> ELSE <<"response">>) \o
                     (IF m.fin THEN <<"finish">> ELSE <<>>)
<1>1. heard' = [heard EXCEPT ![r] = h \o w]
  BY DEF CL!Handled
<1>2. /\ w \in Seq(Words) /\ Len(w) \in Nat
      /\ \A n \in 1..Len(w) : w[n] = "finish" => n = Len(w) /\ m.fin
  <2> DEFINE a == IF m.type = "finish" THEN <<>> ELSE <<"response">>
             b == IF m.fin THEN <<"finish">> ELSE <<>>
  <2>1. w = <<"error">> \/ w = a \o b
    OBVIOUS
  <2>2. a \in Seq(Words) /\ Len(a) \in {0, 1} /\ \A n \in 1..Len(a) : a[n] = "response"
    <3>1. CASE a = <<>>
      BY <3>1
    <3>2. CASE a = <<"response">>
      <4>1. <<"response">> \in Seq(Words)
        BY DEF Words
      <4>2. Len(<<"response">>) = 1 /\ <<"response">>[1] = "response"
        OBVIOUS
      <4>3. a \in Seq(Words) /\ Len(a) = 1 /\ a[1] = "response"
        BY <3>2, <4>1, <4>2
      <4>4. QED
        BY <4>3
    <3>3. QED
      BY <3>1, <3>2
  <2>3. b \in Seq(Words) /\ Len(b) \in {0, 1} /\ (Len(b) = 1 => m.fin)
    <3>1. CASE ~m.fin
      <4>1. b = <<>>
        BY <3>1
      <4>2. QED
        BY <4>1
    <3>2. CASE m.fin
      <4>1. b = <<"finish">>
        BY <3>2
      <4>2. <<"finish">> \in Seq(Words)
        BY DEF Words
      <4>3. Len(<<"finish">>) = 1
        OBVIOUS
      <4>4. b \in Seq(Words) /\ Len(b) = 1
        BY <4>1, <4>2, <4>3
      <4>5. QED
        BY <3>2, <4>4
    <3>3. QED
      BY <3>1, <3>2
  <2> HIDE DEF w, a, b, failed
  <2>4. CASE w = <<"error">>
    BY <2>4 DEF Words
  <2>5. CASE w = a \o b
    <3>1. /\ a \o b \in Seq(Words) /\ Len(a \o b) = Len(a) + Len(b)
          /\ \A n \in 1..(Len(a) + Len(b)) : (a \o b)[n] = IF n <= Len(a) THEN a[n] ELSE b[n - Len(a)]
      BY <2>2, <2>3, ConcatProperties
    <3>2. ASSUME NEW n \in 1..(Len(a) + Len(b)), (a \o b)[n] = "finish"
          PROVE  n = Len(a) + Len(b) /\ m.fin
      <4>1. ~ (n <= Len(a))
        BY <2>2, <2>3, <3>1, <3>2
      <4>2. Len(a) \in Nat /\ n \in Nat /\ n > Len(a)
        BY <2>2, <2>3, <4>1
      <4>3. CASE Len(b) = 0
        BY <4>2, <4>3
      <4>4. CASE Len(b) = 1
        BY <2>3, <4>2, <4>4
      <4>5. QED
        BY <2>3, <4>3, <4>4
    <3>3. QED
      BY <2>2, <2>3, <2>5, <3>1, <3>2
  <2>6. QED
    BY <2>1, <2>4, <2>5
<1> HIDE DEF w
<1>3. h \in Seq(Words) /\ heard'[r] = h \o w /\ \A q \in Requests : q # r => heard'[q] = heard[q]
  BY <1>1
<1> HIDE DEF h
<1>4. /\ Len(h \o w) = Len(h) + Len(w) /\ Len(h) \in Nat
      /\ \A n \in 1..(Len(h) + Len(w)) : (h \o w)[n] = IF n <= Len(h) THEN h[n] ELSE w[n - Len(h)]
  BY <1>2, <1>3, ConcatProperties
<1>5. \A n \in 1..Len(h) : n \in 1..Len(h \o w) /\ (h \o w)[n] = h[n]
  BY <1>2, <1>4
<1>6. ASSUME NEW n \in 1..Len(h \o w), n \notin 1..Len(h), (h \o w)[n] = "finish"
      PROVE  n = Len(h \o w) /\ m.fin
  <2>1. n - Len(h) \in 1..Len(w) /\ w[n - Len(h)] = "finish"
    BY <1>2, <1>4, <1>6
  <2>2. n - Len(h) = Len(w) /\ m.fin
    BY <1>2, <2>1
  <2>3. QED
    BY <1>2, <1>4, <2>2
<1>7. Len(h \o w) \in Nat
  BY <1>2, <1>4
<1>8. QED
  BY <1>3, <1>4, <1>5, <1>6, <1>7 DEF h

\* A message is taken from those in flight; what it says is heard, or it is ignored.
LEMMA EndsMessage ==
    ASSUME TalkTypes, EndsInv, NEW s \in Sockets, Client(CL!Message(s))
    PROVE  EndsInv'
<1> DEFINE m == Head(down[s])
           r == m.id
<1>1. /\ UNCHANGED <<session, over>> /\ down[s] # <<>>
      /\ down' = [down EXCEPT ![s] = Tail(down[s])]
      /\ heard' = heard \/ CL!Handled(r, m)
  BY DEF CL!Message, Client, ownVars
<1>2. down[s] \in Seq(Responses) /\ m = down[s][1] /\ 1 \in 1..Len(down[s]) /\ Len(down[s]) \in Nat
  BY <1>1 DEF TalkTypes
<1>3. m \in Responses
  BY <1>1, <1>2
<1>4. r \in Requests
  BY <1>3 DEF Responses
<1> HIDE DEF m
<1>5. \A i \in 1..Len(Tail(down[s])) :
        i + 1 \in 1..Len(down[s]) /\ Tail(down[s])[i] = down[s][i + 1]
  BY <1>1, <1>2
<1>6. Len(Tail(down[s])) = Len(down[s]) - 1
  BY <1>1, <1>2
<1>7. \A t \in Sockets : down'[t] = IF t = s THEN Tail(down[s]) ELSE down[t]
  BY <1>1 DEF TalkTypes
<1>8. over[r] = s /\ session[r] \in {"reading", "done"}
      /\ (m.fin => session[r] = "done" /\ \A j \in 1..Len(down[s]) : j > 1 => down[s][j].id # r)
  BY <1>2 DEF EndsInv, FlowInv
<1>9. FlowInv'
  <2>1. ASSUME NEW t \in Sockets, NEW i \in 1..Len(down'[t])
        PROVE  LET x == down'[t][i]
               IN /\ over[x.id] = t /\ session[x.id] \in {"reading", "done"}
                  /\ x.fin => /\ session[x.id] = "done"
                              /\ \A j \in 1..Len(down'[t]) : j > i => down'[t][j].id # x.id
    <3>1. CASE t # s
      BY <1>7, <3>1 DEF EndsInv, FlowInv
    <3>2. CASE t = s
      <4>1. i \in 1..Len(Tail(down[s])) /\ i \in Nat
        <5>1. Len(down'[t]) = Len(down[s]) - 1 /\ down'[t] = Tail(down[s])
          BY <1>6, <1>7, <3>2
        <5>2. QED
          BY <1>2, <5>1
      <4>2. i + 1 \in 1..Len(down[s]) /\ down'[t][i] = down[s][i + 1]
        BY <1>5, <1>7, <3>2, <4>1
      <4>3. LET x == down[s][i + 1]
            IN /\ over[x.id] = s /\ session[x.id] \in {"reading", "done"}
               /\ x.fin => /\ session[x.id] = "done"
                           /\ \A j \in 1..Len(down[s]) : j > i + 1 => down[s][j].id # x.id
        BY <4>2 DEF EndsInv, FlowInv
      <4>4. ASSUME NEW j \in 1..Len(down'[t]), j > i
            PROVE  j + 1 \in 1..Len(down[s]) /\ j + 1 > i + 1 /\ down'[t][j] = down[s][j + 1]
        <5>1. j \in 1..Len(Tail(down[s])) /\ j \in Nat
          <6>1. Len(down'[t]) = Len(down[s]) - 1 /\ down'[t] = Tail(down[s])
            BY <1>6, <1>7, <3>2
          <6>2. QED
            BY <1>2, <6>1
        <5>2. j + 1 \in 1..Len(down[s]) /\ Tail(down[s])[j] = down[s][j + 1]
          BY <1>5, <5>1
        <5>3. QED
          <6>1. down'[t][j] = down[s][j + 1]
            BY <1>7, <3>2, <5>2
          <6>2. j + 1 > i + 1
            BY <4>1, <4>4, <5>1
          <6>3. QED
            BY <5>2, <6>1, <6>2
      <4>5. QED
        BY <3>2, <4>2, <4>3, <4>4
    <3>3. QED
      BY <3>1, <3>2
  <2>2. QED
    BY <1>1, <2>1 DEF FlowInv
<1>10. ASSUME NEW q \in Requests, \A t \in Sockets : \A i \in 1..Len(down[t]) : down[t][i].id # q
       PROVE  \A t \in Sockets : \A i \in 1..Len(down'[t]) : down'[t][i].id # q
  <2>1. ASSUME NEW t \in Sockets, NEW i \in 1..Len(down'[t]) PROVE down'[t][i].id # q
    <3>1. CASE t # s
      BY <1>7, <1>10, <3>1
    <3>2. CASE t = s
      BY <1>5, <1>7, <1>10, <3>2
    <3>3. QED
      BY <3>1, <3>2
  <2>2. QED
    BY <2>1
<1>11. CASE heard' = heard
  <2>1. FinishInv'
    BY <1>1, <1>10, <1>11 DEF EndsInv, FinishInv
  <2>2. CL!OneEnd'
    BY <1>11 DEF EndsInv, CL!OneEnd
  <2>3. QED
    BY <1>9, <2>1, <2>2 DEF EndsInv
<1>12. CASE CL!Handled(r, m)
  <2>1. heard \in [Requests -> Seq(Words)]
    BY DEF TalkTypes, Words
  <2>2. /\ \A q \in Requests : q # r => heard'[q] = heard[q]
        /\ Len(heard[r]) \in Nat /\ Len(heard'[r]) \in Nat
        /\ \A n \in 1..Len(heard[r]) : n \in 1..Len(heard'[r]) /\ heard'[r][n] = heard[r][n]
        /\ \A n \in 1..Len(heard'[r]) : n \notin 1..Len(heard[r]) /\ heard'[r][n] = "finish" =>
             n = Len(heard'[r]) /\ m.fin
    BY <1>4, <1>12, <2>1, HandledEmits
  <2>3. \A n \in 1..Len(heard[r]) : heard[r][n] # "finish"
    <3>1. down[s][1].id = r
      BY <1>2
    <3>2. QED
      BY <1>2, <1>4, <3>1 DEF EndsInv, FinishInv
  <2>4. \A n \in 1..Len(heard'[r]) : heard'[r][n] = "finish" => n = Len(heard'[r]) /\ m.fin
    BY <2>2, <2>3
  <2>5. m.fin => \A t \in Sockets : \A i \in 1..Len(down'[t]) : down'[t][i].id # r
    <3>1. ASSUME m.fin, NEW t \in Sockets, NEW i \in 1..Len(down'[t]) PROVE down'[t][i].id # r
      <4>1. CASE t # s
        <5>1. over[down[t][i].id] = t
          BY <1>7, <4>1 DEF EndsInv, FlowInv
        <5>2. QED
          BY <1>7, <1>8, <4>1, <5>1
      <4>2. CASE t = s
        <5>1. i \in 1..Len(Tail(down[s])) /\ i + 1 > 1
          <6>1. i \in 1..(Len(down[s]) - 1)
            BY <1>6, <1>7, <4>2
          <6>2. QED
            BY <1>2, <1>6, <6>1
        <5>2. i + 1 \in 1..Len(down[s]) /\ down'[t][i] = down[s][i + 1]
          BY <1>5, <1>7, <4>2, <5>1
        <5>3. QED
          BY <1>8, <3>1, <5>1, <5>2
      <4>3. QED
        BY <4>1, <4>2
    <3>2. QED
      BY <3>1
  <2>6. FinishInv'
    <3>1. ASSUME NEW q \in Requests, NEW n \in 1..Len(heard'[q]), heard'[q][n] = "finish"
          PROVE  /\ session[q] = "done"
                 /\ \A t \in Sockets : \A i \in 1..Len(down'[t]) : down'[t][i].id # q
      <4>1. CASE q = r
        BY <1>8, <2>4, <2>5, <3>1, <4>1
      <4>2. CASE q # r
        <5>1. /\ session[q] = "done"
              /\ \A t \in Sockets : \A i \in 1..Len(down[t]) : down[t][i].id # q
          BY <2>2, <3>1, <4>2 DEF EndsInv, FinishInv
        <5>2. QED
          BY <1>10, <5>1
      <4>3. QED
        BY <4>1, <4>2
    <3>2. QED
      BY <1>1, <3>1 DEF FinishInv
  <2>7. CL!OneEnd'
    <3>1. ASSUME NEW q \in Requests, NEW i \in 1..Len(heard'[q]), NEW j \in 1..Len(heard'[q]),
                 heard'[q][i] = "finish"
          PROVE  (heard'[q][j] = "finish" => i = j) /\ (j > i => heard'[q][j] # "response")
      <4>1. CASE q = r
        BY <2>2, <2>4, <3>1, <4>1
      <4>2. CASE q # r
        BY <2>2, <3>1, <4>2 DEF EndsInv, CL!OneEnd
      <4>3. QED
        BY <4>1, <4>2
    <3>2. QED
      BY <3>1 DEF CL!OneEnd
  <2>8. QED
    BY <1>9, <2>6, <2>7 DEF EndsInv
<1>13. QED
  BY <1>1, <1>11, <1>12

\* What a session sends last, the client hears last.
LEMMA EndsKept ==
    ASSUME CVAssumption, ClientTypes, TalkTypes, ServerTypes, SentInv, EndsInv, [Next]_vars
    PROVE  EndsInv'
<1>1. CASE UNCHANGED <<over, session, up, down, heard, latest>>
  BY <1>1 DEF EndsInv, FlowInv, FinishInv, CL!OneEnd
<1>2. ASSUME NEW r \in Requests, Client(CL!TryConnect(r)) PROVE EndsInv'
  <2>1. \A t \in Sockets : down'[t] = down[t] \/ down'[t] = <<>>
    BY <1>2 DEF CL!TryConnect, CL!Send, Client, clVars, ownVars, net, diVars, dsVars, TalkTypes
  <2>2. \A q \in Requests : session[q] \in {"reading", "done"} =>
          over'[q] = over[q] /\ session'[q] \in {"reading", "done"}
          /\ (session[q] = "done" => session'[q] = "done")
    BY <1>2 DEF CL!TryConnect, CL!Send, Client, clVars, ownVars, net, diVars, dsVars,
       ServerTypes
  <2>3. \A q \in Requests : heard'[q] = heard[q]
                            \/ \E e \in {"error", "close"} : heard'[q] = Append(heard[q], e)
    BY <1>2 DEF CL!TryConnect, CL!Send, Client, clVars, ownVars, net, diVars, dsVars, TalkTypes
  <2>4. QED
    BY <2>1, <2>2, <2>3, EndsLess
<1>3. ASSUME NEW r \in Requests, NEW found \in BOOLEAN,
             Client(CL!FindAppcd(r, found)) \/ Client(CL!StartFails(r))
      PROVE  EndsInv'
  <2>1. \A t \in Sockets : down'[t] = down[t] \/ down'[t] = <<>>
    BY <1>3 DEF CL!FindAppcd, CL!StartFails, CL!GivesUp, CL!Emit, Client, clVars, ownVars, net, diVars,
       dsVars, TalkTypes
  <2>2. \A q \in Requests : session[q] \in {"reading", "done"} =>
          over'[q] = over[q] /\ session'[q] \in {"reading", "done"}
          /\ (session[q] = "done" => session'[q] = "done")
    BY <1>3 DEF CL!FindAppcd, CL!StartFails, CL!GivesUp, CL!Emit, Client, clVars, ownVars, net, diVars,
       dsVars, ServerTypes
  <2>3. \A q \in Requests : heard'[q] = heard[q]
                            \/ \E e \in {"error", "close"} : heard'[q] = Append(heard[q], e)
    BY <1>3 DEF CL!FindAppcd, CL!StartFails, CL!GivesUp, CL!Emit, Client, clVars, ownVars, net, diVars,
       dsVars, TalkTypes
  <2>4. QED
    BY <2>1, <2>2, <2>3, EndsLess
<1>4. ASSUME NEW s \in Sockets, Client(CL!Close(s)) PROVE EndsInv'
  <2>1. \A t \in Sockets : down'[t] = down[t] \/ down'[t] = <<>>
    BY <1>4 DEF CL!Close, CL!Emit, Client, clVars, ownVars, net, diVars, dsVars, TalkTypes
  <2>2. \A q \in Requests : session[q] \in {"reading", "done"} =>
          over'[q] = over[q] /\ session'[q] \in {"reading", "done"}
          /\ (session[q] = "done" => session'[q] = "done")
    BY <1>4 DEF CL!Close, CL!Emit, Client, clVars, ownVars, net, diVars, dsVars, ServerTypes
  <2>3. \A q \in Requests : heard'[q] = heard[q]
                            \/ \E e \in {"error", "close"} : heard'[q] = Append(heard[q], e)
    BY <1>4 DEF CL!Close, CL!Emit, Client, clVars, ownVars, net, diVars, dsVars, TalkTypes
  <2>4. QED
    BY <2>1, <2>2, <2>3, EndsLess
<1>5. ASSUME NEW s \in Sockets, Client(CL!Message(s)) PROVE EndsInv'
  BY <1>5, EndsMessage
<1>6. ASSUME NEW s \in Sockets, NEW refused \in BOOLEAN, Client(CL!Fails(s, refused)) PROVE EndsInv'
  <2>1. \A t \in Sockets : down'[t] = down[t] \/ down'[t] = <<>>
    BY <1>6 DEF CL!Fails, CL!Dropped, CL!Emit, Client, clVars, ownVars, net, diVars, dsVars,
       TalkTypes
  <2>2. \A q \in Requests : session[q] \in {"reading", "done"} =>
          over'[q] = over[q] /\ session'[q] \in {"reading", "done"}
          /\ (session[q] = "done" => session'[q] = "done")
    BY <1>6 DEF CL!Fails, CL!Dropped, CL!Emit, Client, clVars, ownVars, net, diVars, dsVars,
       ServerTypes
  <2>3. \A q \in Requests : heard'[q] = heard[q]
                            \/ \E e \in {"error", "close"} : heard'[q] = Append(heard[q], e)
    BY <1>6 DEF CL!Fails, CL!Dropped, CL!Emit, Client, clVars, ownVars, net, diVars, dsVars,
       TalkTypes
  <2>4. QED
    BY <2>1, <2>2, <2>3, EndsLess
<1>7. ASSUME NEW s \in Sockets, Client(CL!Cut(s)) PROVE EndsInv'
  <2>1. \A t \in Sockets : down'[t] = down[t] \/ down'[t] = <<>>
    BY <1>7 DEF CL!Cut, Client, clVars, ownVars, net, diVars, dsVars, TalkTypes
  <2>2. \A q \in Requests : session[q] \in {"reading", "done"} =>
          over'[q] = over[q] /\ session'[q] \in {"reading", "done"}
          /\ (session[q] = "done" => session'[q] = "done")
    BY <1>7 DEF CL!Cut, Client, clVars, ownVars, net, diVars, dsVars, ServerTypes
  <2>3. \A q \in Requests : heard'[q] = heard[q]
                            \/ \E e \in {"error", "close"} : heard'[q] = Append(heard[q], e)
    BY <1>7 DEF CL!Cut, Client, clVars, ownVars, net, diVars, dsVars, TalkTypes
  <2>4. QED
    BY <2>1, <2>2, <2>3, EndsLess
<1>8. CASE Client(CL!Disconnect)
  <2>1. \A t \in Sockets : down'[t] = down[t] \/ down'[t] = <<>>
    BY <1>8 DEF CL!Disconnect, CL!Dropped, Client, clVars, ownVars, net, diVars, dsVars,
       TalkTypes
  <2>2. \A q \in Requests : session[q] \in {"reading", "done"} =>
          over'[q] = over[q] /\ session'[q] \in {"reading", "done"}
          /\ (session[q] = "done" => session'[q] = "done")
    BY <1>8 DEF CL!Disconnect, CL!Dropped, Client, clVars, ownVars, net, diVars, dsVars,
       ServerTypes
  <2>3. \A q \in Requests : heard'[q] = heard[q]
                            \/ \E e \in {"error", "close"} : heard'[q] = Append(heard[q], e)
    BY <1>8 DEF CL!Disconnect, CL!Dropped, Client, clVars, ownVars, net, diVars, dsVars,
       TalkTypes
  <2>4. QED
    BY <2>1, <2>2, <2>3, EndsLess
<1>9. ASSUME NEW s \in Sockets, Connected(s) PROVE EndsInv'
  <2>1. \A t \in Sockets : down'[t] = down[t] \/ down'[t] = <<>>
    BY <1>9 DEF Connected, CL!Opened, CL!Send, clVars, ownVars, net, diVars, dsVars, TalkTypes
  <2>2. \A q \in Requests : session[q] \in {"reading", "done"} =>
          over'[q] = over[q] /\ session'[q] \in {"reading", "done"}
          /\ (session[q] = "done" => session'[q] = "done")
    BY <1>9 DEF Connected, CL!Opened, CL!Send, clVars, ownVars, net, diVars, dsVars, ServerTypes
  <2>3. \A q \in Requests : heard'[q] = heard[q]
                            \/ \E e \in {"error", "close"} : heard'[q] = Append(heard[q], e)
    BY <1>9 DEF Connected, CL!Opened, CL!Send, clVars, ownVars, net, diVars, dsVars, TalkTypes
  <2>4. QED
    BY <2>1, <2>2, <2>3, EndsLess
<1>10. ASSUME NEW r \in Requests, NEW s \in Sockets, Receive(s, r) PROVE EndsInv'
  <2>1. \A t \in Sockets : down'[t] = down[t] \/ down'[t] = <<>>
    BY <1>10 DEF Receive, WS!Receive, ServerOnly, DI!Call, clVars, ownVars, net, diVars,
       dsVars, TalkTypes
  <2>2. \A q \in Requests : session[q] \in {"reading", "done"} =>
          over'[q] = over[q] /\ session'[q] \in {"reading", "done"}
          /\ (session[q] = "done" => session'[q] = "done")
    BY <1>10 DEF Receive, WS!Receive, ServerOnly, DI!Call, clVars, ownVars, net, diVars,
       dsVars, ServerTypes, SentInv
  <2>3. \A q \in Requests : heard'[q] = heard[q]
                            \/ \E e \in {"error", "close"} : heard'[q] = Append(heard[q], e)
    BY <1>10 DEF Receive, WS!Receive, ServerOnly, DI!Call, clVars, ownVars, net, diVars,
       dsVars, TalkTypes
  <2>4. QED
    BY <2>1, <2>2, <2>3, EndsLess
<1>11. ASSUME NEW r \in Requests, Reply(r) PROVE EndsInv'
  <2>1. session[r] = "calling" /\ session' = [session EXCEPT ![r] = "done"] /\ UNCHANGED <<over, heard>>
    BY <1>11 DEF Reply, WS!Answer, WS!Done, ServerOnly, clVars
  <2>2. session'[r] = "done"
    BY <2>1 DEF ServerTypes
  <2>3. CASE WS!Respond(r, "value", DS!Get(Filter[r]), 200, TRUE)
    BY <2>1, <2>2, <2>3, EndsRespond
  <2>4. CASE WS!Respond(r, "error", 0, 500, FALSE)
    BY <2>1, <2>2, <2>4, EndsRespond
  <2>5. QED
    BY <1>11, <2>3, <2>4 DEF Reply, WS!Answer
<1>12. ASSUME NEW r \in Requests, Subscribe(r) PROVE EndsInv'
  <2>1. \A t \in Sockets : down'[t] = down[t] \/ down'[t] = <<>>
    BY <1>12 DEF Subscribe, WS!ReadStream, DS!Subscribe, ServerOnly, clVars, ownVars, net,
       diVars, dsVars, TalkTypes
  <2>2. \A q \in Requests : session[q] \in {"reading", "done"} =>
          over'[q] = over[q] /\ session'[q] \in {"reading", "done"}
          /\ (session[q] = "done" => session'[q] = "done")
    BY <1>12 DEF Subscribe, WS!ReadStream, DS!Subscribe, ServerOnly, clVars, ownVars, net,
       diVars, dsVars, ServerTypes
  <2>3. \A q \in Requests : heard'[q] = heard[q]
                            \/ \E e \in {"error", "close"} : heard'[q] = Append(heard[q], e)
    BY <1>12 DEF Subscribe, WS!ReadStream, DS!Subscribe, ServerOnly, clVars, ownVars, net,
       diVars, dsVars, TalkTypes
  <2>4. QED
    BY <2>1, <2>2, <2>3, EndsLess
<1>13. ASSUME NEW r \in Requests, OpenStream(r) PROVE EndsInv'
  <2>1. \A t \in Sockets : down'[t] = down[t] \/ down'[t] = <<>>
    BY <1>13 DEF OpenStream, WS!ReadStream, ServerOnly, clVars, ownVars, net, diVars, dsVars,
       TalkTypes
  <2>2. \A q \in Requests : session[q] \in {"reading", "done"} =>
          over'[q] = over[q] /\ session'[q] \in {"reading", "done"}
          /\ (session[q] = "done" => session'[q] = "done")
    BY <1>13 DEF OpenStream, WS!ReadStream, ServerOnly, clVars, ownVars, net, diVars, dsVars,
       ServerTypes
  <2>3. \A q \in Requests : heard'[q] = heard[q]
                            \/ \E e \in {"error", "close"} : heard'[q] = Append(heard[q], e)
    BY <1>13 DEF OpenStream, WS!ReadStream, ServerOnly, clVars, ownVars, net, diVars, dsVars,
       TalkTypes
  <2>4. QED
    BY <2>1, <2>2, <2>3, EndsLess
<1>14. ASSUME NEW r \in Requests, Streams(r) PROVE EndsInv'
  <2>1. session[r] = "reading" /\ UNCHANGED <<over, heard>>
    BY <1>14 DEF Streams, WS!Data, WS!End, WS!Error, ServerOnly, clVars
  <2>2. CASE WS!Data(r)
    <3> DEFINE m == Head(queue[r])
               status == IF (r \in pubsub \/ m.type = "subscribe") \/ r \in first THEN 200 ELSE 0
    <3>1. WS!Respond(r, m.type, m.v, status, FALSE) /\ session' = session
      BY <2>2 DEF WS!Data
    <3>2. session' = [session EXCEPT ![r] = session'[r]] /\ session'[r] = "reading"
      BY <2>1, <3>1 DEF ServerTypes
    <3> HIDE DEF m, status
    <3>3. QED
      BY <2>1, <3>1, <3>2, EndsRespond
  <2>3. ASSUME WS!End(r) \/ WS!Error(r)
        PROVE  session' = [session EXCEPT ![r] = session'[r]] /\ session'[r] = "done"
    BY <2>3 DEF WS!End, WS!Error, WS!Done, ServerTypes
  <2>4. CASE WS!End(r)
    <3>1. WS!Respond(r, "finish", 0, 200, TRUE)
      BY <2>4 DEF WS!End
    <3>2. QED
      BY <2>1, <2>3, <2>4, <3>1, EndsRespond
  <2>5. CASE WS!Error(r)
    <3>1. WS!Respond(r, "error", 0, 500, TRUE)
      BY <2>5 DEF WS!Error
    <3>2. QED
      BY <2>1, <2>3, <2>5, <3>1, EndsRespond
  <2>6. QED
    BY <1>14, <2>2, <2>4, <2>5 DEF Streams
<1>15. ASSUME NEW s \in Sockets, Hangup(s) PROVE EndsInv'
  <2>1. \A t \in Sockets : down'[t] = down[t] \/ down'[t] = <<>>
    BY <1>15 DEF Hangup, WS!Closed, ServerOnly, clVars, ownVars, net, diVars, dsVars, TalkTypes
  <2>2. \A q \in Requests : session[q] \in {"reading", "done"} =>
          over'[q] = over[q] /\ session'[q] \in {"reading", "done"}
          /\ (session[q] = "done" => session'[q] = "done")
    BY <1>15 DEF Hangup, WS!Closed, ServerOnly, clVars, ownVars, net, diVars, dsVars,
       ServerTypes
  <2>3. \A q \in Requests : heard'[q] = heard[q]
                            \/ \E e \in {"error", "close"} : heard'[q] = Append(heard[q], e)
    BY <1>15 DEF Hangup, WS!Closed, ServerOnly, clVars, ownVars, net, diVars, dsVars, TalkTypes
  <2>4. QED
    BY <2>1, <2>2, <2>3, EndsLess
<1>16. CASE DaemonStops
  <2>1. \A t \in Sockets : down'[t] = down[t] \/ down'[t] = <<>>
    BY <1>16 DEF DaemonStops, clVars, ownVars, net, diVars, dsVars, TalkTypes
  <2>2. \A q \in Requests : session[q] \in {"reading", "done"} =>
          over'[q] = over[q] /\ session'[q] \in {"reading", "done"}
          /\ (session[q] = "done" => session'[q] = "done")
    BY <1>16 DEF DaemonStops, clVars, ownVars, net, diVars, dsVars, ServerTypes
  <2>3. \A q \in Requests : heard'[q] = heard[q]
                            \/ \E e \in {"error", "close"} : heard'[q] = Append(heard[q], e)
    BY <1>16 DEF DaemonStops, clVars, ownVars, net, diVars, dsVars, TalkTypes
  <2>4. QED
    BY <2>1, <2>2, <2>3, EndsLess
<1>17. QED
  BY <1>1, <1>2, <1>3, <1>4, <1>5, <1>6, <1>7, <1>8, <1>9, <1>10, <1>11, <1>12, <1>13,
     <1>14, <1>15, <1>16, TalkSteps

\* Of a sequence of messages, the last that belongs to a request
LEMMA LastAppended ==
    ASSUME NEW sent \in Seq(Responses), NEW m \in Responses, NEW r, NEW v
    PROVE  /\ m.id # r /\ LastOf(sent, r, v) => LastOf(Append(sent, m), r, v)
           /\ m.id # r /\ NoneOf(sent, r) => NoneOf(Append(sent, m), r)
           /\ m.id = r /\ m.type = "event" /\ m.v = v => LastOf(Append(sent, m), r, v)
<1> DEFINE next == Append(sent, m)
<1>1. Len(sent) \in Nat /\ Len(next) = Len(sent) + 1
  OBVIOUS
<1>2. \A i \in 1..Len(sent) : next[i] = sent[i]
  OBVIOUS
<1>3. next[Len(sent) + 1] = m
  OBVIOUS
<1> HIDE DEF next
<1>4. \A i \in 1..Len(next) : i \in 1..Len(sent) \/ i = Len(sent) + 1
  BY <1>1
<1>5. ASSUME m.id # r, LastOf(sent, r, v) PROVE LastOf(next, r, v)
  <2>1. PICK i \in 1..Len(sent) :
          /\ sent[i].id = r /\ sent[i].type = "event" /\ sent[i].v = v
          /\ \A j \in 1..Len(sent) : j > i => sent[j].id # r
    BY <1>5 DEF LastOf
  <2>2. i \in 1..Len(next) /\ next[i] = sent[i]
    BY <1>1, <1>2
  <2>3. \A j \in 1..Len(next) : j > i => next[j].id # r
    BY <1>2, <1>3, <1>4, <1>5, <2>1
  <2>4. QED
    BY <2>1, <2>2, <2>3 DEF LastOf
<1>6. ASSUME m.id # r, NoneOf(sent, r) PROVE NoneOf(next, r)
  BY <1>2, <1>3, <1>4, <1>6 DEF NoneOf
<1>7. ASSUME m.id = r, m.type = "event", m.v = v PROVE LastOf(next, r, v)
  <2>1. Len(sent) + 1 \in 1..Len(next) /\ \A j \in 1..Len(next) : ~(j > Len(sent) + 1)
    BY <1>1
  <2>2. QED
    BY <1>3, <1>7, <2>1 DEF LastOf
<1>8. QED
  BY <1>5, <1>6, <1>7 DEF next

\* The last message that belongs to a request is still that, or it is the one taken.
LEMMA LastTaken ==
    ASSUME NEW sent \in Seq(Responses), sent # <<>>, NEW r, NEW v
    PROVE  /\ LastOf(sent, r, v) =>
                \/ LastOf(Tail(sent), r, v)
                \/ Head(sent).id = r /\ Head(sent).type = "event" /\ Head(sent).v = v /\ NoneOf(Tail(sent), r)
           /\ NoneOf(sent, r) => Head(sent).id # r /\ NoneOf(Tail(sent), r)
<1> DEFINE tail == Tail(sent)
<1>1. Len(sent) \in Nat \ {0} /\ Len(tail) = Len(sent) - 1 /\ Head(sent) = sent[1]
  OBVIOUS
<1>2. \A i \in 1..Len(tail) : tail[i] = sent[i + 1]
  OBVIOUS
<1> HIDE DEF tail
<1>3. \A i \in 1..Len(tail) : i + 1 \in 1..Len(sent) /\ i + 1 > 1 /\ i \in Nat
  BY <1>1
<1>4. \A i \in 1..Len(sent) : i = 1 \/ (i - 1 \in 1..Len(tail) /\ (i - 1) + 1 = i /\ i \in Nat)
  BY <1>1
<1>5. ASSUME LastOf(sent, r, v)
      PROVE  LastOf(tail, r, v) \/ (sent[1].id = r /\ sent[1].type = "event" /\ sent[1].v = v /\ NoneOf(tail, r))
  <2>1. PICK i \in 1..Len(sent) :
          /\ sent[i].id = r /\ sent[i].type = "event" /\ sent[i].v = v
          /\ \A j \in 1..Len(sent) : j > i => sent[j].id # r
    BY <1>5 DEF LastOf
  <2>2. CASE i = 1
    <3>1. NoneOf(tail, r)
      BY <1>2, <1>3, <2>1, <2>2 DEF NoneOf
    <3>2. QED
      BY <2>1, <2>2, <3>1
  <2>3. CASE i # 1
    <3>1. i - 1 \in 1..Len(tail) /\ tail[i - 1] = sent[i] /\ i \in Nat
      BY <1>2, <1>4, <2>3
    <3>2. ASSUME NEW j \in 1..Len(tail), j > i - 1 PROVE tail[j].id # r
      <4>1. j + 1 \in 1..Len(sent) /\ j + 1 > i /\ tail[j] = sent[j + 1]
        BY <1>2, <1>3, <3>1, <3>2
      <4>2. QED
        BY <2>1, <4>1
    <3>3. QED
      BY <2>1, <3>1, <3>2 DEF LastOf
  <2>4. QED
    BY <2>2, <2>3
<1>6. ASSUME NoneOf(sent, r) PROVE sent[1].id # r /\ NoneOf(tail, r)
  <2>1. 1 \in 1..Len(sent)
    BY <1>1
  <2>2. QED
    BY <1>2, <1>3, <1>6, <2>1 DEF NoneOf
<1>7. QED
  BY <1>1, <1>5, <1>6 DEF tail

\* A change makes its value that of "all", and of its key.
LEMMA GetSet ==
    ASSUME ServerTypes, NEW k \in Keys, DS!Get("all") + 1 \in Values,
           data' = [data EXCEPT ![k] = DS!Get("all") + 1]
    PROVE  /\ DS!Get("all")' = DS!Get("all") + 1
           /\ DS!Get(k)' = DS!Get("all") + 1
           /\ \A t \in Keys : t # k => DS!Get(t)' = DS!Get(t)
<1> DEFINE top == DS!Get("all")
           B == {data'[j] : j \in Keys}
<1>1. top \in Values /\ \A j \in Keys : data[j] <= top /\ data[j] \in Values
  BY GetIs DEF ServerTypes
<1>2. DS!Get("all")' = DS!Max(B)
  BY DEF DS!Get
<1> HIDE DEF top
<1>3. /\ data'[k] = top + 1 /\ \A j \in Keys : j # k => data'[j] = data[j]
      /\ top + 1 \in Values
  BY DEF ServerTypes, top
<1>4. B \in SUBSET (0..MaxChanges) /\ B # {} /\ MaxChanges \in Nat /\ top + 1 \in B
  BY <1>1, <1>3, Constants DEF Values
<1>5. \A n \in B : n <= top + 1
  BY <1>1, <1>3 DEF Values
<1> HIDE DEF B
<1>6. DS!Max(B) \in B /\ \A n \in B : n <= DS!Max(B)
  BY <1>4, MaxIsGreatest
<1>7. DS!Max(B) = top + 1
  <2> DEFINE max == DS!Max(B)
  <2>1. max \in B /\ \A n \in B : n <= max
    BY <1>6
  <2> HIDE DEF max
  <2>2. max <= top + 1 /\ top + 1 <= max
    BY <1>4, <1>5, <2>1
  <2>3. max \in Nat /\ top \in Nat
    BY <1>1, <1>4, <2>1 DEF Values
  <2>4. max = top + 1
    BY <2>2, <2>3
  <2>5. QED
    BY <2>4 DEF max
<1>8. \A t \in Keys : DS!Get(t)' = data'[t] /\ DS!Get(t) = data[t]
  BY Constants DEF DS!Get
<1>9. QED
  BY <1>2, <1>3, <1>7, <1>8 DEF top

\* A subscriber is as current as before, when what it follows stays as it is.
LEMMA StillCurrent ==
    ASSUME TalkTypes, NEW r \in Requests, Current(r), over[r] \in Sockets,
           data' = data, over'[r] = over[r], queue'[r] = queue[r], r \in topics'[Filter[r]],
           link'[over[r]] = "open" =>
             /\ link[over[r]] = "open"
             /\ \/ down'[over[r]] = down[over[r]]
                \/ \E m \in Responses : m.id # r /\ down'[over[r]] = Append(down[over[r]], m),
           handler'[r] \in {handler[r], "none"}, latest'[r] = latest[r]
    PROVE  Current(r)'
<1>1. Newest(r)' = Newest(r)
  BY DEF Newest, DS!Get
<1>2. down[over[r]] \in Seq(Responses)
  BY DEF TalkTypes
<1>3. queue'[r] # <<>> => queue'[r][Len(queue'[r])] = DS!Message("event", Newest(r))
  BY DEF Current
<1>4. ASSUME queue'[r] = <<>>, link'[over[r]] = "open"
      PROVE  \/ LastOf(down'[over[r]], r, Newest(r))
             \/ NoneOf(down'[over[r]], r) /\ (handler'[r] = "none" \/ latest'[r] = Newest(r))
  <2>1. \/ LastOf(down[over[r]], r, Newest(r))
        \/ NoneOf(down[over[r]], r) /\ (handler'[r] = "none" \/ latest'[r] = Newest(r))
    BY <1>4 DEF Current
  <2>2. CASE down'[over[r]] = down[over[r]]
    BY <2>1, <2>2
  <2>3. ASSUME NEW m \in Responses, m.id # r, down'[over[r]] = Append(down[over[r]], m)
        PROVE  /\ LastOf(down[over[r]], r, Newest(r)) => LastOf(down'[over[r]], r, Newest(r))
               /\ NoneOf(down[over[r]], r) => NoneOf(down'[over[r]], r)
    BY <1>2, <2>3, LastAppended
  <2>4. QED
    BY <1>4, <2>1, <2>2, <2>3
<1>5. DS!Message("event", Newest(r))' = DS!Message("event", Newest(r))
  BY <1>1 DEF DS!Message
<1>6. QED
  BY <1>1, <1>3, <1>4, <1>5 DEF Current

\* What a step leaves of what a subscriber follows
Stays(q) ==
    /\ data' = data /\ over'[q] = over[q] /\ queue'[q] = queue[q] /\ q \in topics'[Filter[q]]
    /\ link'[over[q]] = "open" =>
         /\ link[over[q]] = "open"
         /\ \/ down'[over[q]] = down[over[q]]
            \/ \E m \in Responses : m.id # q /\ down'[over[q]] = Append(down[over[q]], m)
    /\ handler'[q] \in {handler[q], "none"} /\ latest'[q] = latest[q]

\* So it is for all, when it is for each that a step leaves subscribed.
LEMMA CurrentStays ==
    ASSUME CVAssumption, TalkTypes, SentInv, DispatchInv, CurrentInv, [Next]_vars,
           \A q \in Requests : session'[q] = "reading" => session[q] = "reading",
           \A q \in Requests : ended'[q] = "open" => ended[q] = "open",
           \A q \in Requests : Subscribing(q) /\ session'[q] = "reading" /\ ended'[q] = "open" =>
             Stays(q) \/ Current(q)'
    PROVE  CurrentInv'
<1>1. \A q \in Requests : session[q] = "reading" => result[q] \in Handlers /\ result'[q] = result[q]
  BY ResultsStand DEF CurrentInv
<1>2. ASSUME NEW q \in Requests, Subscribing(q)' PROVE Current(q)'
  <2>1. session'[q] = "reading" /\ ended'[q] = "open" /\ session[q] = "reading" /\ ended[q] = "open"
    BY <1>2 DEF Subscribing
  <2>2. Subscribing(q)
    BY <1>1, <1>2, <2>1 DEF Subscribing, Reached
  <2>3. CASE Stays(q)
    <3>1. Current(q)
      BY <2>2 DEF CurrentInv
    <3>2. over[q] \in Sockets
      BY <2>1 DEF SentInv
    <3>3. QED
      BY <2>3, <3>1, <3>2, StillCurrent DEF Stays
  <2>4. QED
    BY <2>1, <2>2, <2>3
<1>3. \A q \in Requests : session'[q] = "reading" => result'[q] \in Handlers
  BY <1>1
<1>4. QED
  BY <1>2, <1>3 DEF CurrentInv

\* What is sent for another request is nothing to a subscriber.
LEMMA RespondsToAnother ==
    ASSUME TalkTypes, TalkTypes', NEW r \in Requests, NEW type, NEW v, NEW status, NEW fin,
           WS!Respond(r, type, v, status, fin), NEW q \in Requests, q # r, over[q] \in Sockets
    PROVE  \/ down'[over[q]] = down[over[q]]
           \/ \E m \in Responses : m.id # q /\ down'[over[q]] = Append(down[over[q]], m)
<1> DEFINE m == [id |-> r, type |-> type, v |-> v, status |-> status, fin |-> fin]
<1>1. down' = down \/ down' = [down EXCEPT ![over[r]] = Append(down[over[r]], m)]
  BY DEF WS!Respond
<1>2. m.id = r
  OBVIOUS
<1> HIDE DEF m
<1>3. down \in [Sockets -> Seq(Responses)] /\ down' \in [Sockets -> Seq(Responses)]
  BY DEF TalkTypes
<1>4. CASE down' = down \/ over[r] # over[q]
  BY <1>1, <1>3, <1>4
<1>5. CASE down' = [down EXCEPT ![over[r]] = Append(down[over[r]], m)] /\ over[r] = over[q]
  <2>1. down'[over[q]] = Append(down[over[q]], m)
    BY <1>3, <1>5
  <2>2. m \in Responses
    <3>1. Append(down[over[q]], m)[Len(down[over[q]]) + 1] = m
          /\ Len(Append(down[over[q]], m)) = Len(down[over[q]]) + 1 /\ Len(down[over[q]]) \in Nat
      BY <1>3
    <3>2. down'[over[q]] \in Seq(Responses)
      BY <1>3
    <3>3. down'[over[q]][Len(down[over[q]]) + 1] \in Responses
      BY <2>1, <3>1, <3>2, ElementOfSeq
    <3>4. QED
      BY <2>1, <3>1, <3>3
  <2>3. QED
    BY <1>2, <2>1, <2>2
<1>6. QED
  BY <1>1, <1>4, <1>5

\* The latest data is the last on the way to each subscriber, or there.
LEMMA CurrentKept ==
    ASSUME CVAssumption, ClientTypes, TalkTypes, ServerTypes, SentInv, DispatchInv, FlowInv, TopicsInv, CurrentInv,
           [Next]_vars
    PROVE  CurrentInv'
<1>1. \A q \in Requests : Subscribing(q) =>
        /\ session[q] = "reading" /\ phase[q] = "sent" /\ ended[q] = "open" /\ q \in topics[Filter[q]]
        /\ Filter[q] \in DS!Topics /\ over[q] \in Sockets /\ link[over[q]] \notin {"none", "connecting"}
  BY Constants DEF CurrentInv, Current, Subscribing, SentInv, DS!Topics
<1>2. CASE UNCHANGED vars
  BY <1>2 DEF vars, clVars, ownVars, net, diVars, dsVars, CurrentInv, Subscribing, Reached,
     Current, Newest, DS!Get, DS!Message
<1>3. ASSUME NEW r \in Requests, Client(CL!Request(r)) PROVE CurrentInv'
  <2>1. \A q \in Requests : session'[q] = "reading" => session[q] = "reading"
    BY <1>3 DEF CL!Request, Client, clVars, ownVars, net, diVars, dsVars, ServerTypes
  <2>2. \A q \in Requests : ended'[q] = "open" => ended[q] = "open"
    BY <1>3 DEF CL!Request, Client, clVars, ownVars, net, diVars, dsVars, ServerTypes
  <2>3. ASSUME NEW q \in Requests, Subscribing(q), ended'[q] = "open" PROVE Stays(q)
    BY <1>3, <1>1, <2>3 DEF CL!Request, Client, clVars, ownVars, net, diVars, dsVars, Stays,
       ServerTypes, ClientTypes, TalkTypes
  <2>4. QED
    BY <2>1, <2>2, <2>3, CurrentStays
<1>4. ASSUME NEW r \in Requests, Client(CL!TryConnect(r)) PROVE CurrentInv'
  <2>1. \A q \in Requests : session'[q] = "reading" => session[q] = "reading"
    BY <1>4 DEF CL!TryConnect, CL!Send, Client, clVars, ownVars, net, diVars, dsVars,
       ServerTypes
  <2>2. \A q \in Requests : ended'[q] = "open" => ended[q] = "open"
    BY <1>4 DEF CL!TryConnect, CL!Send, Client, clVars, ownVars, net, diVars, dsVars,
       ServerTypes
  <2>3. ASSUME NEW q \in Requests, Subscribing(q), ended'[q] = "open" PROVE Stays(q)
    BY <1>4, <1>1, <2>3 DEF CL!TryConnect, CL!Send, Client, clVars, ownVars, net, diVars,
       dsVars, Stays, ServerTypes, ClientTypes, TalkTypes
  <2>4. QED
    BY <2>1, <2>2, <2>3, CurrentStays
<1>5. ASSUME NEW r \in Requests, NEW s \in Sockets, Client(CL!OpenSocket(r, s))
      PROVE  CurrentInv'
  <2>1. \A q \in Requests : session'[q] = "reading" => session[q] = "reading"
    BY <1>5 DEF CL!OpenSocket, Client, clVars, ownVars, net, diVars, dsVars, ServerTypes
  <2>2. \A q \in Requests : ended'[q] = "open" => ended[q] = "open"
    BY <1>5 DEF CL!OpenSocket, Client, clVars, ownVars, net, diVars, dsVars, ServerTypes
  <2>3. ASSUME NEW q \in Requests, Subscribing(q), ended'[q] = "open" PROVE Stays(q)
    BY <1>5, <1>1, <2>3 DEF CL!OpenSocket, Client, clVars, ownVars, net, diVars, dsVars,
       Stays, ServerTypes, ClientTypes, TalkTypes
  <2>4. QED
    BY <2>1, <2>2, <2>3, CurrentStays
<1>6. ASSUME NEW r \in Requests, NEW found \in BOOLEAN,
             Client(CL!FindAppcd(r, found)) \/ Client(CL!StartFails(r))
      PROVE  CurrentInv'
  <2>1. \A q \in Requests : session'[q] = "reading" => session[q] = "reading"
    BY <1>6 DEF CL!FindAppcd, CL!StartFails, CL!GivesUp, CL!Emit, Client, clVars, ownVars, net, diVars,
       dsVars, ServerTypes
  <2>2. \A q \in Requests : ended'[q] = "open" => ended[q] = "open"
    BY <1>6 DEF CL!FindAppcd, CL!StartFails, CL!GivesUp, CL!Emit, Client, clVars, ownVars, net, diVars,
       dsVars, ServerTypes
  <2>3. ASSUME NEW q \in Requests, Subscribing(q), ended'[q] = "open" PROVE Stays(q)
    BY <1>6, <1>1, <2>3 DEF CL!FindAppcd, CL!StartFails, CL!GivesUp, CL!Emit, Client, clVars, ownVars, net,
       diVars, dsVars, Stays, ServerTypes, ClientTypes, TalkTypes
  <2>4. QED
    BY <2>1, <2>2, <2>3, CurrentStays
<1>7. ASSUME NEW r \in Requests, NEW works \in BOOLEAN, Client(CL!StartDaemon(r, works))
      PROVE  CurrentInv'
  <2>1. \A q \in Requests : session'[q] = "reading" => session[q] = "reading"
    BY <1>7 DEF CL!StartDaemon, CL!Starts, Client, clVars, ownVars, net, diVars, dsVars,
       ServerTypes
  <2>2. \A q \in Requests : ended'[q] = "open" => ended[q] = "open"
    BY <1>7 DEF CL!StartDaemon, CL!Starts, Client, clVars, ownVars, net, diVars, dsVars,
       ServerTypes
  <2>3. ASSUME NEW q \in Requests, Subscribing(q), ended'[q] = "open" PROVE Stays(q)
    BY <1>7, <1>1, <2>3 DEF CL!StartDaemon, CL!Starts, Client, clVars, ownVars, net, diVars,
       dsVars, Stays, ServerTypes, ClientTypes, TalkTypes
  <2>4. QED
    BY <2>1, <2>2, <2>3, CurrentStays
<1>8. ASSUME NEW r \in Requests, NEW works \in BOOLEAN, NEW elsewhere \in BOOLEAN, Client(CL!FetchConfig(r, elsewhere, works))
      PROVE  CurrentInv'
  <2>1. \A q \in Requests : session'[q] = "reading" => session[q] = "reading"
    BY <1>8 DEF CL!FetchConfig, CL!Starts, Client, clVars, ownVars, net, diVars, dsVars,
       ServerTypes
  <2>2. \A q \in Requests : ended'[q] = "open" => ended[q] = "open"
    BY <1>8 DEF CL!FetchConfig, CL!Starts, Client, clVars, ownVars, net, diVars, dsVars,
       ServerTypes
  <2>3. ASSUME NEW q \in Requests, Subscribing(q), ended'[q] = "open" PROVE Stays(q)
    BY <1>8, <1>1, <2>3 DEF CL!FetchConfig, CL!Starts, Client, clVars, ownVars, net, diVars,
       dsVars, Stays, ServerTypes, ClientTypes, TalkTypes
  <2>4. QED
    BY <2>1, <2>2, <2>3, CurrentStays
<1>9. ASSUME NEW s \in Sockets, Client(CL!Close(s)) PROVE CurrentInv'
  <2>1. \A q \in Requests : session'[q] = "reading" => session[q] = "reading"
    BY <1>9 DEF CL!Close, CL!Emit, Client, clVars, ownVars, net, diVars, dsVars, ServerTypes
  <2>2. \A q \in Requests : ended'[q] = "open" => ended[q] = "open"
    BY <1>9 DEF CL!Close, CL!Emit, Client, clVars, ownVars, net, diVars, dsVars, ServerTypes
  <2>3. ASSUME NEW q \in Requests, Subscribing(q), ended'[q] = "open" PROVE Stays(q)
    BY <1>9, <1>1, <2>3 DEF CL!Close, CL!Emit, Client, clVars, ownVars, net, diVars, dsVars,
       Stays, ServerTypes, ClientTypes, TalkTypes
  <2>4. QED
    BY <2>1, <2>2, <2>3, CurrentStays
<1>10. ASSUME NEW s \in Sockets, Client(CL!Message(s)) PROVE CurrentInv'
  <2> DEFINE m == Head(down[s])
             r == m.id
  <2>1. UNCHANGED <<session, ended, data, over, queue, topics, link>> /\ down[s] # <<>>
    BY <1>10 DEF CL!Message, Client, ownVars, dsVars
  <2>2. /\ down' = [down EXCEPT ![s] = Tail(down[s])]
        /\ \/ handler[r] = "none" /\ UNCHANGED <<handler, latest>>
           \/ /\ handler[r] # "none"
              /\ handler' = [handler EXCEPT ![r] = handler'[r]]
              /\ latest' = [latest EXCEPT ![r] = IF m.type \in {"value", "event"} THEN m.v ELSE latest[r]]
    BY <1>10 DEF CL!Message, Client, ClientTypes
  <2>3. down[s] \in Seq(Responses) /\ m = down[s][1] /\ 1 \in 1..Len(down[s])
    BY <2>1 DEF TalkTypes
  <2>4. m \in Responses
    BY <2>1, <2>3
  <2>5. r \in Requests
    BY <2>4 DEF Responses
  <2> HIDE DEF m
  <2>6. over[r] = s
    BY <2>3 DEF FlowInv
  <2>7. ASSUME NEW q \in Requests, Subscribing(q) PROVE Stays(q) \/ Current(q)'
    <3>1. over[q] \in Sockets
      BY <1>1, <2>7
    <3>2. CASE over[q] # s
      <4>1. q # r /\ down'[over[q]] = down[over[q]]
        BY <2>2, <2>6, <3>1, <3>2 DEF TalkTypes
      <4>2. handler'[q] = handler[q] /\ latest'[q] = latest[q]
        BY <2>2, <4>1 DEF ClientTypes, TalkTypes
      <4>3. QED
        BY <1>1, <2>1, <2>7, <4>1, <4>2 DEF Stays
    <3>3. CASE over[q] = s
      <4>1. Current(q)
        BY <2>7 DEF CurrentInv
      <4>2. Newest(q)' = Newest(q)
        BY <2>1 DEF Newest, DS!Get
      <4>3. DS!Message("event", Newest(q))' = DS!Message("event", Newest(q))
        BY <4>2 DEF DS!Message
      <4>4. down'[s] = Tail(down[s])
        BY <2>2 DEF TalkTypes
      <4>5. q # r => handler'[q] = handler[q] /\ latest'[q] = latest[q]
        BY <2>2, <2>5 DEF ClientTypes, TalkTypes
      <4>6. handler[q] = "none" => handler'[q] = "none"
        BY <2>2, <2>5, <4>5
      <4>7. q = r /\ handler[q] # "none" /\ m.type = "event" => latest'[q] = m.v
        BY <2>2, <2>5 DEF TalkTypes
      <4>8. LastOf(down[s], q, Newest(q)) =>
              \/ LastOf(down'[s], q, Newest(q))
              \/ r = q /\ m.type = "event" /\ m.v = Newest(q) /\ NoneOf(down'[s], q)
        BY <2>1, <2>3, <4>4, LastTaken DEF m
      <4>9. NoneOf(down[s], q) => r # q /\ NoneOf(down'[s], q)
        <5>1. \A v : NoneOf(down[s], q) => Head(down[s]).id # q /\ NoneOf(Tail(down[s]), q)
          BY <2>1, <2>3, LastTaken
        <5>2. QED
          BY <4>4, <5>1 DEF m
      <4>10. ASSUME queue'[q] = <<>>, link'[s] = "open"
             PROVE  \/ LastOf(down'[s], q, Newest(q))
                    \/ NoneOf(down'[s], q) /\ (handler'[q] = "none" \/ latest'[q] = Newest(q))
        <5>1. \/ LastOf(down[s], q, Newest(q))
              \/ NoneOf(down[s], q) /\ (handler[q] = "none" \/ latest[q] = Newest(q))
          BY <2>1, <3>3, <4>1, <4>10 DEF Current
        <5>2. QED
          BY <4>5, <4>6, <4>7, <4>8, <4>9, <5>1
      <4>11. QED
        BY <2>1, <3>3, <4>1, <4>2, <4>3, <4>10 DEF Current
    <3>4. QED
      BY <3>2, <3>3
  <2>8. QED
    BY <2>1, <2>7, CurrentStays
<1>11. ASSUME NEW s \in Sockets, NEW refused \in BOOLEAN, Client(CL!Fails(s, refused)) PROVE CurrentInv'
  <2>1. \A q \in Requests : session'[q] = "reading" => session[q] = "reading"
    BY <1>11 DEF CL!Fails, CL!Dropped, CL!Emit, Client, clVars, ownVars, net, diVars, dsVars,
       ServerTypes
  <2>2. \A q \in Requests : ended'[q] = "open" => ended[q] = "open"
    BY <1>11 DEF CL!Fails, CL!Dropped, CL!Emit, Client, clVars, ownVars, net, diVars, dsVars,
       ServerTypes
  <2>3. ASSUME NEW q \in Requests, Subscribing(q), ended'[q] = "open" PROVE Stays(q)
    BY <1>11, <1>1, <2>3 DEF CL!Fails, CL!Dropped, CL!Emit, Client, clVars, ownVars, net,
       diVars, dsVars, Stays, ServerTypes, ClientTypes, TalkTypes
  <2>4. QED
    BY <2>1, <2>2, <2>3, CurrentStays
<1>12. ASSUME NEW s \in Sockets, Client(CL!Cut(s)) PROVE CurrentInv'
  <2>1. \A q \in Requests : session'[q] = "reading" => session[q] = "reading"
    BY <1>12 DEF CL!Cut, Client, clVars, ownVars, net, diVars, dsVars, ServerTypes
  <2>2. \A q \in Requests : ended'[q] = "open" => ended[q] = "open"
    BY <1>12 DEF CL!Cut, Client, clVars, ownVars, net, diVars, dsVars, ServerTypes
  <2>3. ASSUME NEW q \in Requests, Subscribing(q), ended'[q] = "open" PROVE Stays(q)
    BY <1>12, <1>1, <2>3 DEF CL!Cut, Client, clVars, ownVars, net, diVars, dsVars, Stays,
       ServerTypes, ClientTypes, TalkTypes
  <2>4. QED
    BY <2>1, <2>2, <2>3, CurrentStays
<1>13. CASE Client(CL!Disconnect)
  <2>1. \A q \in Requests : session'[q] = "reading" => session[q] = "reading"
    BY <1>13 DEF CL!Disconnect, CL!Dropped, Client, clVars, ownVars, net, diVars, dsVars,
       ServerTypes
  <2>2. \A q \in Requests : ended'[q] = "open" => ended[q] = "open"
    BY <1>13 DEF CL!Disconnect, CL!Dropped, Client, clVars, ownVars, net, diVars, dsVars,
       ServerTypes
  <2>3. ASSUME NEW q \in Requests, Subscribing(q), ended'[q] = "open" PROVE Stays(q)
    BY <1>13, <1>1, <2>3 DEF CL!Disconnect, CL!Dropped, Client, clVars, ownVars, net, diVars,
       dsVars, Stays, ServerTypes, ClientTypes, TalkTypes
  <2>4. QED
    BY <2>1, <2>2, <2>3, CurrentStays
<1>14. ASSUME NEW s \in Sockets, Connected(s) PROVE CurrentInv'
  <2>1. /\ UNCHANGED <<session, ended, data, over, queue, topics, down, latest>>
        /\ link[s] = "connecting" /\ link' = [link EXCEPT ![s] = "open"]
        /\ handler' = [handler EXCEPT ![opener[s]] = "new"]
    BY <1>14 DEF Connected, CL!Opened, CL!Send, dsVars
  <2>2. phase[opener[s]] = "opening"
    BY <2>1 DEF SentInv
  <2>3. ASSUME NEW q \in Requests, Subscribing(q) PROVE Stays(q)
    <3>1. q # opener[s] /\ over[q] # s
      BY <1>1, <2>1, <2>2, <2>3
    <3>2. handler'[q] = handler[q] /\ link'[over[q]] = link[over[q]]
      BY <1>1, <2>1, <2>3, <3>1 DEF ClientTypes
    <3>3. QED
      BY <1>1, <2>1, <2>3, <3>2 DEF Stays
  <2>4. QED
    BY <2>1, <2>3, CurrentStays
<1>15. ASSUME NEW r \in Requests, NEW s \in Sockets, Receive(s, r) PROVE CurrentInv'
  <2>1. /\ UNCHANGED <<ended, data, queue, topics, link, down, handler, latest>>
        /\ session' = [session EXCEPT ![r] = "calling"] /\ over' = [over EXCEPT ![r] = s]
    BY <1>15 DEF Receive, WS!Receive, ServerOnly, clVars, dsVars
  <2>2. \A q \in Requests : session'[q] = "reading" => session[q] = "reading" /\ q # r
    BY <2>1 DEF ServerTypes
  <2>3. ASSUME NEW q \in Requests, Subscribing(q), session'[q] = "reading" PROVE Stays(q)
    BY <1>1, <2>1, <2>2, <2>3 DEF Stays, ServerTypes
  <2>4. QED
    BY <2>1, <2>2, <2>3, CurrentStays
<1>16. ASSUME NEW r \in Requests, PassOn(r) PROVE CurrentInv'
  <2>1. \A q \in Requests : session'[q] = "reading" => session[q] = "reading"
    BY <1>16 DEF PassOn, ServerOnly, clVars, ownVars, net, diVars, dsVars, ServerTypes
  <2>2. \A q \in Requests : ended'[q] = "open" => ended[q] = "open"
    BY <1>16 DEF PassOn, ServerOnly, clVars, ownVars, net, diVars, dsVars, ServerTypes
  <2>3. ASSUME NEW q \in Requests, Subscribing(q), ended'[q] = "open" PROVE Stays(q)
    BY <1>16, <1>1, <2>3 DEF PassOn, ServerOnly, clVars, ownVars, net, diVars, dsVars, Stays,
       ServerTypes, ClientTypes, TalkTypes
  <2>4. QED
    BY <2>1, <2>2, <2>3, CurrentStays
<1>17. ASSUME NEW r \in Requests, Reply(r) PROVE CurrentInv'
  <2>1. /\ UNCHANGED <<ended, data, over, queue, topics, link, handler, latest>>
        /\ session[r] = "calling" /\ session' = [session EXCEPT ![r] = "done"]
    BY <1>17 DEF Reply, WS!Answer, WS!Done, ServerOnly, clVars, dsVars
  <2>2. \A q \in Requests : session'[q] = "reading" => session[q] = "reading"
    BY <2>1 DEF ServerTypes
  <2>3. ASSUME NEW q \in Requests, Subscribing(q) PROVE Stays(q)
    <3>1. over[q] \in Sockets /\ q # r
      BY <1>1, <2>1, <2>3
    <3>2. \/ down'[over[q]] = down[over[q]]
          \/ \E m \in Responses : m.id # q /\ down'[over[q]] = Append(down[over[q]], m)
      <4>1. CASE WS!Respond(r, "value", DS!Get(Filter[r]), 200, TRUE)
        BY <3>1, <4>1, TalkTypesKept, RespondsToAnother
      <4>2. CASE WS!Respond(r, "error", 0, 500, FALSE)
        <5>1. PICK type, v, status, fin : WS!Respond(r, type, v, status, fin)
          BY <4>2
        <5>2. QED
          BY <3>1, <5>1, TalkTypesKept, RespondsToAnother
      <4>3. QED
        BY <1>17, <4>1, <4>2 DEF Reply, WS!Answer
    <3>3. QED
      BY <1>1, <2>1, <2>3, <3>2 DEF Stays
  <2>4. QED
    BY <2>1, <2>2, <2>3, CurrentStays
<1>18. ASSUME NEW r \in Requests, Subscribe(r) PROVE CurrentInv'
  <2>1. /\ UNCHANGED <<ended, data, over, link, handler, latest, down, result>>
        /\ session' = [session EXCEPT ![r] = "reading"] /\ Reached(r, "subscribe")
        /\ topics' = [topics EXCEPT ![Filter[r]] = topics[Filter[r]] \cup {r}]
        /\ queue' = [queue EXCEPT ![r] = queue[r] \o DS!Subscribed(r)]
    BY <1>18 DEF Subscribe, WS!ReadStream, DS!Subscribe, ServerOnly, clVars, diVars
  <2>2. Filter[r] \in DS!Topics
    BY Constants DEF DS!Topics
  <2>3. ASSUME NEW q \in Requests, Subscribing(q)', q # r PROVE Current(q)'
    <3>1. Subscribing(q)
      BY <2>1, <2>3 DEF Subscribing, Reached, ServerTypes
    <3>2. Stays(q)
      BY <1>1, <2>1, <2>2, <2>3, <3>1 DEF Stays, ServerTypes
    <3>3. Current(q) /\ over[q] \in Sockets
      BY <1>1, <3>1 DEF CurrentInv
    <3>4. QED
      BY <3>2, <3>3, StillCurrent DEF Stays
  <2>4. Current(r)'
    <3>1. Newest(r)' = Newest(r)
      BY <2>1 DEF Newest, DS!Get
    <3> DEFINE w == DS!Subscribed(r)
               e == DS!Message("event", Newest(r))
               a == DS!Message("subscribe", 0)
    <3>2. w = <<a, e>>
      BY DEF DS!Subscribed, Newest
    <3>3. a \in Packets /\ e \in Packets
      BY GetIs, Constants DEF Packets, DS!Message, WS!Types, ServerTypes, Values, Newest
    <3>4. e' = e
      BY <3>1 DEF DS!Message
    <3> HIDE DEF a, e, w
    <3>5. w \in Seq(Packets) /\ Len(w) = 2 /\ w[2] = e
      BY <3>2, <3>3
    <3>6. queue[r] \in Seq(Packets) /\ queue'[r] = queue[r] \o w
      BY <2>1 DEF ServerTypes, w
    <3>7. queue'[r] # <<>> /\ queue'[r][Len(queue'[r])] = e
      <4>1. /\ Len(queue[r] \o w) = Len(queue[r]) + Len(w) /\ Len(queue[r]) \in Nat
            /\ \A i \in 1..(Len(queue[r]) + Len(w)) :
                 (queue[r] \o w)[i] = IF i <= Len(queue[r]) THEN queue[r][i] ELSE w[i - Len(queue[r])]
        <5>1. queue[r] \in Seq(Packets) /\ w \in Seq(Packets)
          BY <3>5, <3>6
        <5>2. QED
          BY <5>1, ConcatProperties
      <4>2. (queue[r] \o w)[Len(queue[r]) + 2] = w[2]
        BY <3>5, <4>1
      <4>3. queue[r] \o w # <<>>
        BY <3>5, <4>1
      <4>4. QED
        BY <3>5, <3>6, <4>1, <4>2, <4>3
    <3>8. r \in topics'[Filter[r]]
      BY <2>1, <2>2 DEF ServerTypes
    <3>9. QED
      BY <3>4, <3>7, <3>8 DEF Current, e
  <2>5. \A q \in Requests : session'[q] = "reading" => result'[q] \in Handlers
    BY <2>1 DEF CurrentInv, Reached, ServerTypes
  <2>6. QED
    BY <2>3, <2>4, <2>5 DEF CurrentInv
<1>19. ASSUME NEW r \in Requests, OpenStream(r) PROVE CurrentInv'
  <2>1. /\ UNCHANGED <<ended, data, over, link, handler, latest, down, result, topics, queue>>
        /\ session' = [session EXCEPT ![r] = "reading"] /\ Reached(r, "stream")
    BY <1>19 DEF OpenStream, WS!ReadStream, ServerOnly, clVars, diVars, dsVars
  <2>2. ASSUME NEW q \in Requests, Subscribing(q)' PROVE Current(q)'
    <3>1. q # r
      BY <2>1, <2>2 DEF Subscribing, Reached
    <3>2. Subscribing(q)
      BY <2>1, <2>2, <3>1 DEF Subscribing, Reached, ServerTypes
    <3>3. Stays(q)
      BY <1>1, <2>1, <3>2 DEF Stays
    <3>4. Current(q) /\ over[q] \in Sockets
      BY <1>1, <3>2 DEF CurrentInv
    <3>5. QED
      BY <3>3, <3>4, StillCurrent DEF Stays
  <2>3. \A q \in Requests : session'[q] = "reading" => result'[q] \in Handlers
    BY <2>1 DEF CurrentInv, Reached, ServerTypes
  <2>4. QED
    BY <2>2, <2>3 DEF CurrentInv
<1>20. ASSUME NEW r \in Requests, Streams(r) PROVE CurrentInv'
  <2>1. /\ UNCHANGED <<ended, data, over, topics, link, handler, latest, result>> /\ session[r] = "reading"
        /\ \A q \in Requests : session'[q] = "reading" => session[q] = "reading"
        /\ \A q \in Requests : q # r => queue'[q] = queue[q]
    BY <1>20 DEF Streams, WS!Data, WS!End, WS!Error, WS!Done, ServerOnly, clVars, diVars,
       ServerTypes
  <2>2. ASSUME NEW q \in Requests, Subscribing(q), q # r PROVE Stays(q)
    <3>1. over[q] \in Sockets
      BY <1>1, <2>2
    <3>2. \/ down'[over[q]] = down[over[q]]
          \/ \E m \in Responses : m.id # q /\ down'[over[q]] = Append(down[over[q]], m)
      <4>1. CASE WS!Data(r)
        <5> DEFINE m == Head(queue[r])
                   status == IF (r \in pubsub \/ m.type = "subscribe") \/ r \in first THEN 200 ELSE 0
        <5>1. WS!Respond(r, m.type, m.v, status, FALSE)
          BY <4>1 DEF WS!Data
        <5> HIDE DEF m, status
        <5>2. QED
          BY <2>2, <3>1, <5>1, TalkTypesKept, RespondsToAnother
      <4>2. CASE WS!End(r)
        <5>1. WS!Respond(r, "finish", 0, 200, TRUE)
          BY <4>2 DEF WS!End
        <5>2. QED
          BY <2>2, <3>1, <5>1, TalkTypesKept, RespondsToAnother
      <4>3. CASE WS!Error(r)
        <5>1. PICK type, v, status, fin : WS!Respond(r, type, v, status, fin)
          BY <4>3 DEF WS!Error
        <5>2. QED
          BY <2>2, <3>1, <5>1, TalkTypesKept, RespondsToAnother
      <4>4. QED
        BY <1>20, <4>1, <4>2, <4>3 DEF Streams
    <3>3. QED
      BY <1>1, <2>1, <2>2, <3>2 DEF Stays
  <2>3. ASSUME Subscribing(r), session'[r] = "reading" PROVE Current(r)'
    <3>1. WS!Data(r)
      BY <1>20, <2>1, <2>3 DEF Streams, WS!End, WS!Error, WS!Done, ServerTypes
    <3>2. over[r] \in Sockets /\ r \in topics[Filter[r]]
      BY <1>1, <2>3
    <3>3. Current(r)
      BY <2>3 DEF CurrentInv
    <3>4. Newest(r)' = Newest(r)
      BY <2>1 DEF Newest, DS!Get
    <3> DEFINE w == queue[r]
               e == DS!Message("event", Newest(r))
               sent == down[over[r]]
               next == down'[over[r]]
    <3>5. e' = e
      BY <3>4 DEF DS!Message
    <3>6. w \in Seq(Packets) /\ w # <<>> /\ queue' = [queue EXCEPT ![r] = Tail(w)]
      BY <3>1 DEF WS!Data, ServerTypes
    <3>7. w[Len(w)] = e /\ e.type = "event" /\ e.v = Newest(r)
      BY <3>3, <3>6 DEF Current, DS!Message
    <3>8. queue'[r] = Tail(w)
      BY <3>6 DEF ServerTypes
    <3> HIDE DEF e, w
    <3>9. queue'[r] # <<>> => queue'[r][Len(queue'[r])] = e
      <4>1. ASSUME Tail(w) # <<>> PROVE Tail(w)[Len(Tail(w))] = w[Len(w)]
        <5>1. /\ Len(Tail(w)) = Len(w) - 1 /\ Len(w) \in Nat \ {0}
              /\ Tail(w) \in Seq(Packets) /\ \A i \in 1..Len(Tail(w)) : Tail(w)[i] = w[i + 1]
          BY <3>6
        <5>2. Len(Tail(w)) # 0
          BY <4>1, <5>1, EmptySeq
        <5>3. Len(w) - 1 \in 1..Len(Tail(w)) /\ (Len(w) - 1) + 1 = Len(w)
          BY <5>1, <5>2
        <5>4. QED
          BY <5>1, <5>3
      <4>2. QED
        BY <3>7, <3>8, <4>1
    <3>10. ASSUME queue'[r] = <<>>, link[over[r]] = "open" PROVE LastOf(next, r, Newest(r))
      <4>1. Head(w) = e
        <5>1. Len(w) \in Nat \ {0} /\ Len(Tail(w)) = Len(w) - 1 /\ Head(w) = w[1]
          BY <3>6
        <5>2. Tail(w) = <<>>
          BY <3>8, <3>10
        <5>3. Len(w) - 1 = 0
          BY <5>1, <5>2, EmptySeq
        <5> DEFINE n == Len(w)
        <5> HIDE DEF n
        <5>4. n \in Nat /\ n - 1 = 0
          BY <5>1, <5>3 DEF n
        <5>5. n = 1
          BY <5>4
        <5>6. Len(w) = 1
          BY <5>5 DEF n
        <5>7. QED
          BY <3>7, <5>1, <5>6
      <4>2. peer[over[r]] = "open"
        BY <3>2, <3>10 DEF SentInv
      <4> DEFINE status == IF (r \in pubsub \/ Head(w).type = "subscribe") \/ r \in first THEN 200 ELSE 0
                 m == [id |-> r, type |-> Head(w).type, v |-> Head(w).v, status |-> status, fin |-> FALSE]
      <4>3. WS!Respond(r, Head(w).type, Head(w).v, status, FALSE)
        BY <3>1 DEF WS!Data, w
      <4>4. down' = [down EXCEPT ![over[r]] = Append(sent, m)]
        BY <4>2, <4>3 DEF WS!Respond
      <4>5. m.id = r /\ m.type = "event" /\ m.v = Newest(r)
        BY <3>7, <4>1
      <4>6. m \in Responses
        <5>1. Head(w) \in Packets
          BY <3>6
        <5>2. Head(w).type \in WS!Types /\ Head(w).v \in Values /\ status \in Statuses
          BY <5>1 DEF Packets, Statuses
        <5> HIDE DEF status
        <5>3. QED
          BY <5>2 DEF Responses
      <4> HIDE DEF m
      <4>7. sent \in Seq(Responses) /\ next = Append(sent, m)
        BY <3>2, <4>4 DEF TalkTypes
      <4>8. QED
        BY <4>5, <4>6, <4>7, LastAppended
    <3>11. QED
      BY <2>1, <3>2, <3>4, <3>5, <3>9, <3>10 DEF Current, e
  <2>4. QED
    BY <2>1, <2>2, <2>3, CurrentStays
<1>21. ASSUME NEW r \in Requests, CleanUp(r) PROVE CurrentInv'
  <2>1. \A q \in Requests : session'[q] = "reading" => session[q] = "reading"
    BY <1>21 DEF CleanUp, DS!CleanUp, DS!Left, ServerOnly, clVars, ownVars, net, diVars,
       dsVars, ServerTypes
  <2>2. \A q \in Requests : ended'[q] = "open" => ended[q] = "open"
    BY <1>21 DEF CleanUp, DS!CleanUp, DS!Left, ServerOnly, clVars, ownVars, net, diVars,
       dsVars, ServerTypes
  <2>3. ASSUME NEW q \in Requests, Subscribing(q), ended'[q] = "open" PROVE Stays(q)
    BY <1>21, <1>1, <2>3 DEF CleanUp, DS!CleanUp, DS!Left, ServerOnly, clVars, ownVars, net,
       diVars, dsVars, Stays, ServerTypes, ClientTypes, TalkTypes
  <2>4. QED
    BY <2>1, <2>2, <2>3, CurrentStays
<1>22. ASSUME NEW r \in Requests, NEW how \in {"ended", "failed"}, WriterEnds(r, how)
       PROVE  CurrentInv'
  <2>1. \A q \in Requests : session'[q] = "reading" => session[q] = "reading"
    BY <1>22 DEF WriterEnds, ServerOnly, clVars, ownVars, net, diVars, dsVars, ServerTypes
  <2>2. \A q \in Requests : ended'[q] = "open" => ended[q] = "open"
    BY <1>22 DEF WriterEnds, ServerOnly, clVars, ownVars, net, diVars, dsVars, ServerTypes
  <2>3. ASSUME NEW q \in Requests, Subscribing(q), ended'[q] = "open" PROVE Stays(q)
    BY <1>22, <1>1, <2>3 DEF WriterEnds, ServerOnly, clVars, ownVars, net, diVars, dsVars,
       Stays, ServerTypes, ClientTypes, TalkTypes
  <2>4. QED
    BY <2>1, <2>2, <2>3, CurrentStays
<1>23. ASSUME NEW r \in Requests, Write(r) PROVE CurrentInv'
  <2>1. /\ Reached(r, "stream") /\ UNCHANGED <<ended, session, data, over, topics, link, handler, latest, down>>
        /\ queue' = [queue EXCEPT ![r] = Append(queue[r], DS!Message("chunk", 0))]
    BY <1>23 DEF Write, clVars, ownVars, net
  <2>2. ASSUME NEW q \in Requests, Subscribing(q) PROVE Stays(q)
    <3>1. q # r
      BY <2>1, <2>2 DEF Subscribing, Reached
    <3>2. QED
      BY <1>1, <2>1, <2>2, <3>1 DEF Stays, ServerTypes
  <2>3. QED
    BY <2>1, <2>2, CurrentStays
<1>24. ASSUME NEW r \in Requests, Unsubscribe(r) PROVE CurrentInv'
  <2>1. \A q \in Requests : session'[q] = "reading" => session[q] = "reading"
    BY <1>24 DEF Unsubscribe, DS!Unsubscribe, DS!Left, ServerOnly, clVars, ownVars, net,
       diVars, dsVars, ServerTypes
  <2>2. \A q \in Requests : ended'[q] = "open" => ended[q] = "open"
    BY <1>24 DEF Unsubscribe, DS!Unsubscribe, DS!Left, ServerOnly, clVars, ownVars, net,
       diVars, dsVars, ServerTypes
  <2>3. ASSUME NEW q \in Requests, Subscribing(q), ended'[q] = "open" PROVE Stays(q)
    BY <1>24, <1>1, <2>3 DEF Unsubscribe, DS!Unsubscribe, DS!Left, ServerOnly, clVars,
       ownVars, net, diVars, dsVars, Stays, ServerTypes, ClientTypes, TalkTypes
  <2>4. QED
    BY <2>1, <2>2, <2>3, CurrentStays
<1>25. ASSUME NEW r \in Requests, CallDirectly(r) PROVE CurrentInv'
  <2>1. \A q \in Requests : session'[q] = "reading" => session[q] = "reading"
    BY <1>25 DEF CallDirectly, ServerOnly, clVars, ownVars, net, diVars, dsVars, ServerTypes
  <2>2. \A q \in Requests : ended'[q] = "open" => ended[q] = "open"
    BY <1>25 DEF CallDirectly, ServerOnly, clVars, ownVars, net, diVars, dsVars, ServerTypes
  <2>3. ASSUME NEW q \in Requests, Subscribing(q), ended'[q] = "open" PROVE Stays(q)
    BY <1>25, <1>1, <2>3 DEF CallDirectly, ServerOnly, clVars, ownVars, net, diVars, dsVars,
       Stays, ServerTypes, ClientTypes, TalkTypes
  <2>4. QED
    BY <2>1, <2>2, <2>3, CurrentStays
<1>26. ASSUME NEW r \in Requests, NextDirectly(r) PROVE CurrentInv'
  <2>1. \A q \in Requests : session'[q] = "reading" => session[q] = "reading"
    BY <1>26 DEF NextDirectly, ServerOnly, clVars, ownVars, net, diVars, dsVars, ServerTypes
  <2>2. \A q \in Requests : ended'[q] = "open" => ended[q] = "open"
    BY <1>26 DEF NextDirectly, ServerOnly, clVars, ownVars, net, diVars, dsVars, ServerTypes
  <2>3. ASSUME NEW q \in Requests, Subscribing(q), ended'[q] = "open" PROVE Stays(q)
    BY <1>26, <1>1, <2>3 DEF NextDirectly, ServerOnly, clVars, ownVars, net, diVars, dsVars,
       Stays, ServerTypes, ClientTypes, TalkTypes
  <2>4. QED
    BY <2>1, <2>2, <2>3, CurrentStays
<1>27. ASSUME NEW s \in Sockets, Hangup(s) PROVE CurrentInv'
  <2>1. \A q \in Requests : session'[q] = "reading" => session[q] = "reading"
    BY <1>27 DEF Hangup, WS!Closed, ServerOnly, clVars, ownVars, net, diVars, dsVars,
       ServerTypes
  <2>2. \A q \in Requests : ended'[q] = "open" => ended[q] = "open"
    BY <1>27 DEF Hangup, WS!Closed, ServerOnly, clVars, ownVars, net, diVars, dsVars,
       ServerTypes
  <2>3. ASSUME NEW q \in Requests, Subscribing(q), ended'[q] = "open" PROVE Stays(q)
    BY <1>27, <1>1, <2>3 DEF Hangup, WS!Closed, ServerOnly, clVars, ownVars, net, diVars,
       dsVars, Stays, ServerTypes, ClientTypes, TalkTypes
  <2>4. QED
    BY <2>1, <2>2, <2>3, CurrentStays
<1>28. ASSUME NEW k \in Keys, SetData(k) PROVE CurrentInv'
  <2> DEFINE value == DS!Get("all") + 1
             heirs == UNION {topics[t] : t \in watches \cap {k, "all"}}
             late == {q \in heirs : ended[q] # "open"}
  <2>1. /\ UNCHANGED <<session, over, link, handler, latest, down>>
        /\ value <= MaxChanges /\ data' = [data EXCEPT ![k] = value]
        /\ queue' = [q \in Requests |-> IF q \in heirs \ late
                       THEN Append(queue[q], DS!Message("event", value)) ELSE queue[q]]
        /\ ended' = [q \in Requests |-> IF q \in late THEN "failed" ELSE ended[q]]
        /\ topics' = [t \in DS!Topics |-> topics[t] \ late]
    BY <1>28 DEF SetData, DS!SetData, ServerOnly, clVars, ownVars, net
  <2>2. value \in Values
    <3>1. DS!Get("all") \in Values
      BY GetIs DEF ServerTypes
    <3>2. QED
      BY <2>1, <3>1, Constants DEF Values
  <2>3. /\ DS!Get("all")' = value /\ DS!Get(k)' = value
        /\ \A t \in Keys : t # k => DS!Get(t)' = DS!Get(t)
    BY <2>1, <2>2, GetSet
  <2>6. \A q \in Requests : ended'[q] = "open" => ended[q] = "open"
    BY <2>1 DEF ServerTypes
  <2> HIDE DEF value
  <2>4. ASSUME NEW q \in Requests, Subscribing(q) PROVE Current(q)'
    <3>1. Filter[q] \in Keys \cup {"all"} /\ k # "all"
      BY Constants
    <3>2. Current(q) /\ ended[q] = "open" /\ q \in topics[Filter[q]] /\ Filter[q] \in DS!Topics
      BY <1>1, <2>4 DEF CurrentInv
    <3>6. q \notin late /\ q \in topics'[Filter[q]]
      BY <2>1, <3>2
    <3>3. CASE Filter[q] \in {k, "all"}
      <4>1. Newest(q)' = value
        BY <2>3, <3>3 DEF Newest
      <4>2. Filter[q] \in watches
        BY <3>2 DEF TopicsInv, DS!WatchesFollowSubscribers
      <4>3. queue'[q] = Append(queue[q], DS!Message("event", value))
        BY <2>1, <3>2, <3>3, <3>6, <4>2
      <4>4. queue[q] \in Seq(Packets) /\ DS!Message("event", value) \in Packets
        BY <2>2 DEF ServerTypes, Packets, DS!Message, WS!Types
      <4>5. queue'[q] # <<>> /\ queue'[q][Len(queue'[q])] = DS!Message("event", value)
        <5> DEFINE e == DS!Message("event", value)
        <5>1. /\ Len(Append(queue[q], e)) = Len(queue[q]) + 1 /\ Len(queue[q]) \in Nat
              /\ Append(queue[q], e)[Len(queue[q]) + 1] = e
          BY <4>4, AppendProperties
        <5> HIDE DEF e
        <5>2. Append(queue[q], e) # <<>>
          <6>1. Len(queue[q]) + 1 # 0
            BY <5>1
          <6>2. QED
            BY <5>1, <6>1, EmptySeq
        <5>3. QED
          BY <4>3, <5>1, <5>2 DEF e
      <4>6. DS!Message("event", Newest(q))' = DS!Message("event", value)
        BY <4>1 DEF DS!Message
      <4>7. QED
        BY <2>1, <3>6, <4>5, <4>6 DEF Current
    <3>4. CASE Filter[q] \notin {k, "all"}
      <4>1. Newest(q)' = Newest(q)
        BY <2>3, <3>1, <3>4 DEF Newest
      <4>2. q \notin UNION {topics[t] : t \in watches \cap {k, "all"}}
        BY <3>4 DEF TopicsInv, ServerTypes
      <4>3. queue'[q] = queue[q]
        BY <2>1, <4>2
      <4>4. DS!Message("event", Newest(q))' = DS!Message("event", Newest(q))
        BY <4>1 DEF DS!Message
      <4>5. QED
        BY <2>1, <3>2, <3>6, <4>1, <4>3, <4>4 DEF Current
    <3>5. QED
      BY <3>3, <3>4
  <2>5. QED
    BY <2>1, <2>4, <2>6, CurrentStays
<1>29. CASE DaemonStops
  <2>1. \A q \in Requests : session'[q] = "reading" => session[q] = "reading"
    BY <1>29 DEF DaemonStops, clVars, ownVars, net, diVars, dsVars, ServerTypes
  <2>2. \A q \in Requests : ended'[q] = "open" => ended[q] = "open"
    BY <1>29 DEF DaemonStops, clVars, ownVars, net, diVars, dsVars, ServerTypes
  <2>3. ASSUME NEW q \in Requests, Subscribing(q), ended'[q] = "open" PROVE Stays(q)
    BY <1>29, <1>1, <2>3 DEF DaemonStops, clVars, ownVars, net, diVars, dsVars, Stays,
       ServerTypes, ClientTypes, TalkTypes
  <2>4. QED
    BY <2>1, <2>2, <2>3, CurrentStays
<1>30. ASSUME NEW d \in DI!Dispatchers, NEW h \in Plugged, Reroute(d, h) PROVE CurrentInv'
  <2>1. \A q \in Requests : session'[q] = "reading" => session[q] = "reading"
    BY <1>30 DEF Reroute, ServerOnly, clVars, ownVars, net, diVars, dsVars, ServerTypes
  <2>2. \A q \in Requests : ended'[q] = "open" => ended[q] = "open"
    BY <1>30 DEF Reroute, ServerOnly, clVars, ownVars, net, diVars, dsVars, ServerTypes
  <2>3. ASSUME NEW q \in Requests, Subscribing(q), ended'[q] = "open" PROVE Stays(q)
    BY <1>30, <1>1, <2>3 DEF Reroute, ServerOnly, clVars, ownVars, net, diVars, dsVars, Stays,
       ServerTypes, ClientTypes, TalkTypes
  <2>4. QED
    BY <2>1, <2>2, <2>3, CurrentStays
<1>31. QED
  BY <1>2, <1>3, <1>4, <1>5, <1>6, <1>7, <1>8, <1>9, <1>10, <1>11, <1>12, <1>13, <1>14,
     <1>15, <1>16, <1>17, <1>18, <1>19, <1>20, <1>21, <1>22, <1>23, <1>24, <1>25, <1>26,
     <1>27, <1>28, <1>29, <1>30, Steps
-------------------------------------------------------------------------------
(* The theorems *)

\* At first nothing is under way, and no request has been begun with.
LEMMA ConversationInit ==
    ASSUME CVAssumption, Init
    PROVE  ConversationInv
<1>1. CL!New /\ WS!Unopened /\ DS!Fresh /\ focus \in Focuses /\ daemon \in {"up", "down"}
      /\ chunks = [r \in Requests |-> 0]
  BY DEF Init
<1>2. DispatchInv
  BY DispatchInit
<1>3. 0 \in Values /\ MaxChunks \in Nat /\ MaxStarts \in Nat
  BY Constants DEF Values
<1>4. ClientTypes
  BY <1>1, <1>3 DEF ClientTypes, CL!New
<1>5. TalkTypes
  BY <1>1, <1>3 DEF TalkTypes, CL!New, WS!Unopened
<1>6. ServerTypes
  BY <1>1, <1>3 DEF ServerTypes, WS!Unopened, DS!Fresh
<1>7. SentInv
  BY <1>1 DEF SentInv, CL!New, WS!Unopened
<1>8. EndsInv
  BY <1>1 DEF EndsInv, FlowInv, FinishInv, CL!OneEnd, CL!New, WS!Unopened
<1>9. KnowsInv
  BY <1>1 DEF KnowsInv, WS!SourcesKnowOfClose, WS!Unopened
<1>10. TopicsInv
  BY <1>1 DEF TopicsInv, DS!WatchesFollowSubscribers, DS!Fresh
<1>11. CurrentInv
  BY <1>1 DEF CurrentInv, Subscribing, WS!Unopened
<1>12. QED
  BY <1>2, <1>4, <1>5, <1>6, <1>7, <1>8, <1>9, <1>10, <1>11 DEF ConversationInv

\* Every step of the client, of the server, of the connection between them and of what
\* happens to the data and the routes keeps the invariant.
LEMMA ConversationStep ==
    ASSUME CVAssumption, ConversationInv, [Next]_vars
    PROVE  ConversationInv'
<1>1. /\ DispatchInv /\ ClientTypes /\ TalkTypes /\ ServerTypes /\ SentInv
      /\ EndsInv /\ KnowsInv /\ TopicsInv /\ CurrentInv /\ FlowInv /\ DispatchTypes
  BY DEF ConversationInv, EndsInv, DispatchInv
<1>2. DispatchInv'
  BY <1>1, DispatchStep
<1>3. ClientTypes'
  BY <1>1, ClientTypesKept
<1>4. TalkTypes'
  BY <1>1, TalkTypesKept
<1>5. ServerTypes'
  BY <1>1, ServerTypesKept
<1>6. SentInv'
  BY <1>1, SentKept
<1>7. EndsInv'
  BY <1>1, EndsKept
<1>8. KnowsInv'
  BY <1>1, KnowsKept
<1>9. TopicsInv'
  BY <1>1, TopicsKept
<1>10. CurrentInv'
  BY <1>1, CurrentKept
<1>11. QED
  BY <1>2, <1>3, <1>4, <1>5, <1>6, <1>7, <1>8, <1>9, <1>10 DEF ConversationInv

\* The invariant holds always, of any number of requests and sockets, whatever the
\* routes, the topics and the bounds on changes, starts and chunks are.
LEMMA ConversationHolds == Spec => []ConversationInv
<1>1. Init => ConversationInv
  BY ConversationInit, CVAssumption
<1>2. ConversationInv /\ [Next]_vars => ConversationInv'
  BY ConversationStep, CVAssumption
<1>3. QED
  BY <1>1, <1>2, PTL DEF Spec

\* Each requester hears of one end of its answer at most, and of no response after it,
\* however responses, errors and the ends of connections come in between; and every
\* variable has its type.
THEOREM RequestsEndOnce == Spec => []OneEnd
<1>1. ConversationInv => OneEnd
  <2> SUFFICES ASSUME ConversationInv PROVE OneEnd
    OBVIOUS
  <2>1. DispatchTypes /\ ClientTypes /\ TalkTypes /\ ServerTypes /\ CL!OneEnd
    BY DEF ConversationInv, DispatchInv, EndsInv
  <2>2. CVTypeOK
    BY <2>1 DEF CVTypeOK, ClientTypes
  <2>3. \A r \in Requests : CL!Range(heard[r]) \subseteq {"response", "finish", "error", "close"}
    <3>1. ASSUME NEW r \in Requests
          PROVE  \A i \in DOMAIN heard[r] : heard[r][i] \in {"response", "finish", "error", "close"}
      <4>1. heard[r] \in Seq({"response", "finish", "error", "close"})
        BY <2>1 DEF TalkTypes
      <4>2. QED
        BY <4>1, ElementOfSeq
    <3>2. QED
      BY <3>1 DEF CL!Range
  <2>4. CL!CLTypeOK
    BY <2>1, <2>3 DEF CL!CLTypeOK, ClientTypes
  <2>5. WS!WSTypeOK
    <3>1. ASSUME NEW s \in Sockets, NEW i \in 1..Len(down[s]) PROVE down[s][i] \in Responses
      BY <2>1 DEF TalkTypes
    <3>2. QED
      BY <2>1, <3>1 DEF WS!WSTypeOK, ServerTypes, Responses, Statuses
  <2>6. DI!DITypeOK
    BY <2>1 DEF DI!DITypeOK, DispatchTypes
  <2>7. DS!DSTypeOK
    <3>1. ASSUME NEW r \in Requests, NEW i \in 1..Len(queue[r]) PROVE queue[r][i] \in Packets
      BY <2>1 DEF ServerTypes
    <3>2. QED
      BY <2>1, <3>1 DEF DS!DSTypeOK, ServerTypes, Packets, Values
  <2>8. QED
    BY <2>1, <2>2, <2>4, <2>5, <2>6, <2>7 DEF OneEnd, TypeOK
<1>2. QED
  BY <1>1, ConversationHolds, PTL

\* gawk watches exactly the topics that have subscribers, and no source of a stream that
\* was told of the end of its websocket goes on.
THEOREM SourcesFollowSockets == Spec => []SourcesFollow
<1>1. ConversationInv => SourcesFollow
  BY DEF ConversationInv, TopicsInv, KnowsInv, SourcesFollow
<1>2. QED
  BY <1>1, ConversationHolds, PTL

\* A subscriber that is connected, and that nothing is on its way to, has the latest
\* data: no change is lost between the data, its stream, its socket and its handler.
THEOREM SubscribersHaveLatest == Spec => []SubscribersAreCurrent
<1>1. ConversationInv => SubscribersAreCurrent
  <2> SUFFICES ASSUME ConversationInv, NEW r \in Requests,
                      session[r] = "reading", Reached(r, "subscribe"), ended[r] = "open",
                      link[over[r]] = "open", down[over[r]] = <<>>, queue[r] = <<>>, handler[r] # "none"
               PROVE  latest[r] = DS!Get(Filter[r])
    BY DEF SubscribersAreCurrent
  <2>1. Current(r)
    BY DEF ConversationInv, CurrentInv, Subscribing
  <2>2. ~LastOf(down[over[r]], r, Newest(r))
    BY EmptySeq DEF LastOf
  <2>3. QED
    BY <2>1, <2>2 DEF Current, Newest
<1>2. QED
  BY <1>1, ConversationHolds, PTL
=============================================================================
