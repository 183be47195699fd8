--------------------------- MODULE PluginRegistryProofs ---------------------------
(***************************************************************************)
(* Theorems about PluginRegistry, for any directories, any plugins, any    *)
(* number of changes and calls and of functions under way.                 *)
(*                                                                         *)
(* RoutesCorrect: in whatever order 'added' and 'removed' are dealt with,  *)
(* and however often for the same plugin, a namespace keeps one route      *)
(* while it has a version and none otherwise (Kept).                       *)
(*                                                                         *)
(* RegistryCorrect: the registry comes to hold what is on disk.  The       *)
(* invariant says of each directory what the manager has of it (Each), and *)
(* which phase of its work the program is in (Phase): at rest, where the   *)
(* scheme watches what it covers, holds what it found and has shown it to  *)
(* the manager; or with one task that handles the change of a directory,   *)
(* or destroys, has destroyed or creates a scheme, which says what is left *)
(* of the task and what that will still show or take away.  Only the       *)
(* scheme of the registered path is alive meanwhile (OthersDead).          *)
(***************************************************************************)
EXTENDS PluginRegistry, FiniteSetTheorems, SequenceTheorems, WellFoundedInduction, TLAPS

\* What the namespaces of the manager are like in every state: m is a record whose
\* versions and routes are functions on the names.  No more of its type is needed,
\* nor anything about the tasks: the handlers keep a namespace whole whatever
\* directory and plugin they are called with.
Whole(m) ==
    /\ DOMAIN m = {"registry", "registered", "versions", "routes"}
    /\ m = [f \in DOMAIN m |-> m[f]]
    /\ DOMAIN m.versions = Names /\ m.versions = [n \in Names |-> m.versions[n]]
    /\ DOMAIN m.routes = Names /\ m.routes = [n \in Names |-> m.routes[n]]

Matching(m) ==
    \A n \in Names :
      /\ m.routes[n] = IF m.versions[n] = {} THEN 0 ELSE 1
      /\ \A v, w \in m.versions[n] : v.plugin.version = w.plugin.version => v = w

Kept(m) == Whole(m) /\ Matching(m)

\* A record in which only the registry or the list of registered plugins differs.
LEMMA ListsDoNotMatter ==
    ASSUME NEW m, NEW k, Kept(m), DOMAIN k = DOMAIN m, k = [f \in DOMAIN k |-> k[f]],
           k.versions = m.versions, k.routes = m.routes
    PROVE  Kept(k)
BY DEF Kept, Whole, Matching

LEMMA RegisterKeeps ==
    ASSUME NEW m, NEW d, NEW p, Kept(m)
    PROVE  Kept(Register(m, d, p))
<1>1. m = [f \in DOMAIN m |-> m[f]] /\ DOMAIN m = {"registry", "registered", "versions", "routes"}
  BY DEF Kept, Whole
<1> DEFINE k == Register(m, d, p)
<1>2. DOMAIN k = DOMAIN m /\ k = [f \in DOMAIN k |-> k[f]]
  BY <1>1 DEF Register
<1>3. k.versions = m.versions /\ k.routes = m.routes
  BY <1>1 DEF Register
<1> HIDE DEF k
<1>4. Kept(k)
  BY <1>2, <1>3, ListsDoNotMatter
<1>5. QED
  BY <1>4 DEF k

LEMMA GoneKeeps ==
    ASSUME NEW m, NEW d, Kept(m)
    PROVE  Kept([m EXCEPT !.registry[d] = None])
<1>1. m = [f \in DOMAIN m |-> m[f]] /\ DOMAIN m = {"registry", "registered", "versions", "routes"}
  BY DEF Kept, Whole
<1> DEFINE k == [m EXCEPT !.registry[d] = None]
<1>2. DOMAIN k = DOMAIN m /\ k = [f \in DOMAIN k |-> k[f]]
  BY <1>1
<1>3. k.versions = m.versions /\ k.routes = m.routes
  BY <1>1
<1> HIDE DEF k
<1>4. Kept(k)
  BY <1>2, <1>3, ListsDoNotMatter
<1>5. QED
  BY <1>4 DEF k

\* A namespace gets a version: the one of the same number makes room for it, and the
\* route comes with the first.
LEMMA NameKeeps ==
    ASSUME NEW m, NEW d, NEW p, Kept(m)
    PROVE  Kept(Name(m, d, p))
<1> DEFINE others == {v \in m.versions[p.name] : v.plugin.version # p.version}
           new == [dir |-> d, plugin |-> p]
           k == Name(m, d, p)
<1> SUFFICES ASSUME p.supported PROVE Kept(Name(m, d, p))
  BY DEF Name
<1>1. /\ DOMAIN m = {"registry", "registered", "versions", "routes"}
      /\ m = [f \in DOMAIN m |-> m[f]]
      /\ DOMAIN m.versions = Names /\ DOMAIN m.routes = Names
  BY DEF Kept, Whole
<1>2. /\ DOMAIN k = DOMAIN m
      /\ k = [f \in DOMAIN k |-> k[f]]
      /\ k.versions = [m.versions EXCEPT ![p.name] = others \cup {new}]
      /\ k.routes = [m.routes EXCEPT ![p.name] =
                       IF m.versions[p.name] = {} THEN @ + 1 ELSE @]
  BY <1>1 DEF Name
<1> HIDE DEF k
<1>3. Whole(k)
  BY <1>1, <1>2 DEF Whole
<1>4. ASSUME NEW n \in Names
      PROVE  /\ k.routes[n] = IF k.versions[n] = {} THEN 0 ELSE 1
             /\ \A v, w \in k.versions[n] : v.plugin.version = w.plugin.version => v = w
  <2>1. /\ m.routes[n] = IF m.versions[n] = {} THEN 0 ELSE 1
        /\ \A v, w \in m.versions[n] : v.plugin.version = w.plugin.version => v = w
    BY DEF Kept, Matching
  <2>2. CASE n # p.name
    <3>1. k.versions[n] = m.versions[n] /\ k.routes[n] = m.routes[n]
      BY <1>1, <1>2, <2>2
    <3>2. QED
      BY <2>1, <3>1
  <2>3. CASE n = p.name
    <3>1. k.versions[n] = others \cup {new}
      BY <1>1, <1>2, <2>3
    <3>2. k.routes[n] = IF m.versions[n] = {} THEN m.routes[n] + 1 ELSE m.routes[n]
      BY <1>1, <1>2, <2>3
    <3>3. k.routes[n] = 1
      BY <2>1, <3>2
    <3>4. new \in k.versions[n]
      BY <3>1
    <3>5. new.plugin.version = p.version
      OBVIOUS
    <3>6. \A v, w \in k.versions[n] : v.plugin.version = w.plugin.version => v = w
      BY <2>1, <2>3, <3>1, <3>5
    <3>7. QED
      BY <3>3, <3>4, <3>6
  <2>4. QED
    BY <2>2, <2>3
<1>5. Kept(k)
  BY <1>3, <1>4 DEF Kept, Matching
<1>6. QED
  BY <1>5 DEF k

\* A namespace loses a version, or has lost it before: the route goes with the last.
LEMMA UnlistKeeps ==
    ASSUME NEW m, NEW d, NEW p, Kept(m)
    PROVE  Kept(Unlist(m, d, p))
<1> DEFINE left == {v \in m.versions[p.name] : v.plugin.version # p.version}
           k == Unlist(m, d, p)
<1>1. /\ DOMAIN m = {"registry", "registered", "versions", "routes"}
      /\ m = [f \in DOMAIN m |-> m[f]]
      /\ DOMAIN m.versions = Names /\ DOMAIN m.routes = Names
  BY DEF Kept, Whole
<1>2. /\ DOMAIN k = DOMAIN m
      /\ k = [f \in DOMAIN k |-> k[f]]
      /\ k.versions = [m.versions EXCEPT ![p.name] = left]
      /\ k.routes = [m.routes EXCEPT ![p.name] =
                       IF left = {} /\ m.versions[p.name] # {} THEN @ - 1 ELSE @]
  BY <1>1 DEF Unlist
<1> HIDE DEF k
<1>3. Whole(k)
  BY <1>1, <1>2 DEF Whole
<1>4. ASSUME NEW n \in Names
      PROVE  /\ k.routes[n] = IF k.versions[n] = {} THEN 0 ELSE 1
             /\ \A v, w \in k.versions[n] : v.plugin.version = w.plugin.version => v = w
  <2>1. /\ m.routes[n] = IF m.versions[n] = {} THEN 0 ELSE 1
        /\ \A v, w \in m.versions[n] : v.plugin.version = w.plugin.version => v = w
    BY DEF Kept, Matching
  <2>2. CASE n # p.name
    <3>1. k.versions[n] = m.versions[n] /\ k.routes[n] = m.routes[n]
      BY <1>1, <1>2, <2>2
    <3>2. QED
      BY <2>1, <3>1
  <2>3. CASE n = p.name
    <3>1. k.versions[n] = left /\ left \subseteq m.versions[n]
      BY <1>1, <1>2, <2>3
    <3>2. k.routes[n] = IF left = {} /\ m.versions[n] # {} THEN m.routes[n] - 1 ELSE m.routes[n]
      BY <1>1, <1>2, <2>3
    <3>3. k.routes[n] = IF left = {} THEN 0 ELSE 1
      <4> HIDE DEF left
      <4> QED BY <2>1, <3>1, <3>2
    <3>4. QED
      BY <2>1, <3>1, <3>3
  <2>4. QED
    BY <2>2, <2>3
<1>5. Kept(k)
  BY <1>3, <1>4 DEF Kept, Matching
<1>6. QED
  BY <1>5 DEF k

\* The only steps that touch the manager are those of 'added' and 'removed'.
LEMMA StepKeeps ==
    ASSUME Kept(mgr), Step
    PROVE  Kept(mgr)'
<1>1. PICK t \in TaskIds, x \in Dirs \cup {Main} :
        \/ StepStop(t, x) \/ StepRemoved(t, x) \/ StepUnloaded(t, x)
        \/ StepAdded(t, x) \/ StepLoaded(t, x) \/ StepRefused(t, x) \/ StepHold(t, x)
        \/ StepKeepOrDrop(t, x) \/ StepRedetect(t, x) \/ StepWatch(t, x)
        \/ StepDestroyed(t, x) \/ StepCreate(t, x) \/ StepForget(t, x)
  BY DEF Step
<1> SUFFICES Kept(mgr')
  BY DEF Kept, Whole, Matching
<1>2. CASE StepRemoved(t, x)
  <2> DEFINE gone == [mgr EXCEPT !.registry[Now(t, x).d] = None]
  <2>1. Kept(gone)
    BY GoneKeeps
  <2>2. mgr' = gone \/ mgr' = Unlist(gone, Now(t, x).d, Now(t, x).p)
    BY <1>2 DEF StepRemoved
  <2> HIDE DEF gone
  <2>3. QED
    BY <2>1, <2>2, UnlistKeeps
<1>3. CASE StepUnloaded(t, x)
  BY <1>3, UnlistKeeps DEF StepUnloaded
<1>4. CASE StepAdded(t, x)
  <2> DEFINE listed == Register(mgr, Now(t, x).d, Now(t, x).p)
  <2>1. Kept(listed)
    BY RegisterKeeps
  <2>2. mgr' = mgr \/ mgr' = listed \/ mgr' = Name(listed, Now(t, x).d, Now(t, x).p)
    BY <1>4 DEF StepAdded
  <2> HIDE DEF listed
  <2>3. QED
    BY <2>1, <2>2, NameKeeps
<1>5. CASE StepLoaded(t, x)
  BY <1>5, NameKeeps DEF StepLoaded
<1>6. CASE \/ StepStop(t, x) \/ StepRefused(t, x) \/ StepHold(t, x) \/ StepKeepOrDrop(t, x)
           \/ StepRedetect(t, x) \/ StepWatch(t, x) \/ StepDestroyed(t, x) \/ StepCreate(t, x)
           \/ StepForget(t, x)
  <2>1. mgr' = mgr
    BY <1>6 DEF StepStop, StepRefused, StepHold, StepKeepOrDrop, StepRedetect, StepWatch, StepDestroyed,
                StepCreate, StepForget
  <2>2. QED
    BY <2>1
<1>7. QED
  BY <1>1, <1>2, <1>3, <1>4, <1>5, <1>6

LEMMA InitKeeps == Init => Kept(mgr)
BY DEF Init, Kept, Whole, Matching

LEMMA NextKeeps == Kept(mgr) /\ [Next]_vars => Kept(mgr)'
<1> SUFFICES ASSUME Kept(mgr), [Next]_vars PROVE Kept(mgr)'
  OBVIOUS
<1>1. CASE Step
  BY <1>1, StepKeeps
<1>2. CASE ~Step
  <2>1. mgr' = mgr
    BY <1>2 DEF Next, vars, RegisterPluginPath, UnregisterPluginPath, AutoStart, Dispatch,
                StopPlugins, Change, Deliver, Redetect
  <2>2. QED
    BY <2>1 DEF Kept, Whole, Matching
<1>3. QED
  BY <1>1, <1>2

\* The route of a namespace is there exactly while the namespace has a version, once,
\* and a version is listed once: for every file system, every order of events and
\* calls, and however many functions are under way (plugin-manager.js:291-373, 403-411).
THEOREM RoutesCorrect == Spec => []RoutesMatchVersions
<1>1. Kept(mgr) => RoutesMatchVersions
  BY DEF Kept, Matching, RoutesMatchVersions
<1>2. QED
  BY InitKeeps, NextKeeps, <1>1, PTL DEF Spec

-------------------------------------------------------------------------------
(* Numbers and sequences *)

\* A set of numbers has a least one.
LEMMA LeastNumber ==
    ASSUME NEW S \in SUBSET Nat, S # {}
    PROVE  \E x \in S : \A y \in S : x <= y
<1> DEFINE R == {ss \in Nat \X Nat : ss[1] < ss[2]}
<1>1. IsWellFoundedOn(R, Nat)
  BY NatLessThanWellFounded DEF OpToRel
<1> HIDE DEF R
<1>2. PICK x \in S : \A y \in S : <<y, x>> \notin R
  BY <1>1, WFMin
<1>3. ASSUME NEW y \in S PROVE x <= y
  <2>1. y \in Nat /\ x \in Nat /\ <<y, x>> \notin R
    BY <1>2
  <2>2. ~(y < x)
    BY <2>1 DEF R
  <2>3. QED
    BY <2>1, <2>2
<1>4. QED
  BY <1>2, <1>3

\* Induction: what holds of 0, and of the successor of what it holds of, holds.
LEMMA Induction ==
    ASSUME NEW P, 0 \in P, \A n \in Nat : n \in P => n + 1 \in P
    PROVE  \A n \in Nat : n \in P
<1> SUFFICES ASSUME Nat \ P # {} PROVE FALSE
  OBVIOUS
<1>1. PICK x \in Nat \ P : \A y \in Nat \ P : x <= y
  BY LeastNumber
<1>2. x # 0 /\ x - 1 \in Nat
  BY <1>1
<1>3. x - 1 \in P
  BY <1>1, <1>2
<1>4. QED
  BY <1>1, <1>2, <1>3

-------------------------------------------------------------------------------
(* Sequences *)

\* flat[i] is the first i sequences of ss, one after the other.
IsFlat(flat, ss) ==
    flat = [i \in 1..Len(ss) |-> IF i = 1 THEN ss[i] ELSE flat[i-1] \o ss[i]]

LEMMA FlatExists ==
    ASSUME NEW ss, Len(ss) \in Nat
    PROVE  \E flat : IsFlat(flat, ss)
<1> DEFINE Next1(f, i) == IF i = 1 THEN ss[i] ELSE f[i-1] \o ss[i]
           P == {n \in Nat : \E f : f = [i \in 1..n |-> Next1(f, i)]}
<1>1. 0 \in P
  <2>1. <<>> = [i \in 1..0 |-> Next1(<<>>, i)]
    OBVIOUS
  <2>2. QED
    BY <2>1
<1>2. ASSUME NEW n \in Nat, n \in P PROVE n + 1 \in P
  <2>1. PICK f : f = [i \in 1..n |-> Next1(f, i)]
    BY <1>2
  <2> DEFINE h == [i \in 1..n+1 |-> IF i = n + 1 THEN Next1(f, i) ELSE f[i]]
             k == [i \in 1..n+1 |-> Next1(h, i)]
  <2>2. ASSUME NEW i \in 1..n+1 PROVE h[i] = Next1(h, i)
    <3>1. CASE i = 1
      BY <2>1, <3>1
    <3>2. CASE i # 1
      <4>1. i - 1 \in 1..n+1 /\ i - 1 # n + 1
        BY <3>2
      <4>2. h[i-1] = f[i-1]
        BY <4>1
      <4>3. h[i] = Next1(f, i)
        <5>1. CASE i = n + 1
          BY <5>1
        <5>2. CASE i # n + 1
          <6>1. i \in 1..n /\ h[i] = f[i]
            BY <5>2
          <6> HIDE DEF h, k
          <6>2. f[i] = Next1(f, i)
            BY <2>1, <6>1
          <6>3. QED
            BY <6>1, <6>2
        <5>3. QED
          BY <5>1, <5>2
      <4> HIDE DEF h
      <4>4. QED
        BY <3>2, <4>2, <4>3
    <3>3. QED
      BY <3>1, <3>2
  <2>3. DOMAIN h = 1..n+1 /\ DOMAIN k = 1..n+1 /\ \A i \in 1..n+1 : h[i] = k[i]
    BY <2>2
  <2>4. h = [i \in 1..n+1 |-> h[i]] /\ k = [i \in 1..n+1 |-> k[i]]
    OBVIOUS
  <2> HIDE DEF h, Next1
  <2>5. h = k
    <3> HIDE DEF k
    <3>1. QED
      BY <2>3, <2>4
  <2>6. QED
    BY <2>5
<1> HIDE DEF P
<1>3. Len(ss) \in P
  BY <1>1, <1>2, Induction
<1>4. PICK f : f = [i \in 1..Len(ss) |-> Next1(f, i)]
  BY <1>3 DEF P
<1>5. QED
  BY <1>4 DEF IsFlat

\* What FlattenSeq() is, and what it computes step by step.
LEMMA Flattened ==
    ASSUME NEW ss, Len(ss) \in Nat, Len(ss) # 0
    PROVE  \E flat : /\ FlattenSeq(ss) = flat[Len(ss)] /\ flat[1] = ss[1]
                     /\ \A i \in 2..Len(ss) : flat[i] = flat[i-1] \o ss[i]
<1> DEFINE flat == CHOOSE f : IsFlat(f, ss)
<1>1. FlattenSeq(ss) = flat[Len(ss)]
  BY DEF FlattenSeq, IsFlat
<1>2. IsFlat(flat, ss)
  BY FlatExists
<1> HIDE DEF flat
<1>3. \A i \in 1..Len(ss) : flat[i] = IF i = 1 THEN ss[i] ELSE flat[i-1] \o ss[i]
  <2> DEFINE F(f, i) == IF i = 1 THEN ss[i] ELSE f[i-1] \o ss[i]
  <2>1. flat = [i \in 1..Len(ss) |-> F(flat, i)]
    BY <1>2 DEF IsFlat
  <2> HIDE DEF F
  <2>2. \A i \in 1..Len(ss) : flat[i] = F(flat, i)
    BY <2>1
  <2>3. QED
    BY <2>2 DEF F
<1>4. flat[1] = ss[1]
  BY <1>3
<1>5. ASSUME NEW i \in 2..Len(ss) PROVE flat[i] = flat[i-1] \o ss[i]
  <2>1. i \in 1..Len(ss) /\ i # 1
    OBVIOUS
  <2>2. QED
    BY <1>3, <2>1
<1>6. QED
  BY <1>1, <1>4, <1>5

LEMMA FlattenType ==
    ASSUME NEW S, NEW ss \in Seq(Seq(S))
    PROVE  FlattenSeq(ss) \in Seq(S)
<1>1. CASE Len(ss) = 0
  BY <1>1, EmptySeq DEF FlattenSeq
<1>2. CASE Len(ss) # 0
  <2>1. Len(ss) \in Nat /\ \A i \in 1..Len(ss) : ss[i] \in Seq(S)
    OBVIOUS
  <2>2. PICK flat : /\ FlattenSeq(ss) = flat[Len(ss)] /\ flat[1] = ss[1]
                    /\ \A i \in 2..Len(ss) : flat[i] = flat[i-1] \o ss[i]
    BY <1>2, <2>1, Flattened
  <2> DEFINE P == {n \in Nat : n \in 1..Len(ss) => flat[n] \in Seq(S)}
  <2>3. 0 \in P
    OBVIOUS
  <2>4. ASSUME NEW n \in Nat, n \in P PROVE n + 1 \in P
    <3> SUFFICES ASSUME n + 1 \in 1..Len(ss) PROVE flat[n+1] \in Seq(S)
      OBVIOUS
    <3>1. CASE n = 0
      BY <2>1, <2>2, <3>1
    <3>2. CASE n # 0
      <4>1. n \in 1..Len(ss) /\ n + 1 \in 2..Len(ss) /\ (n + 1) - 1 = n
        BY <2>1, <3>2
      <4>2. flat[n] \in Seq(S) /\ ss[n+1] \in Seq(S) /\ flat[n+1] = flat[n] \o ss[n+1]
        BY <2>1, <2>2, <2>4, <4>1
      <4>3. QED
        BY <4>2, ConcatProperties
    <3>3. QED
      BY <3>1, <3>2
  <2> HIDE DEF P
  <2>5. Len(ss) \in P
    BY <2>1, <2>3, <2>4, Induction
  <2>6. QED
    BY <1>2, <2>1, <2>2, <2>5 DEF P
<1>3. QED
  BY <1>1, <1>2

\* Where only one of the sequences is not empty, it is the result.
LEMMA FlattenOne ==
    ASSUME NEW S, NEW ss \in Seq(Seq(S)), NEW c \in 0..Len(ss),
           \A i \in 1..Len(ss) : i # c => ss[i] = <<>>
    PROVE  FlattenSeq(ss) = IF c = 0 THEN <<>> ELSE ss[c]
<1>1. CASE Len(ss) = 0
  BY <1>1 DEF FlattenSeq
<1>2. CASE Len(ss) # 0
  <2>1. Len(ss) \in Nat /\ \A i \in 1..Len(ss) : ss[i] \in Seq(S)
    OBVIOUS
  <2>2. PICK flat : /\ FlattenSeq(ss) = flat[Len(ss)] /\ flat[1] = ss[1]
                    /\ \A i \in 2..Len(ss) : flat[i] = flat[i-1] \o ss[i]
    BY <1>2, <2>1, Flattened
  <2> DEFINE Upto(n) == IF c = 0 \/ n < c THEN <<>> ELSE ss[c]
             P == {n \in Nat : n \in 1..Len(ss) => flat[n] = Upto(n)}
  <2>3. 0 \in P
    OBVIOUS
  <2>4. ASSUME NEW n \in Nat, n \in P PROVE n + 1 \in P
    <3> SUFFICES ASSUME n + 1 \in 1..Len(ss) PROVE flat[n+1] = Upto(n+1)
      OBVIOUS
    <3>1. CASE n = 0
      <4>1. CASE c = 1
        BY <2>2, <3>1, <4>1
      <4>2. CASE c # 1
        BY <2>1, <2>2, <3>1, <4>2
      <4>3. QED
        BY <4>1, <4>2
    <3>2. CASE n # 0
      <4>1. n \in 1..Len(ss) /\ n + 1 \in 2..Len(ss) /\ (n + 1) - 1 = n
        BY <2>1, <3>2
      <4>2. flat[n] = Upto(n) /\ ss[n+1] \in Seq(S) /\ flat[n+1] = flat[n] \o ss[n+1]
        BY <2>1, <2>2, <2>4, <4>1
      <4>3. CASE n + 1 = c
        <5>1. flat[n] = <<>> /\ Upto(n+1) = ss[n+1]
          BY <2>1, <4>2, <4>3
        <5>2. QED
          BY <4>2, <5>1, ConcatEmptySeq
      <4>4. CASE n + 1 # c
        <5>1. ss[n+1] = <<>> /\ Upto(n+1) = Upto(n)
          BY <2>1, <4>4
        <5>2. Upto(n) \in Seq(S)
          BY <2>1, <4>1, EmptySeq
        <5>3. QED
          BY <4>2, <5>1, <5>2, ConcatEmptySeq
      <4>5. QED
        BY <4>3, <4>4
    <3>3. QED
      BY <3>1, <3>2
  <2> HIDE DEF P
  <2>5. Len(ss) \in P
    BY <2>1, <2>3, <2>4, Induction
  <2>6. flat[Len(ss)] = Upto(Len(ss))
    BY <1>2, <2>1, <2>5 DEF P
  <2>7. QED
    BY <2>1, <2>2, <2>6
<1>3. QED
  BY <1>1, <1>2

-------------------------------------------------------------------------------
(* The type of every variable, in every state *)

Acts == {"add", "change", "delete", "other"}
Held == Plugins \cup {None}
Strands == Dirs \cup {Main}

\* What is left of a task, when there are n instances of PluginPath and m schemes.
Steps(n, m) ==
    [do : {"stop", "removed", "unloaded", "added", "loaded"}, s : 1..m, d : Dirs, p : Plugins]
    \cup [do : {"hold"}, s : 1..m, d : Dirs, p : Held]
    \cup [do : {"keep", "drop", "redetect", "watch"}, s : 1..m, d : Dirs, p : {None}]
    \cup [do : {"destroyed"}, i : 1..n]
    \cup [do : {"create"}, i : 1..n, kind : 0..3]
    \cup [do : {"forget"}]
InstType(m) == [scheme : 0..m, redetect : 0..m]
SchemeType(n) == [owner : 1..n, kind : 0..3, kids : SUBSET Dirs, top : BOOLEAN,
                  open : SUBSET Dirs, held : [Dirs -> Held], timer : BOOLEAN, up : Nat]
EventType(m) == [s : 1..m, at : {"top", "kid"}, d : Dirs, act : Acts]
MgrType == [registry : [Dirs -> Held], registered : [Dirs -> Seq(Plugins)],
            versions : [Names -> SUBSET Instances], routes : [Names -> Int]]
TasksType(n, m) == [TaskIds -> [Strands -> Seq(Steps(n, m))]]

Types ==
    /\ disk \in [Dirs -> Held]
    /\ pluginPath \in 0..Len(insts)
    /\ insts \in Seq(InstType(Len(schemes)))
    /\ schemes \in Seq(SchemeType(Len(insts)))
    /\ events \in Seq(EventType(Len(schemes)))
    /\ tasks \in TasksType(Len(insts), Len(schemes))
    /\ mgr \in MgrType
    /\ running \in SUBSET Instances
    /\ refused \in BOOLEAN
    /\ races \in 0..MaxRaces

LEMMA TypesSaid ==
    ASSUME Types, Kept(mgr)
    PROVE  TypeOK
<1>1. mgr.routes \in [Names -> Nat]
  <2>1. \A n \in Names : mgr.routes[n] \in Nat
    BY DEF Kept, Matching
  <2>2. mgr.routes \in [Names -> Int]
    BY DEF Types, MgrType
  <2>3. QED
    BY <2>1, <2>2
<1>2. \A i \in 1..Len(insts) : insts[i] \in InstType(Len(schemes))
  BY ElementOfSeq DEF Types
<1>3. \A s \in 1..Len(schemes) : schemes[s] \in SchemeType(Len(insts))
  BY ElementOfSeq DEF Types
<1>4. mgr.registry \in [Dirs -> Held] /\ mgr.registered \in [Dirs -> Seq(Plugins)]
      /\ mgr.versions \in [Names -> SUBSET Instances]
  BY DEF Types, MgrType
<1>5. QED
  BY <1>1, <1>2, <1>3, <1>4 DEF Types, TypeOK, InstType, SchemeType, Held

LEMMA More ==
    ASSUME NEW n \in Nat, NEW m \in Nat, NEW nn \in Nat, NEW mm \in Nat, n <= nn, m <= mm
    PROVE  /\ Steps(n, m) \subseteq Steps(nn, mm) /\ InstType(m) \subseteq InstType(mm)
           /\ SchemeType(n) \subseteq SchemeType(nn) /\ EventType(m) \subseteq EventType(mm)
<1>1. 1..n \subseteq 1..nn /\ 1..m \subseteq 1..mm /\ 0..m \subseteq 0..mm
  OBVIOUS
<1>2. InstType(m) \subseteq InstType(mm) /\ SchemeType(n) \subseteq SchemeType(nn)
      /\ EventType(m) \subseteq EventType(mm)
  BY <1>1 DEF InstType, SchemeType, EventType
<1>3. Steps(n, m) \subseteq Steps(nn, mm)
  BY <1>1 DEF Steps
<1>4. QED
  BY <1>2, <1>3

LEMMA MoreTasks ==
    ASSUME NEW n \in Nat, NEW m \in Nat, NEW nn \in Nat, NEW mm \in Nat, n <= nn, m <= mm
    PROVE  TasksType(n, m) \subseteq TasksType(nn, mm)
<1>1. Steps(n, m) \subseteq Steps(nn, mm)
  BY More
<1>2. Seq(Steps(n, m)) \subseteq Seq(Steps(nn, mm))
  BY <1>1, SeqMonotonic
<1>3. QED
  BY <1>2 DEF TasksType

LEMMA StepFields ==
    ASSUME NEW n \in Nat, NEW m \in Nat, NEW h \in Steps(n, m)
    PROVE  /\ h.do \in {"stop", "removed", "unloaded", "added", "loaded"} =>
                h.s \in 1..m /\ h.d \in Dirs /\ h.p \in Plugins
           /\ h.do = "hold" => h.s \in 1..m /\ h.d \in Dirs /\ h.p \in Held
           /\ h.do \in {"keep", "drop", "redetect", "watch"} => h.s \in 1..m /\ h.d \in Dirs
           /\ h.do = "destroyed" => h.i \in 1..n
           /\ h.do = "create" => h.i \in 1..n /\ h.kind \in 0..3
BY DEF Steps

LEMMA DoType ==
    ASSUME NEW n \in Nat, NEW m \in Nat, NEW s \in 1..m, NEW d \in Dirs
    PROVE  /\ \A p \in Plugins, do \in {"stop", "removed", "unloaded", "added", "loaded"} :
                Do(do, s, d, p) \in Steps(n, m)
           /\ \A p \in Held : Do("hold", s, d, p) \in Steps(n, m)
           /\ \A do \in {"keep", "drop", "redetect", "watch"} : Do(do, s, d, None) \in Steps(n, m)
BY DEF Do, Steps

LEMMA DeletionType ==
    ASSUME NEW n \in Nat, NEW m \in Nat, NEW s \in 1..m, NEW d \in Dirs, NEW p \in Plugins
    PROVE  Deletion(s, d, p) \in Seq(Steps(n, m))
<1>1. None \in Held
  BY DEF Held
<1>2. /\ Do("stop", s, d, p) \in Steps(n, m) /\ Do("removed", s, d, p) \in Steps(n, m)
      /\ Do("hold", s, d, None) \in Steps(n, m)
  BY <1>1, DoType
<1>3. QED
  BY <1>2 DEF Deletion

LEMMA Lengths == Types => Len(insts) \in Nat /\ Len(schemes) \in Nat
BY LenProperties DEF Types

\* The first step of a strand, and the rest of it.
LEMMA NowType ==
    ASSUME Types, NEW t \in TaskIds, NEW x \in Strands, tasks[t][x] # <<>>
    PROVE  /\ Now(t, x) \in Steps(Len(insts), Len(schemes))
           /\ Tail(tasks[t][x]) \in Seq(Steps(Len(insts), Len(schemes)))
<1>1. tasks[t][x] \in Seq(Steps(Len(insts), Len(schemes)))
  BY DEF Types, TasksType
<1>2. QED
  BY <1>1, HeadTailProperties DEF Now

LEMMA NowFields ==
    ASSUME Types, NEW t \in TaskIds, NEW x \in Strands, NEW do, Goes(t, x, do)
    PROVE  /\ do \in {"stop", "removed", "unloaded", "added", "loaded"} =>
                Now(t, x).s \in 1..Len(schemes) /\ Now(t, x).d \in Dirs /\ Now(t, x).p \in Plugins
           /\ do = "hold" =>
                Now(t, x).s \in 1..Len(schemes) /\ Now(t, x).d \in Dirs /\ Now(t, x).p \in Held
           /\ do \in {"keep", "drop", "redetect", "watch"} =>
                Now(t, x).s \in 1..Len(schemes) /\ Now(t, x).d \in Dirs
           /\ do = "destroyed" => Now(t, x).i \in 1..Len(insts)
           /\ do = "create" => Now(t, x).i \in 1..Len(insts) /\ Now(t, x).kind \in 0..3
<1>1. tasks[t][x] # <<>> /\ Now(t, x).do = do
  BY DEF Goes, Now
<1>2. Now(t, x) \in Steps(Len(insts), Len(schemes))
  BY <1>1, NowType
<1> DEFINE h == Now(t, x)
<1> HIDE DEF h
<1>3. h \in Steps(Len(insts), Len(schemes)) /\ h.do = do
  BY <1>1, <1>2 DEF h
<1>4. QED
  BY <1>3, StepFields, Lengths DEF h

\* The rest of a task when one strand has gone on.
LEMMA RestType ==
    ASSUME NEW n \in Nat, NEW m \in Nat, tasks \in TasksType(n, m),
           NEW t \in TaskIds, NEW x \in Strands, tasks[t][x] # <<>>,
           NEW more \in Seq(Steps(n, m)), Rest(t, x, more)
    PROVE  tasks' \in TasksType(n, m)
<1>1. tasks[t][x] \in Seq(Steps(n, m))
  BY DEF TasksType
<1>2. Tail(tasks[t][x]) \in Seq(Steps(n, m))
  BY <1>1, HeadTailProperties
<1>3. more \o Tail(tasks[t][x]) \in Seq(Steps(n, m))
  BY <1>2, ConcatProperties
<1>4. tasks' = [tasks EXCEPT ![t] = [tasks[t] EXCEPT ![x] = more \o Tail(tasks[t][x])]]
  BY DEF Rest
<1> DEFINE w == more \o Tail(tasks[t][x])
<1> HIDE DEF w
<1>5. QED
  BY <1>3, <1>4 DEF TasksType, w

LEMMA FreeTaskIs ==
    ASSUME FreeTasks # {}
    PROVE  FreeTask \in TaskIds /\ tasks[FreeTask] = Idle
<1>1. FreeTasks \in SUBSET Nat
  BY DEF FreeTasks, TaskIds
<1>2. \E x \in FreeTasks : \A y \in FreeTasks : x <= y
  BY <1>1, LeastNumber
<1>3. FreeTask \in FreeTasks
  BY <1>2 DEF FreeTask
<1>4. QED
  BY <1>3 DEF FreeTasks

LEMMA SpawnType ==
    ASSUME NEW n \in Nat, NEW m \in Nat, tasks \in TasksType(n, m), FreeTasks # {},
           NEW x \in Strands, NEW work \in Seq(Steps(n, m)), Spawn(x, work)
    PROVE  tasks' \in TasksType(n, m)
<1>1. FreeTask \in TaskIds
  BY FreeTaskIs
<1>2. QED
  BY <1>1 DEF TasksType, Spawn

\* The scheme that the plugin path calls for.
Covers(k) ==
    /\ k = 3 \/ \E d \in Dirs : Depth[d] = k /\ disk[d] # None
    /\ \A j \in 0..k-1 : \A d \in Dirs : Depth[d] = j => disk[d] = None

LEMMA SchemeDetected == DetectScheme \in 0..3 /\ Covers(DetectScheme)
<1> DEFINE Some(j) == \E d \in Dirs : Depth[d] = j /\ disk[d] # None
<1>1. \E k \in 0..3 : Covers(k)
  <2>1. CASE Some(0)
    <3>1. Covers(0)
      BY <2>1 DEF Covers
    <3>2. QED
      BY <3>1
  <2>2. CASE ~Some(0) /\ Some(1)
    <3>1. \A j \in 0..1-1 : j = 0
      OBVIOUS
    <3>2. Covers(1)
      BY <2>2, <3>1 DEF Covers
    <3>3. QED
      BY <3>2
  <2>3. CASE ~Some(0) /\ ~Some(1) /\ Some(2)
    <3>1. \A j \in 0..2-1 : j = 0 \/ j = 1
      OBVIOUS
    <3>2. Covers(2)
      BY <2>3, <3>1 DEF Covers
    <3>3. QED
      BY <3>2
  <2>4. CASE ~Some(0) /\ ~Some(1) /\ ~Some(2)
    <3>1. \A j \in 0..3-1 : j = 0 \/ j = 1 \/ j = 2
      OBVIOUS
    <3>2. Covers(3)
      BY <2>4, <3>1 DEF Covers
    <3>3. QED
      BY <3>2
  <2> HIDE DEF Some
  <2>5. QED
    BY <2>1, <2>2, <2>3, <2>4
<1>2. DetectScheme = CHOOSE k \in 0..3 : Covers(k)
  BY DEF DetectScheme, Covers
<1>3. QED
  BY <1>1, <1>2

LEMMA DetectType == \A k \in 0..3 : Detect(k) \subseteq Dirs
<1> SUFFICES ASSUME NEW k \in 0..3 PROVE Detect(k) \subseteq Dirs
  OBVIOUS
<1>1. k = 0 \/ k = 1 \/ k = 2 \/ k = 3
  OBVIOUS
<1>2. Root \in Dirs
  BY PRAssumption
<1>3. QED
  BY <1>1, <1>2 DEF Detect, DetectPlugin, DetectPluginsDir, DetectNested

-------------------------------------------------------------------------------
(* Every action keeps the types *)

LEMMA InstHas ==
    ASSUME Types, NEW i \in 1..Len(insts)
    PROVE  insts[i].scheme \in 0..Len(schemes) /\ insts[i].redetect \in 0..Len(schemes)
<1>1. insts[i] \in InstType(Len(schemes))
  BY ElementOfSeq DEF Types
<1>2. QED
  BY <1>1 DEF InstType

LEMMA SchemeHas ==
    ASSUME Types, NEW s \in 1..Len(schemes)
    PROVE  /\ schemes[s] \in SchemeType(Len(insts))
           /\ schemes[s].owner \in 1..Len(insts) /\ schemes[s].kind \in 0..3
           /\ schemes[s].kids \in SUBSET Dirs /\ schemes[s].open \in SUBSET Dirs
           /\ schemes[s].held \in [Dirs -> Held]
           /\ schemes[s].top \in BOOLEAN /\ schemes[s].timer \in BOOLEAN /\ schemes[s].up \in Nat
<1>1. schemes[s] \in SchemeType(Len(insts))
  BY ElementOfSeq DEF Types
<1>2. QED
  BY <1>1 DEF SchemeType

\* The tasks, the instances and the schemes after a scheme was destroyed.
LEMMA DestroyTypes ==
    ASSUME Types, NEW i \in 1..Len(insts), NEW t \in TaskIds,
           NEW then \in Seq(Steps(Len(insts), Len(schemes))),
           NEW known \in Seq(SchemeType(Len(insts))), Len(known) = Len(schemes),
           Destroy(i, t, then, known)
    PROVE  /\ tasks' \in TasksType(Len(insts), Len(schemes))
           /\ insts' \in Seq(InstType(Len(schemes))) /\ Len(insts') = Len(insts)
           /\ schemes' \in Seq(SchemeType(Len(insts))) /\ Len(schemes') = Len(schemes)
<1> DEFINE s == insts[i].scheme
           gone == IF s = 0 THEN {} ELSE {d \in known[s].kids : known[s].held[d] # None}
           Cancelled(x) == [known[x] EXCEPT !.timer = @ /\ x # insts[i].redetect]
           After(x) == IF x = s THEN [Cancelled(x) EXCEPT !.top = FALSE, !.open = @ \ known[x].kids]
                       ELSE Cancelled(x)
           first == IF s = 0 THEN <<>> ELSE <<[do |-> "destroyed", i |-> i]>>
           Strand(x) == IF x = Main THEN first \o then
                        ELSE IF x \in gone THEN Deletion(s, x, known[s].held[x]) ELSE <<>>
           n == Len(insts)
           m == Len(schemes)
<1>1. n \in Nat /\ m \in Nat /\ s \in 0..m
  BY Lengths, InstHas
<1>2. \A x \in 1..m : known[x] \in SchemeType(n)
  BY ElementOfSeq
<1>3. ASSUME NEW x \in 1..m PROVE After(x) \in SchemeType(n)
  <2>1. known[x] \in SchemeType(n)
    BY <1>2
  <2>2. Cancelled(x) \in SchemeType(n)
    BY <2>1 DEF SchemeType
  <2> HIDE DEF Cancelled
  <2>3. QED
    BY <2>2 DEF SchemeType
<1>4. schemes' = [x \in 1..m |-> After(x)]
  BY DEF Destroy
<1> HIDE DEF After
<1>5. schemes' \in Seq(SchemeType(n)) /\ Len(schemes') = m
  BY <1>1, <1>3, <1>4
<1>6. insts' \in Seq(InstType(m)) /\ Len(insts') = n
  <2>1. insts' = [insts EXCEPT ![i] = [insts[i] EXCEPT !.redetect = 0]]
    BY DEF Destroy
  <2>2. insts[i] \in InstType(m) /\ 0 \in 0..m
    BY <1>1, ElementOfSeq DEF Types
  <2>3. [insts[i] EXCEPT !.redetect = 0] \in InstType(m)
    BY <2>2 DEF InstType
  <2>4. QED
    BY <2>1, <2>3, ExceptSeq DEF Types
<1>7. ASSUME NEW x \in Strands PROVE Strand(x) \in Seq(Steps(n, m))
  <2>1. CASE x = Main
    <3>1. [do |-> "destroyed", i |-> i] \in Steps(n, m)
      BY DEF Steps
    <3>2. first \in Seq(Steps(n, m))
      BY <3>1
    <3> HIDE DEF first
    <3>3. first \o then \in Seq(Steps(n, m))
      BY <3>2, ConcatProperties
    <3>4. QED
      BY <2>1, <3>3
  <2>2. CASE x # Main /\ x \in gone
    <3>1. s \in 1..m
      BY <1>1, <2>2
    <3>2. known[s] \in SchemeType(n)
      BY <1>2, <3>1
    <3>3. x \in Dirs /\ known[s].held[x] \in Plugins
      <4>1. known[s].held \in [Dirs -> Held] /\ x \in Dirs
        BY <2>2, <3>2 DEF SchemeType, Strands
      <4>2. known[s].held[x] # None /\ known[s].held[x] \in Held
        BY <2>2, <4>1
      <4>3. QED
        BY <4>1, <4>2 DEF Held
    <3>4. Deletion(s, x, known[s].held[x]) \in Seq(Steps(n, m))
      BY <1>1, <3>1, <3>3, DeletionType
    <3>5. QED
      BY <2>2, <3>4
  <2>3. CASE x # Main /\ x \notin gone
    BY <2>3, EmptySeq
  <2>4. QED
    BY <2>1, <2>2, <2>3
<1>8. tasks' = [tasks EXCEPT ![t] = [x \in Strands |-> Strand(x)]]
  BY DEF Destroy, Strands
<1> HIDE DEF Strand
<1>9. tasks' \in TasksType(n, m)
  BY <1>7, <1>8 DEF Types, TasksType
<1>10. QED
  BY <1>5, <1>6, <1>9

LEMMA RaceType == Types /\ Race => races' \in 0..MaxRaces
BY PRAssumption DEF Types, Race

LEMMA RegisterTypes ==
    ASSUME Types, RegisterPluginPath
    PROVE  Types'
<1> DEFINE n == Len(insts)
           m == Len(schemes)
           new == [scheme |-> 0, redetect |-> 0]
           work == <<[do |-> "create", i |-> pluginPath', kind |-> DetectScheme]>>
<1>1. n \in Nat /\ m \in Nat
  BY Lengths
<1>2. /\ insts' = Append(insts, new) /\ pluginPath' = Len(insts') /\ Spawn(Main, work)
      /\ FreeTasks # {} /\ Race
      /\ UNCHANGED <<disk, schemes, events, mgr, running, refused>>
  BY DEF RegisterPluginPath
<1>3. insts' \in Seq(InstType(m)) /\ Len(insts') = n + 1
  <2>1. new \in InstType(m)
    BY <1>1 DEF InstType
  <2>2. QED
    BY <1>1, <1>2, <2>1 DEF Types
<1>4. tasks' \in TasksType(n + 1, m)
  <2>1. tasks \in TasksType(n + 1, m)
    BY <1>1, MoreTasks DEF Types
  <2>2. work \in Seq(Steps(n + 1, m))
    <3>1. [do |-> "create", i |-> pluginPath', kind |-> DetectScheme] \in Steps(n + 1, m)
      BY <1>1, <1>2, <1>3, SchemeDetected DEF Steps
    <3>2. QED
      BY <3>1
  <2> HIDE DEF work
  <2>3. QED
    BY <1>1, <1>2, <2>1, <2>2, SpawnType DEF Strands
<1>5. schemes' \in Seq(SchemeType(n + 1))
  BY <1>1, <1>2, More, SeqMonotonic DEF Types
<1>6. races' \in 0..MaxRaces
  BY <1>2, RaceType
<1>7. pluginPath' \in 0..Len(insts')
  BY <1>1, <1>2, <1>3
<1> HIDE DEF work, new
<1>8. QED
  BY <1>2, <1>3, <1>4, <1>5, <1>6, <1>7 DEF Types

LEMMA UnregisterTypes ==
    ASSUME Types, UnregisterPluginPath
    PROVE  Types'
<1> DEFINE n == Len(insts)
           m == Len(schemes)
           then == <<[do |-> "forget"]>>
<1>1. n \in Nat /\ m \in Nat
  BY Lengths
<1>2. /\ FreeTasks # {} /\ pluginPath # 0 /\ Race
      /\ Destroy(pluginPath, FreeTask, then, schemes)
      /\ UNCHANGED <<disk, pluginPath, events, mgr, running, refused>>
  BY DEF UnregisterPluginPath
<1>3. pluginPath \in 1..n /\ FreeTask \in TaskIds
  BY <1>1, <1>2, FreeTaskIs DEF Types
<1>4. then \in Seq(Steps(n, m))
  <2>1. [do |-> "forget"] \in Steps(n, m)
    BY DEF Steps
  <2>2. QED
    BY <2>1
<1> HIDE DEF then
<1>5. /\ tasks' \in TasksType(n, m)
      /\ insts' \in Seq(InstType(m)) /\ Len(insts') = n
      /\ schemes' \in Seq(SchemeType(n)) /\ Len(schemes') = m
  BY <1>2, <1>3, <1>4, DestroyTypes DEF Types
<1>6. races' \in 0..MaxRaces
  BY <1>2, RaceType
<1>7. QED
  BY <1>2, <1>5, <1>6 DEF Types

LEMMA RunTypes ==
    ASSUME Types, AutoStart \/ \E n \in Names : Dispatch(n) \/ StopPlugins(n)
    PROVE  Types'
<1>1. Race /\ UNCHANGED <<disk, pluginPath, insts, schemes, events, tasks, mgr, refused>>
  BY DEF AutoStart, Dispatch, StopPlugins
<1>2. \A n \in Names : mgr.versions[n] \subseteq Instances
  BY DEF Types, MgrType
<1>3. running' \in SUBSET Instances
  <2>1. CASE AutoStart
    BY <2>1, <1>2 DEF Types, AutoStart
  <2>2. ASSUME NEW n \in Names, Dispatch(n) PROVE running' \in SUBSET Instances
    BY <2>2, <1>2 DEF Types, Dispatch
  <2>3. ASSUME NEW n \in Names, StopPlugins(n) PROVE running' \in SUBSET Instances
    BY <2>3 DEF Types, StopPlugins
  <2>4. QED
    BY <2>1, <2>2, <2>3
<1>4. races' \in 0..MaxRaces
  BY <1>1, RaceType
<1>5. QED
  BY <1>1, <1>3, <1>4 DEF Types

\* The events of a change, scheme by scheme.
TopEvents(s, d, act) ==
    IF schemes[s].top THEN <<[s |-> s, at |-> "top", d |-> d, act |-> act]>> ELSE <<>>
KidEvents(s, d, act) ==
    IF d \in schemes[s].open /\ ~(d = Root /\ act = "delete")
    THEN <<[s |-> s, at |-> "kid", d |-> d, act |-> act]>> ELSE <<>>
RootEvents(s, d, act) ==
    IF Root \in schemes[s].open /\ (d = Root => act = "delete") /\ Depth[d] < 2
    THEN <<[s |-> s, at |-> "kid", d |-> Root, act |-> "other"]>> ELSE <<>>
EventsOf(s, d, act) == TopEvents(s, d, act) \o KidEvents(s, d, act) \o RootEvents(s, d, act)

LEMMA ChangeIs ==
    ASSUME NEW d, NEW p, NEW act, Change(d, p, act)
    PROVE  events' = events \o FlattenSeq([s \in 1..Len(schemes) |-> EventsOf(s, d, act)])
BY DEF Change, EventsOf, TopEvents, KidEvents, RootEvents

LEMMA EventsOfType ==
    ASSUME Types, NEW s \in 1..Len(schemes), NEW d \in Dirs, NEW act \in Acts
    PROVE  EventsOf(s, d, act) \in Seq(EventType(Len(schemes)))
<1> DEFINE E == EventType(Len(schemes))
<1>1. TopEvents(s, d, act) \in Seq(E)
  <2>1. [s |-> s, at |-> "top", d |-> d, act |-> act] \in E
    BY DEF EventType
  <2>2. QED
    BY <2>1 DEF TopEvents
<1>2. KidEvents(s, d, act) \in Seq(E)
  <2>1. [s |-> s, at |-> "kid", d |-> d, act |-> act] \in E
    BY DEF EventType
  <2>2. QED
    BY <2>1 DEF KidEvents
<1>3. RootEvents(s, d, act) \in Seq(E)
  <2>1. [s |-> s, at |-> "kid", d |-> Root, act |-> "other"] \in E
    BY PRAssumption DEF EventType, Acts
  <2>2. QED
    BY <2>1 DEF RootEvents
<1> HIDE DEF E
<1>4. QED
  BY <1>1, <1>2, <1>3, ConcatProperties DEF EventsOf, E

LEMMA ChangeTypes ==
    ASSUME Types, NEW d \in Dirs, NEW p \in Held, NEW act \in {"add", "change", "delete"},
           Change(d, p, act)
    PROVE  Types'
<1> DEFINE ss == [s \in 1..Len(schemes) |-> EventsOf(s, d, act)]
           E == EventType(Len(schemes))
<1>1. act \in Acts /\ Len(schemes) \in Nat
  BY Lengths DEF Acts
<1>2. ss \in Seq(Seq(E))
  <2>1. \A s \in 1..Len(schemes) : EventsOf(s, d, act) \in Seq(E)
    BY <1>1, EventsOfType
  <2> HIDE DEF E
  <2>2. QED
    BY <1>1, <2>1
<1> HIDE DEF ss
<1>3. FlattenSeq(ss) \in Seq(E)
  BY <1>2, FlattenType
<1>4. events' = events \o FlattenSeq(ss)
  BY ChangeIs DEF ss
<1>5. events' \in Seq(E)
  BY <1>3, <1>4, ConcatProperties DEF Types
<1>6. disk' \in [Dirs -> Held] /\ races' \in 0..MaxRaces
  BY RaceType DEF Change, Types
<1>7. UNCHANGED <<pluginPath, insts, schemes, tasks, mgr, running, refused>>
  BY DEF Change
<1>8. QED
  BY <1>5, <1>6, <1>7 DEF Types

LEMMA RedetectTypes ==
    ASSUME Types, NEW s \in 1..Len(schemes), Redetect(s)
    PROVE  Types'
<1> DEFINE n == Len(insts)
           m == Len(schemes)
           i == schemes[s].owner
           then == <<[do |-> "create", i |-> i, kind |-> DetectScheme]>>
           fired == [schemes EXCEPT ![s].timer = FALSE]
<1>1. n \in Nat /\ m \in Nat /\ i \in 1..n
  BY Lengths, SchemeHas
<1>2. fired \in Seq(SchemeType(n)) /\ Len(fired) = m
  <2>1. fired = [schemes EXCEPT ![s] = [schemes[s] EXCEPT !.timer = FALSE]]
    OBVIOUS
  <2>2. [schemes[s] EXCEPT !.timer = FALSE] \in SchemeType(n)
    BY SchemeHas DEF SchemeType
  <2>3. QED
    BY <2>1, <2>2, ExceptSeq DEF Types
<1>3. then \in Seq(Steps(n, m))
  <2>1. [do |-> "create", i |-> i, kind |-> DetectScheme] \in Steps(n, m)
    BY <1>1, SchemeDetected DEF Steps
  <2>2. QED
    BY <2>1
<1>4. /\ FreeTasks # {}
      /\ UNCHANGED <<disk, pluginPath, events, mgr, running, refused, races>>
      /\ \/ schemes' = fired /\ UNCHANGED <<insts, tasks>>
         \/ Destroy(i, FreeTask, then, fired)
  BY DEF Redetect
<1> HIDE DEF fired, then, i
<1>5. CASE schemes' = fired /\ UNCHANGED <<insts, tasks>>
  BY <1>2, <1>4, <1>5 DEF Types
<1>6. CASE Destroy(i, FreeTask, then, fired)
  <2>1. FreeTask \in TaskIds
    BY <1>4, FreeTaskIs
  <2>2. /\ tasks' \in TasksType(n, m)
        /\ insts' \in Seq(InstType(m)) /\ Len(insts') = n
        /\ schemes' \in Seq(SchemeType(n)) /\ Len(schemes') = m
    BY <1>1, <1>2, <1>3, <1>6, <2>1, DestroyTypes
  <2>3. QED
    BY <1>4, <2>2 DEF Types
<1>7. QED
  BY <1>4, <1>5, <1>6

LEMMA SchemeSet ==
    ASSUME Types, NEW s \in 1..Len(schemes), NEW sc \in SchemeType(Len(insts)),
           schemes' = [schemes EXCEPT ![s] = sc]
    PROVE  schemes' \in Seq(SchemeType(Len(insts))) /\ Len(schemes') = Len(schemes)
BY ExceptSeq DEF Types

LEMMA TopEventTypes ==
    ASSUME Types, NEW e \in EventType(Len(schemes)), FreeTasks # {}, TopEvent(e)
    PROVE  /\ tasks' \in TasksType(Len(insts), Len(schemes))
           /\ schemes' \in Seq(SchemeType(Len(insts))) /\ Len(schemes') = Len(schemes)
<1> DEFINE n == Len(insts)
           m == Len(schemes)
           s == e.s
           d == e.d
           sc == schemes[s]
           due == [sc EXCEPT !.timer = TRUE]
           p == disk[d]
           new == [due EXCEPT !.open = @ \cup {d}, !.held[d] = p]
           old == [due EXCEPT !.open = @ \ {d}]
           adding == <<Do("added", s, d, p), Do("keep", s, d, None)>>
           dropping == (IF sc.held[d] = None THEN <<>> ELSE Deletion(s, d, sc.held[d]))
                         \o <<Do("drop", s, d, None)>>
<1>1. n \in Nat /\ m \in Nat /\ s \in 1..m /\ d \in Dirs /\ d \in Strands /\ p \in Held
  BY Lengths DEF EventType, Types, Strands
<1>2. sc \in SchemeType(n) /\ sc.held \in [Dirs -> Held]
  BY <1>1, SchemeHas
<1>3. due \in SchemeType(n)
  BY <1>2 DEF SchemeType
<1>4. new \in SchemeType(n) /\ old \in SchemeType(n)
  BY <1>1, <1>3 DEF SchemeType
<1>5. p # None => adding \in Seq(Steps(n, m))
  <2>1. SUFFICES ASSUME p # None PROVE adding \in Seq(Steps(n, m))
    OBVIOUS
  <2>2. p \in Plugins
    BY <1>1, <2>1 DEF Held
  <2>3. Do("added", s, d, p) \in Steps(n, m) /\ Do("keep", s, d, None) \in Steps(n, m)
    BY <1>1, <2>2, DoType
  <2>4. QED
    BY <2>3
<1>6. dropping \in Seq(Steps(n, m))
  <2>1. <<Do("drop", s, d, None)>> \in Seq(Steps(n, m))
    <3>1. Do("drop", s, d, None) \in Steps(n, m)
      BY <1>1, DoType
    <3>2. QED
      BY <3>1
  <2>2. CASE sc.held[d] = None
    BY <2>1, <2>2, ConcatProperties, EmptySeq
  <2>3. CASE sc.held[d] # None
    <3>1. sc.held[d] \in Plugins
      BY <1>1, <1>2, <2>3 DEF Held
    <3>2. Deletion(s, d, sc.held[d]) \in Seq(Steps(n, m))
      BY <1>1, <3>1, DeletionType
    <3>3. QED
      BY <2>1, <2>3, <3>2, ConcatProperties
  <2>4. QED
    BY <2>2, <2>3
<1>7. \/ schemes' = [schemes EXCEPT ![s] = due] /\ UNCHANGED tasks
      \/ schemes' = [schemes EXCEPT ![s] = new] /\ p # None /\ Spawn(d, adding)
      \/ schemes' = [schemes EXCEPT ![s] = old] /\ Spawn(d, dropping)
  BY DEF TopEvent
<1> HIDE DEF due, new, old, adding, dropping, s, d, p, sc
<1>8. schemes' \in Seq(SchemeType(n)) /\ Len(schemes') = m
  <2>1. PICK x \in SchemeType(n) : schemes' = [schemes EXCEPT ![s] = x]
    BY <1>3, <1>4, <1>7
  <2>2. QED
    BY <1>1, <2>1, SchemeSet
<1>9. tasks \in TasksType(n, m)
  BY DEF Types
<1>10. tasks' \in TasksType(n, m)
  <2>1. CASE UNCHANGED tasks
    BY <1>9, <2>1
  <2>2. CASE p # None /\ Spawn(d, adding)
    BY <1>1, <1>5, <1>9, <2>2, SpawnType
  <2>3. CASE Spawn(d, dropping)
    BY <1>1, <1>6, <1>9, <2>3, SpawnType
  <2>4. QED
    BY <1>7, <2>1, <2>2, <2>3
<1>11. QED
  BY <1>8, <1>10

LEMMA KidEventTypes ==
    ASSUME Types, NEW e \in EventType(Len(schemes)), FreeTasks # {}, KidEvent(e)
    PROVE  /\ tasks' \in TasksType(Len(insts), Len(schemes))
           /\ schemes' \in Seq(SchemeType(Len(insts))) /\ Len(schemes') = Len(schemes)
<1> DEFINE n == Len(insts)
           m == Len(schemes)
           s == e.s
           d == e.d
           sc == schemes[s]
           held == schemes[s].held[d]
           p == disk[d]
           redetect == <<Do("redetect", s, d, None)>>
           renew == <<Do("hold", s, d, p), Do("added", s, d, p)>>
           tried == <<Do("added", s, d, p)>> \o redetect
           new == [sc EXCEPT !.held[d] = p]
           S == Steps(n, m)
<1>1. n \in Nat /\ m \in Nat /\ s \in 1..m /\ d \in Dirs /\ d \in Strands /\ p \in Held
  BY Lengths DEF EventType, Types, Strands
<1>2. sc \in SchemeType(n) /\ held \in Held
  BY <1>1, SchemeHas
<1>3. new \in SchemeType(n)
  BY <1>1, <1>2 DEF SchemeType
<1>4. redetect \in Seq(S)
  <2>1. Do("redetect", s, d, None) \in S
    BY <1>1, DoType
  <2>2. QED
    BY <2>1
<1>5. p # None => renew \in Seq(S) /\ <<Do("added", s, d, p)>> \in Seq(S) /\ tried \in Seq(S)
  <2>1. SUFFICES ASSUME p # None
                 PROVE renew \in Seq(S) /\ <<Do("added", s, d, p)>> \in Seq(S) /\ tried \in Seq(S)
    OBVIOUS
  <2>2. p \in Plugins
    BY <1>1, <2>1 DEF Held
  <2>3. Do("hold", s, d, p) \in S /\ Do("added", s, d, p) \in S
    BY <1>1, <2>2, DoType
  <2>4. renew \in Seq(S) /\ <<Do("added", s, d, p)>> \in Seq(S)
    BY <2>3
  <2> HIDE DEF redetect, S
  <2>5. tried \in Seq(S)
    BY <1>4, <2>4, ConcatProperties
  <2>6. QED
    BY <2>4, <2>5
<1>6. held # None => Deletion(s, d, held) \in Seq(S)
  BY <1>1, <1>2, DeletionType DEF Held
<1>7. schemes' = schemes \/ schemes' = [schemes EXCEPT ![s] = new]
  <2>1. [schemes EXCEPT ![s] = new] = [schemes EXCEPT ![s].held[d] = p]
    BY DEF new
  <2>2. QED
    BY <2>1 DEF KidEvent
<1>8. \/ UNCHANGED tasks
      \/ held # None /\ Spawn(d, Deletion(s, d, held) \o redetect)
      \/ held # None /\ p # None /\ Spawn(d, Deletion(s, d, held) \o renew)
      \/ p # None /\ Spawn(d, <<Do("added", s, d, p)>>)
      \/ p # None /\ Spawn(d, tried)
      \/ Spawn(d, redetect)
  <2>1. <<Do("added", s, d, p)>> \o <<>> = <<Do("added", s, d, p)>>
    <3>1. <<Do("added", s, d, p)>> \in Seq({Do("added", s, d, p)})
      OBVIOUS
    <3>2. QED
      BY <3>1, ConcatEmptySeq
  <2>2. QED
    BY <2>1 DEF KidEvent
<1> HIDE DEF new, held, p, redetect, renew, tried, s, d, sc, S
<1>9. schemes' \in Seq(SchemeType(n)) /\ Len(schemes') = m
  <2>1. CASE schemes' = schemes
    BY <2>1 DEF Types
  <2>2. CASE schemes' = [schemes EXCEPT ![s] = new]
    BY <1>1, <1>3, <2>2, SchemeSet
  <2>3. QED
    BY <1>7, <2>1, <2>2
<1>10. tasks \in TasksType(n, m)
  BY DEF Types
<1>11. \A work \in Seq(S) : Spawn(d, work) => tasks' \in TasksType(n, m)
  BY <1>1, <1>10, SpawnType DEF S
<1>12. QED
  <2>1. CASE UNCHANGED tasks
    BY <1>9, <1>10, <2>1
  <2>2. CASE held # None /\ Spawn(d, Deletion(s, d, held) \o redetect)
    BY <1>4, <1>6, <1>9, <1>11, <2>2, ConcatProperties
  <2>3. CASE held # None /\ p # None /\ Spawn(d, Deletion(s, d, held) \o renew)
    BY <1>5, <1>6, <1>9, <1>11, <2>3, ConcatProperties
  <2>4. CASE p # None /\ Spawn(d, <<Do("added", s, d, p)>>)
    BY <1>5, <1>9, <1>11, <2>4
  <2>5. CASE Spawn(d, redetect)
    BY <1>4, <1>9, <1>11, <2>5
  <2>6. CASE p # None /\ Spawn(d, tried)
    BY <1>5, <1>9, <1>11, <2>6
  <2>7. QED
    BY <1>8, <2>1, <2>2, <2>3, <2>4, <2>5, <2>6

LEMMA DeliverTypes ==
    ASSUME Types, Deliver
    PROVE  Types'
<1> DEFINE E == EventType(Len(schemes))
           e == Head(events)
<1>1. events \in Seq(E) /\ events # <<>>
  BY DEF Types, Deliver
<1>2. e \in E /\ events' \in Seq(E)
  BY <1>1, HeadTailProperties DEF Deliver
<1>3. FreeTasks # {} /\ UNCHANGED <<disk, pluginPath, insts, mgr, running, refused, races>>
  BY DEF Deliver
<1>4. UNCHANGED <<schemes, tasks>> \/ KidEvent(e) \/ TopEvent(e)
  BY DEF Deliver, NestedEvent
<1> HIDE DEF e
<1>5. /\ tasks' \in TasksType(Len(insts), Len(schemes))
      /\ schemes' \in Seq(SchemeType(Len(insts))) /\ Len(schemes') = Len(schemes)
  <2>1. CASE UNCHANGED <<schemes, tasks>>
    BY <2>1 DEF Types
  <2>2. CASE KidEvent(e)
    BY <1>2, <1>3, <2>2, KidEventTypes
  <2>3. CASE TopEvent(e)
    BY <1>2, <1>3, <2>3, TopEventTypes
  <2>4. QED
    BY <1>4, <2>1, <2>2, <2>3
<1>6. QED
  BY <1>2, <1>3, <1>5 DEF Types

LEMMA RecordTyped ==
    ASSUME NEW m \in MgrType, NEW l \in [Dirs -> Seq(Plugins)],
           NEW v \in [Names -> SUBSET Instances], NEW r \in [Names -> Int]
    PROVE  /\ [m EXCEPT !.versions = v, !.routes = r] \in MgrType
           /\ [m EXCEPT !.registered = l, !.versions = v, !.routes = r] \in MgrType
BY DEF MgrType

LEMMA MgrTypes ==
    ASSUME NEW m \in MgrType, NEW d \in Dirs, NEW p \in Plugins
    PROVE  /\ [m EXCEPT !.registry[d] = None] \in MgrType
           /\ Register(m, d, p) \in MgrType
           /\ Name(m, d, p) \in MgrType
           /\ Unlist(m, d, p) \in MgrType
<1>1. /\ m.registry \in [Dirs -> Held] /\ m.registered \in [Dirs -> Seq(Plugins)]
      /\ m.versions \in [Names -> SUBSET Instances] /\ m.routes \in [Names -> Int]
      /\ m = [registry |-> m.registry, registered |-> m.registered,
              versions |-> m.versions, routes |-> m.routes]
  BY DEF MgrType
<1>2. /\ p.name \in Names /\ [dir |-> d, plugin |-> p] \in Instances
      /\ p \in Held /\ None \in Held
  BY DEF Names, Instances, Held
<1>3. [m EXCEPT !.registry[d] = None] \in MgrType
  BY <1>1, <1>2 DEF MgrType
<1>4. Register(m, d, p) \in MgrType
  <2>1. Append(m.registered[d], p) \in Seq(Plugins)
    BY <1>1
  <2>2. QED
    BY <1>1, <1>2, <2>1 DEF MgrType, Register
<1>5. Name(m, d, p) \in MgrType
  <2> DEFINE vs == {v \in m.versions[p.name] : v.plugin.version # p.version} \cup {[dir |-> d, plugin |-> p]}
             r == IF m.versions[p.name] = {} THEN m.routes[p.name] + 1 ELSE m.routes[p.name]
  <2>1. vs \in SUBSET Instances /\ r \in Int
    BY <1>1, <1>2
  <2> DEFINE nv == [m.versions EXCEPT ![p.name] = vs]
             nr == [m.routes EXCEPT ![p.name] = r]
  <2>2. p.supported => Name(m, d, p) = [m EXCEPT !.versions = nv, !.routes = nr]
    BY DEF Name
  <2> HIDE DEF vs, r
  <2>3. nv \in [Names -> SUBSET Instances] /\ nr \in [Names -> Int]
    BY <1>1, <1>2, <2>1
  <2> HIDE DEF nv, nr
  <2>4. [m EXCEPT !.versions = nv, !.routes = nr] \in MgrType
    BY <1>1, <2>3, RecordTyped
  <2>5. ~p.supported => Name(m, d, p) = m
    BY DEF Name
  <2>6. QED
    BY <2>2, <2>4, <2>5
<1>6. Unlist(m, d, p) \in MgrType
  <2> DEFINE vs == {v \in m.versions[p.name] : v.plugin.version # p.version}
             l == IF m.registered[d] = <<>> THEN m.registered[d] ELSE Tail(m.registered[d])
             r == IF vs = {} /\ m.versions[p.name] # {} THEN m.routes[p.name] - 1 ELSE m.routes[p.name]
  <2>1. vs \in SUBSET Instances /\ r \in Int
    BY <1>1, <1>2
  <2>2. l \in Seq(Plugins)
    BY <1>1, HeadTailProperties
  <2> DEFINE nv == [m.versions EXCEPT ![p.name] = vs]
             nr == [m.routes EXCEPT ![p.name] = r]
             nl == [m.registered EXCEPT ![d] = l]
  <2>3. Unlist(m, d, p) = [m EXCEPT !.registered = nl, !.versions = nv, !.routes = nr]
    BY DEF Unlist
  <2> HIDE DEF vs, l, r
  <2>4. /\ nv \in [Names -> SUBSET Instances] /\ nr \in [Names -> Int]
        /\ nl \in [Dirs -> Seq(Plugins)]
    BY <1>1, <1>2, <2>1, <2>2
  <2> HIDE DEF nv, nr, nl
  <2>5. [m EXCEPT !.registered = nl, !.versions = nv, !.routes = nr] \in MgrType
    BY <2>4, RecordTyped
  <2>6. QED
    BY <2>3, <2>5
<1>7. QED
  BY <1>3, <1>4, <1>5, <1>6

\* A step that leaves the schemes, the instances and the manager of their types.
LEMMA StepTypes1 ==
    ASSUME Types, NEW t \in TaskIds, NEW x \in Strands,
           \/ StepStop(t, x) \/ StepRemoved(t, x) \/ StepUnloaded(t, x)
           \/ StepAdded(t, x) \/ StepLoaded(t, x) \/ StepForget(t, x),
           UNCHANGED <<disk, events, races>>, refused' \in BOOLEAN
    PROVE  Types'
<1> DEFINE n == Len(insts)
           m == Len(schemes)
           h == Now(t, x)
           S == Steps(n, m)
<1>1. n \in Nat /\ m \in Nat
  BY Lengths
<1>2. UNCHANGED <<schemes, insts>>
  BY DEF StepStop, StepRemoved, StepUnloaded, StepAdded, StepLoaded, StepForget
<1>3. tasks[t][x] # <<>>
  BY DEF StepStop, StepRemoved, StepUnloaded, StepAdded, StepLoaded, StepForget, Goes
<1>4. \A more \in Seq(S) : Rest(t, x, more) => tasks' \in TasksType(n, m)
  BY <1>1, <1>3, RestType DEF Types
<1>5. <<>> \in Seq(S)
  BY EmptySeq
<1>6. mgr \in MgrType /\ running \in SUBSET Instances /\ pluginPath \in 0..n
  BY DEF Types
<1>7. /\ tasks' \in TasksType(n, m) /\ mgr' \in MgrType
      /\ running' \in SUBSET Instances /\ pluginPath' \in 0..n
  <2> HIDE DEF S, n, m
  <2>1. CASE StepStop(t, x)
    BY <1>4, <1>5, <1>6, <2>1 DEF StepStop
  <2>2. CASE StepForget(t, x)
    <3>1. pluginPath' = 0 /\ 0 \in 0..n
      BY <1>1, <2>2 DEF StepForget
    <3>2. UNCHANGED <<mgr, running>> /\ Rest(t, x, <<>>)
      BY <2>2 DEF StepForget
    <3>3. QED
      BY <1>4, <1>5, <1>6, <3>1, <3>2
  <2>3. CASE StepUnloaded(t, x)
    <3>1. h.d \in Dirs /\ h.p \in Plugins
      BY <2>3, NowFields DEF StepUnloaded
    <3> HIDE DEF h
    <3>2. mgr' = Unlist(mgr, h.d, h.p) /\ Rest(t, x, <<>>) /\ UNCHANGED <<pluginPath, running>>
      BY <2>3 DEF StepUnloaded, h
    <3>3. QED
      BY <1>4, <1>5, <1>6, <3>1, <3>2, MgrTypes
  <2>4. CASE StepLoaded(t, x)
    <3>1. h.d \in Dirs /\ h.p \in Plugins
      BY <2>4, NowFields DEF StepLoaded
    <3> HIDE DEF h
    <3>2. mgr' = Name(mgr, h.d, h.p) /\ Rest(t, x, <<>>) /\ UNCHANGED <<pluginPath, running>>
      BY <2>4 DEF StepLoaded, h
    <3>3. QED
      BY <1>4, <1>5, <1>6, <3>1, <3>2, MgrTypes
  <2>5. CASE StepRemoved(t, x)
    <3>1. h.s \in 1..m /\ h.d \in Dirs /\ h.p \in Plugins
      BY <2>5, NowFields DEF StepRemoved, m
    <3>2. <<Do("unloaded", h.s, h.d, h.p)>> \in Seq(S)
      <4>1. Do("unloaded", h.s, h.d, h.p) \in S
        BY <1>1, <3>1, DoType DEF S
      <4>2. QED
        BY <4>1
    <3> DEFINE gone == [mgr EXCEPT !.registry[h.d] = None]
    <3>3. \/ mgr' = gone /\ Rest(t, x, <<Do("unloaded", h.s, h.d, h.p)>>)
          \/ mgr' = Unlist(gone, h.d, h.p) /\ Rest(t, x, <<>>)
      BY <2>5 DEF StepRemoved
    <3>4. UNCHANGED <<pluginPath, running>>
      BY <2>5 DEF StepRemoved
    <3>5. gone \in MgrType
      BY <1>6, <3>1, MgrTypes
    <3> HIDE DEF gone, h
    <3>6. Unlist(gone, h.d, h.p) \in MgrType
      BY <3>1, <3>5, MgrTypes
    <3>7. QED
      BY <1>4, <1>5, <1>6, <3>2, <3>3, <3>4, <3>5, <3>6
  <2>6. CASE StepAdded(t, x)
    <3>1. h.s \in 1..m /\ h.d \in Dirs /\ h.p \in Plugins
      BY <2>6, NowFields DEF StepAdded, m
    <3>2. <<Do("loaded", h.s, h.d, h.p)>> \in Seq(S)
      <4>1. Do("loaded", h.s, h.d, h.p) \in S
        BY <1>1, <3>1, DoType DEF S
      <4>2. QED
        BY <4>1
    <3> DEFINE listed == Register(mgr, h.d, h.p)
    <3>3. \/ mgr' = mgr /\ Rest(t, x, <<>>)
          \/ mgr' = listed /\ Rest(t, x, <<Do("loaded", h.s, h.d, h.p)>>)
          \/ mgr' = Name(listed, h.d, h.p) /\ Rest(t, x, <<>>)
      BY <2>6 DEF StepAdded
    <3>4. UNCHANGED <<pluginPath, running>>
      BY <2>6 DEF StepAdded
    <3>5. listed \in MgrType
      BY <1>6, <3>1, MgrTypes
    <3> HIDE DEF listed, h
    <3>6. Name(listed, h.d, h.p) \in MgrType
      BY <3>1, <3>5, MgrTypes
    <3>7. QED
      BY <1>4, <1>5, <1>6, <3>2, <3>3, <3>4, <3>5, <3>6
  <2>7. QED
    BY <2>1, <2>2, <2>3, <2>4, <2>5, <2>6
<1>8. QED
  BY <1>2, <1>7 DEF Types

LEMMA StepTypes2 ==
    ASSUME Types, NEW t \in TaskIds, NEW x \in Strands,
           StepHold(t, x) \/ StepKeepOrDrop(t, x) \/ StepRedetect(t, x) \/ StepWatch(t, x),
           UNCHANGED <<disk, events, races>>, refused' \in BOOLEAN
    PROVE  Types'
<1> DEFINE n == Len(insts)
           m == Len(schemes)
           h == Now(t, x)
           S == Steps(n, m)
           sc == schemes[h.s]
           added == <<Do("added", h.s, h.d, sc.held[h.d])>>
<1>1. n \in Nat /\ m \in Nat
  BY Lengths
<1>2. UNCHANGED <<insts, pluginPath, running, mgr>>
  BY DEF StepHold, StepKeepOrDrop, StepRedetect, StepWatch
<1>3. tasks[t][x] # <<>>
  BY DEF StepHold, StepKeepOrDrop, StepRedetect, StepWatch, Goes
<1>4. h.s \in 1..m /\ h.d \in Dirs
  BY NowFields DEF StepHold, StepKeepOrDrop, StepRedetect, StepWatch
<1>5. sc \in SchemeType(n) /\ sc.held[h.d] \in Held
  BY <1>4, SchemeHas
<1>6. ASSUME ~StepRedetect(t, x)
      PROVE  schemes' \in Seq(SchemeType(n)) /\ Len(schemes') = m
  <2> SUFFICES \E new \in SchemeType(n) : schemes' = [schemes EXCEPT ![h.s] = new]
    BY <1>4, SchemeSet
  <2>1. CASE StepHold(t, x)
    <3>1. h.p \in Held
      BY <2>1, NowFields DEF StepHold
    <3>2. schemes' = [schemes EXCEPT ![h.s] = [sc EXCEPT !.held[h.d] = h.p]]
      BY <2>1 DEF StepHold
    <3> HIDE DEF h
    <3>3. [sc EXCEPT !.held[h.d] = h.p] \in SchemeType(n)
      BY <1>4, <1>5, <3>1 DEF SchemeType
    <3>4. QED
      BY <3>2, <3>3
  <2>2. CASE StepKeepOrDrop(t, x)
    <3>1. \/ schemes' = [schemes EXCEPT ![h.s] = [sc EXCEPT !.kids = @ \cup {h.d}]]
          \/ schemes' = [schemes EXCEPT ![h.s] = [sc EXCEPT !.kids = @ \ {h.d}]]
      BY <2>2 DEF StepKeepOrDrop
    <3> HIDE DEF h
    <3>2. /\ [sc EXCEPT !.kids = @ \cup {h.d}] \in SchemeType(n)
          /\ [sc EXCEPT !.kids = @ \ {h.d}] \in SchemeType(n)
      BY <1>4, <1>5 DEF SchemeType
    <3>3. QED
      BY <3>1, <3>2
  <2>3. CASE StepWatch(t, x)
    <3>1. schemes' = [schemes EXCEPT ![h.s] = [sc EXCEPT !.open = @ \cup {h.d}]]
      BY <2>3 DEF StepWatch
    <3> HIDE DEF h
    <3>2. [sc EXCEPT !.open = @ \cup {h.d}] \in SchemeType(n)
      BY <1>4, <1>5 DEF SchemeType
    <3>3. QED
      BY <3>1, <3>2
  <2>4. QED
    BY <1>6, <2>1, <2>2, <2>3
<1>7. schemes' \in Seq(SchemeType(n)) /\ Len(schemes') = m
  <2>1. CASE StepRedetect(t, x)
    <3> DEFINE up == sc.up
    <3>1. schemes' = [schemes EXCEPT ![up] = [schemes[up] EXCEPT !.timer = TRUE]]
      BY <2>1 DEF StepRedetect
    <3>2. CASE up \in 1..m
      <4> HIDE DEF up
      <4>1. [schemes[up] EXCEPT !.timer = TRUE] \in SchemeType(n)
        BY <3>2, SchemeHas DEF SchemeType
      <4>2. QED
        BY <3>1, <3>2, <4>1, SchemeSet
    <3>3. CASE up \notin 1..m
      <4> HIDE DEF up
      <4>1. schemes \in Seq(SchemeType(n)) /\ DOMAIN schemes = 1..m
        BY DEF Types
      <4>2. schemes' = schemes
        BY <3>1, <3>3, <4>1
      <4>3. QED
        BY <4>1, <4>2
    <3>4. QED
      BY <3>2, <3>3
  <2>2. QED
    BY <1>6, <2>1
<1>8. Rest(t, x, <<>>) \/ (sc.held[h.d] # None /\ Rest(t, x, added))
  BY DEF StepHold, StepKeepOrDrop, StepRedetect, StepWatch
<1>9. sc.held[h.d] # None => added \in Seq(S)
  <2> SUFFICES ASSUME sc.held[h.d] # None PROVE added \in Seq(S)
    OBVIOUS
  <2>1. sc.held[h.d] \in Plugins
    BY <1>5 DEF Held
  <2> HIDE DEF h, sc
  <2>2. Do("added", h.s, h.d, sc.held[h.d]) \in S
    BY <1>1, <1>4, <2>1, DoType
  <2>3. QED
    BY <2>2
<1>10. tasks' \in TasksType(n, m)
  <2>1. \A more \in Seq(S) : Rest(t, x, more) => tasks' \in TasksType(n, m)
    BY <1>1, <1>3, RestType DEF Types
  <2> HIDE DEF added, S
  <2>2. QED
    BY <1>8, <1>9, <2>1, EmptySeq
<1>11. QED
  BY <1>2, <1>7, <1>10 DEF Types

LEMMA StepTypes3 ==
    ASSUME Types, NEW t \in TaskIds, NEW x \in Strands, StepDestroyed(t, x),
           UNCHANGED <<disk, events, races>>, refused' \in BOOLEAN
    PROVE  Types'
<1> DEFINE n == Len(insts)
           m == Len(schemes)
           i == Now(t, x).i
           new == [insts[i] EXCEPT !.scheme = 0]
<1>1. n \in Nat /\ m \in Nat
  BY Lengths
<1>2. UNCHANGED <<mgr, schemes, pluginPath, running>> /\ Rest(t, x, <<>>) /\ tasks[t][x] # <<>>
      /\ insts' = [insts EXCEPT ![i] = new]
  BY DEF StepDestroyed, Goes
<1>3. i \in 1..n
  BY NowFields DEF StepDestroyed
<1>4. new \in InstType(m)
  <2>1. insts[i] \in InstType(m) /\ 0 \in 0..m
    BY <1>1, <1>3, ElementOfSeq DEF Types
  <2> HIDE DEF i
  <2>2. QED
    BY <2>1 DEF InstType
<1> HIDE DEF i, new
<1>5. insts' \in Seq(InstType(m)) /\ Len(insts') = n
  BY <1>2, <1>3, <1>4, ExceptSeq DEF Types
<1>6. tasks' \in TasksType(n, m)
  BY <1>1, <1>2, RestType, EmptySeq DEF Types
<1>7. QED
  BY <1>2, <1>5, <1>6 DEF Types

\* The orders in which the directories of a scheme may be watched.
LEMMA OrderIs ==
    ASSUME NEW kids \in SUBSET Dirs, NEW order \in SetToSeqs(kids)
    PROVE  /\ order \in Seq(Dirs) /\ Len(order) = Cardinality(kids) /\ Len(order) \in Nat
           /\ \A j \in 1..Len(order) : order[j] \in kids
           /\ \A j, l \in 1..Len(order) : order[j] = order[l] => j = l
           /\ \A d \in kids : \E j \in 1..Len(order) : order[j] = d
<1> DEFINE c == Cardinality(kids)
           D == 1..c
<1>1. IsFiniteSet(kids) /\ c \in Nat
  BY PRAssumption, FS_Subset, FS_CardinalityType
<1>2. order \in [D -> kids] /\ \A j, l \in D : j # l => order[j] # order[l]
  BY DEF SetToSeqs
<1>3. IsFiniteSet(D) /\ Cardinality(D) = c
  BY <1>1, FS_Interval
<1> HIDE DEF c
<1>4. order \in Seq(kids) /\ Len(order) = c
  BY <1>1, <1>2
<1>5. order \in Seq(Dirs)
  BY <1>4, SeqMonotonic
<1>6. order \in Surjection(D, kids)
  <2>1. order \in Injection(D, kids)
    BY <1>2 DEF Injection, IsInjective
  <2>2. QED
    BY <1>1, <1>3, <2>1, FS_Injection DEF c
<1>7. \A d \in kids : \E j \in D : order[j] = d
  BY <1>6 DEF Surjection
<1>8. QED
  BY <1>1, <1>2, <1>4, <1>5, <1>7 DEF c

LEMMA StepTypes4 ==
    ASSUME Types, NEW t \in TaskIds, NEW x \in Strands, StepCreate(t, x),
           UNCHANGED <<disk, events, races>>, refused' \in BOOLEAN
    PROVE  Types'
<1> DEFINE n == Len(insts)
           m == Len(schemes)
           i == Now(t, x).i
           kind == Now(t, x).kind
           kids == Detect(kind)
           inst == [scheme |-> m + 1, redetect |-> m + 1]
           held == [d \in Dirs |-> IF d \in kids THEN disk[d] ELSE None]
           new == [owner |-> i, kind |-> kind, kids |-> kids, top |-> kind # 0, open |-> {},
                   held |-> held, timer |-> FALSE, up |-> m + 1]
           S == Steps(n, m + 1)
<1>1. n \in Nat /\ m \in Nat /\ m + 1 \in Nat /\ m <= m + 1
  BY Lengths
<1>2. /\ UNCHANGED <<mgr, pluginPath, running>> /\ tasks[t][x] # <<>>
      /\ insts' = [insts EXCEPT ![i] = inst]
      /\ schemes' = Append(schemes, new)
      /\ \E order \in SetToSeqs(kids) : Rest(t, x, WatchAll(m + 1, order))
  BY DEF StepCreate, Goes
<1>3. i \in 1..n /\ kind \in 0..3
  BY NowFields DEF StepCreate
<1>4. kids \in SUBSET Dirs
  BY <1>3, DetectType
<1> HIDE DEF i, kind, kids
<1>5. insts' \in Seq(InstType(m + 1)) /\ Len(insts') = n
  <2>1. inst \in InstType(m + 1)
    BY <1>1 DEF InstType
  <2>2. insts \in Seq(InstType(m + 1))
    BY <1>1, More, SeqMonotonic DEF Types
  <2> HIDE DEF inst
  <2>3. QED
    BY <1>2, <1>3, <2>1, <2>2, ExceptSeq
<1>6. schemes' \in Seq(SchemeType(n)) /\ Len(schemes') = m + 1
  <2>1. held \in [Dirs -> Held]
    BY DEF Types, Held
  <2> HIDE DEF held
  <2>2. new \in SchemeType(n)
    BY <1>3, <1>4, <2>1 DEF SchemeType
  <2> HIDE DEF new
  <2>3. QED
    BY <1>1, <1>2, <2>2 DEF Types
<1>7. tasks' \in TasksType(n, m + 1)
  <2>1. PICK order \in SetToSeqs(kids) : Rest(t, x, WatchAll(m + 1, order))
    BY <1>2
  <2>2. Len(order) \in Nat /\ \A j \in 1..Len(order) : order[j] \in Dirs
    BY <1>4, OrderIs
  <2>3. \A j \in 1..Len(order) : Do("watch", m + 1, order[j], None) \in S
    <3>1. m + 1 \in 1..(m + 1)
      BY <1>1
    <3>2. QED
      BY <1>1, <2>2, <3>1, DoType
  <2> HIDE DEF S
  <2>4. WatchAll(m + 1, order) \in Seq(S)
    BY <2>2, <2>3 DEF WatchAll
  <2>5. tasks \in TasksType(n, m + 1)
    BY <1>1, MoreTasks DEF Types
  <2>6. QED
    BY <1>1, <1>2, <2>1, <2>4, <2>5, RestType DEF S
<1>8. events \in Seq(EventType(m + 1))
  BY <1>1, More, SeqMonotonic DEF Types
<1>9. QED
  BY <1>2, <1>5, <1>6, <1>7, <1>8 DEF Types

\* 'added' has failed: what is left of the strand, and the scheme that is left over.
LEMMA StepTypes5 ==
    ASSUME Types, NEW t \in TaskIds, NEW x \in Strands, StepRefused(t, x),
           UNCHANGED <<disk, events, races>>, refused' \in BOOLEAN
    PROVE  Types'
<1> DEFINE n == Len(insts)
           m == Len(schemes)
           s == Now(t, x).s
           d == Now(t, x).d
           rest == Tail(tasks[t][x])
           S == Steps(n, m)
           sc == schemes[s]
           closed == [schemes EXCEPT ![s] = [sc EXCEPT !.open = @ \ {d}]]
           held == [e \in Dirs |-> IF e = d THEN sc.held[d] ELSE None]
           new == [owner |-> sc.owner, kind |-> 0, kids |-> {d}, top |-> FALSE, open |-> {d},
                   held |-> held, timer |-> FALSE, up |-> s]
<1>1. n \in Nat /\ m \in Nat /\ m + 1 \in Nat /\ m <= m + 1 /\ n <= n
  BY Lengths
<1>2. Goes(t, x, "loaded") /\ UNCHANGED <<mgr, insts, pluginPath, running>>
  BY DEF StepRefused, IsRefused
<1>3. s \in 1..m /\ d \in Dirs
  BY <1>2, NowFields
<1>4. rest \in Seq(S)
  BY <1>2, NowType DEF Goes
<1>5. tasks' = [tasks EXCEPT ![t] = [tasks[t] EXCEPT ![x] = rest]]
      \/ tasks' = [tasks EXCEPT ![t] = [tasks[t] EXCEPT ![x] = <<>>]]
  BY DEF StepRefused
<1>6. schemes' = schemes \/ schemes' = Append(closed, new)
  BY DEF StepRefused, Orphan
<1>7. sc \in SchemeType(n) /\ sc.owner \in 1..n /\ sc.held[d] \in Held
  BY <1>3, SchemeHas
<1> HIDE DEF s, d, rest, S, sc
<1>8. tasks' \in TasksType(n, m)
  <2>1. \A w \in Seq(S) : [tasks EXCEPT ![t] = [tasks[t] EXCEPT ![x] = w]] \in TasksType(n, m)
    BY DEF Types, TasksType, S
  <2>2. <<>> \in Seq(S)
    BY EmptySeq
  <2>3. QED
    BY <1>4, <1>5, <2>1, <2>2
<1>9. closed \in Seq(SchemeType(n)) /\ Len(closed) = m
  <2>1. [sc EXCEPT !.open = @ \ {d}] \in SchemeType(n)
    BY <1>7 DEF SchemeType
  <2>2. QED
    BY <1>3, <2>1, ExceptSeq DEF Types
<1>10. new \in SchemeType(n)
  <2>1. held \in [Dirs -> Held]
    BY <1>7 DEF Held
  <2> HIDE DEF held
  <2>2. QED
    BY <1>1, <1>3, <1>7, <2>1 DEF SchemeType
<1> HIDE DEF closed, new
<1>11. CASE schemes' = schemes
  BY <1>2, <1>8, <1>11 DEF Types
<1>12. CASE schemes' = Append(closed, new)
  <2>1. schemes' \in Seq(SchemeType(n)) /\ Len(schemes') = m + 1
    BY <1>1, <1>9, <1>10, <1>12
  <2>2. tasks' \in TasksType(n, m + 1)
    BY <1>1, <1>8, MoreTasks
  <2>3. insts \in Seq(InstType(m + 1)) /\ events \in Seq(EventType(m + 1))
    BY <1>1, More, SeqMonotonic DEF Types
  <2>4. QED
    BY <1>2, <2>1, <2>2, <2>3 DEF Types
<1>13. QED
  BY <1>6, <1>11, <1>12

LEMMA NextTypes == Types /\ [Next]_vars => Types'
<1> SUFFICES ASSUME Types, [Next]_vars PROVE Types'
  OBVIOUS
<1>1. CASE UNCHANGED vars
  BY <1>1 DEF Types, vars
<1>2. CASE RegisterPluginPath
  BY <1>2, RegisterTypes
<1>3. CASE UnregisterPluginPath
  BY <1>3, UnregisterTypes
<1>4. CASE AutoStart \/ \E n \in Names : Dispatch(n) \/ StopPlugins(n)
  BY <1>4, RunTypes
<1>5. CASE \E d \in Dirs, p \in Plugins \cup {None}, act \in {"add", "change", "delete"} : Change(d, p, act)
  BY <1>5, ChangeTypes DEF Held
<1>6. CASE Deliver
  BY <1>6, DeliverTypes
<1>7. CASE Step
  <2>1. PICK t \in TaskIds, x \in Strands :
          \/ StepStop(t, x) \/ StepRemoved(t, x) \/ StepUnloaded(t, x)
          \/ StepAdded(t, x) \/ StepLoaded(t, x) \/ StepRefused(t, x) \/ StepHold(t, x)
          \/ StepKeepOrDrop(t, x) \/ StepRedetect(t, x) \/ StepWatch(t, x)
          \/ StepDestroyed(t, x) \/ StepCreate(t, x) \/ StepForget(t, x)
    BY <1>7 DEF Step, Strands
  <2>2. UNCHANGED <<disk, events, races>> /\ refused' \in BOOLEAN
    BY <1>7 DEF Step
  <2>3. QED
    BY <2>1, <2>2, StepTypes1, StepTypes2, StepTypes3, StepTypes4, StepTypes5
<1>8. CASE \E s \in 1..Len(schemes) : Redetect(s)
  BY <1>8, RedetectTypes
<1>9. QED
  BY <1>1, <1>2, <1>3, <1>4, <1>5, <1>6, <1>7, <1>8 DEF Next

LEMMA InitTypes == Init => Types
<1> SUFFICES ASSUME Init PROVE Types
  OBVIOUS
<1>1. Len(insts) = 0 /\ Len(schemes) = 0 /\ events = <<>> /\ insts = <<>> /\ schemes = <<>>
  BY DEF Init
<1>2. tasks \in TasksType(0, 0)
  BY EmptySeq DEF Init, TasksType, Idle, Strands
<1>3. mgr \in MgrType
  BY EmptySeq DEF Init, MgrType, Held
<1>4. /\ insts \in Seq(InstType(0)) /\ schemes \in Seq(SchemeType(0))
      /\ events \in Seq(EventType(0))
  BY <1>1, EmptySeq
<1>5. disk \in [Dirs -> Held] /\ pluginPath = 0 /\ races = 0
      /\ running \in SUBSET Instances /\ refused \in BOOLEAN
  BY DEF Init, Held
<1>6. QED
  BY <1>1, <1>2, <1>3, <1>4, <1>5, PRAssumption DEF Types

-------------------------------------------------------------------------------
(* What the manager has of a directory *)

\* The plugins that the model's directories hold: one of a name and a version.
OneOfAVersion ==
    \A p, q \in Plugins : p.name = q.name /\ p.version = q.version => p = q

\* Its registry, its list of registered plugins and the versions of its namespaces.
List(q) == IF q = None THEN <<>> ELSE <<q>>
NamedAs(m, d, q) ==
    \A n \in Names : \A v \in Instances :
      v.dir = d => (v \in m.versions[n] <=> q # None /\ v.plugin = q /\ n = q.name)
Has(m, d, a, l, v) == m.registry[d] = a /\ m.registered[d] = List(l) /\ NamedAs(m, d, v)
Sup(q) == IF q # None /\ q.supported THEN q ELSE None
In(m, d, q)      == Has(m, d, q, q, Sup(q))
Out(m, d)        == Has(m, d, None, None, None)
HalfIn(m, d, q)  == Has(m, d, q, q, None)
HalfOut(m, d, q) == Has(m, d, None, q, Sup(q))

\* Nothing has changed but what it has of d.
Same(k, m, d) ==
    \A e \in Dirs : e # d =>
      /\ k.registry[e] = m.registry[e] /\ k.registered[e] = m.registered[e]
      /\ \A n \in Names : \A v \in Instances : v.dir = e => (v \in k.versions[n] <=> v \in m.versions[n])

\* No other directory has a plugin of that name and version.
Alone(m, d, q) == \A v \in m.versions[q.name] : v.plugin.version = q.version => v.dir = d

LEMMA SupIs ==
    ASSUME NEW q \in Held
    PROVE  Sup(q) \in Held /\ (Sup(q) # None => Sup(q) = q) /\ Sup(None) = None
BY DEF Sup, Held

LEMMA SameHas ==
    ASSUME NEW k, NEW m, NEW d, Same(k, m, d), NEW e \in Dirs, e # d, NEW a, NEW l, NEW v,
           Has(m, e, a, l, v)
    PROVE  Has(k, e, a, l, v)
BY DEF Same, Has, NamedAs

LEMMA SameTwice ==
    ASSUME NEW k, NEW m, NEW j, NEW d, Same(k, j, d), Same(j, m, d)
    PROVE  Same(k, m, d)
BY DEF Same

LEMMA MgrFields ==
    ASSUME NEW m \in MgrType
    PROVE  /\ m.registry \in [Dirs -> Held] /\ m.registered \in [Dirs -> Seq(Plugins)]
           /\ m.versions \in [Names -> SUBSET Instances] /\ m.routes \in [Names -> Int]
           /\ DOMAIN m = {"registry", "registered", "versions", "routes"}
BY DEF MgrType

LEMMA GoneHas ==
    ASSUME NEW m \in MgrType, NEW d \in Dirs, NEW q \in Plugins, In(m, d, q), NEW k,
           k = [m EXCEPT !.registry[d] = None]
    PROVE  HalfOut(k, d, q) /\ Same(k, m, d) /\ (Alone(m, d, q) => Alone(k, d, q))
<1>1. /\ k.registry = [m.registry EXCEPT ![d] = None]
      /\ k.registered = m.registered /\ k.versions = m.versions
  BY MgrFields
<1>2. QED
  BY <1>1, MgrFields DEF In, HalfOut, Has, NamedAs, Same, Alone

LEMMA NameOf ==
    ASSUME NEW d \in Dirs, NEW q \in Plugins
    PROVE  /\ q.name \in Names /\ [dir |-> d, plugin |-> q] \in Instances
           /\ q # None /\ q \in Held
           /\ \A v \in Instances : v = [dir |-> v.dir, plugin |-> v.plugin]
BY PRAssumption DEF Names, Instances, Held

LEMMA OneListed ==
    ASSUME NEW S, NEW q \in S
    PROVE  Tail(<<q>>) = <<>> /\ Head(<<q>>) = q /\ Append(<<>>, q) = <<q>> /\ <<q>> # <<>>
<1>1. <<q>> \in Seq(S) /\ Len(<<q>>) = 1 /\ <<q>>[1] = q
  OBVIOUS
<1>2. <<q>> # <<>>
  BY <1>1
<1>3. Tail(<<q>>) \in Seq(S) /\ Len(Tail(<<q>>)) = 0
  BY <1>1, <1>2, HeadTailProperties
<1>4. Tail(<<q>>) = <<>>
  BY <1>3, EmptySeq
<1>5. Append(<<>>, q) = <<q>> /\ Head(<<q>>) = q
  OBVIOUS
<1>6. QED
  BY <1>2, <1>4, <1>5

LEMMA UnlistHas ==
    ASSUME NEW m \in MgrType, NEW d \in Dirs, NEW q \in Plugins, HalfOut(m, d, q), Alone(m, d, q),
           NEW k, k = Unlist(m, d, q)
    PROVE  Out(k, d) /\ Same(k, m, d)
<1> DEFINE left == {v \in m.versions[q.name] : v.plugin.version # q.version}
<1>1. /\ k.registry = m.registry
      /\ k.registered = [m.registered EXCEPT ![d] =
                           IF m.registered[d] = <<>> THEN m.registered[d] ELSE Tail(m.registered[d])]
      /\ k.versions = [m.versions EXCEPT ![q.name] = left]
  BY MgrFields DEF Unlist
<1>2. m.registered[d] = <<q>> /\ Tail(<<q>>) = <<>> /\ <<q>> # <<>>
  BY NameOf, OneListed DEF HalfOut, Has, List
<1>3. k.registered[d] = <<>> /\ \A e \in Dirs : e # d => k.registered[e] = m.registered[e]
  BY <1>1, <1>2, MgrFields
<1>4. \A n \in Names : k.versions[n] = IF n = q.name THEN left ELSE m.versions[n]
  BY <1>1, MgrFields, NameOf
<1>5. \A n \in Names : \A v \in Instances : v.dir # d => (v \in k.versions[n] <=> v \in m.versions[n])
  <2> SUFFICES ASSUME NEW n \in Names, NEW v \in Instances, v.dir # d
               PROVE  v \in k.versions[n] <=> v \in m.versions[n]
    OBVIOUS
  <2>1. CASE n # q.name
    BY <1>4, <2>1
  <2>2. CASE n = q.name
    <3>1. v \in m.versions[n] => v.plugin.version # q.version
      BY <2>2 DEF Alone
    <3>2. QED
      BY <1>4, <2>2, <3>1
  <2>3. QED
    BY <2>1, <2>2
<1>6. \A n \in Names : \A v \in Instances : v.dir = d => v \notin k.versions[n]
  <2> SUFFICES ASSUME NEW n \in Names, NEW v \in Instances, v.dir = d, v \in k.versions[n]
               PROVE  FALSE
    OBVIOUS
  <2>1. v \in m.versions[n] => v.plugin = q /\ n = q.name
    BY DEF HalfOut, Has, NamedAs, Sup
  <2>2. QED
    BY <1>4, <2>1
<1>7. k.registry[d] = None
  BY <1>1 DEF HalfOut, Has
<1>8. Out(k, d)
  BY <1>3, <1>6, <1>7 DEF Out, Has, List, NamedAs
<1>9. Same(k, m, d)
  BY <1>1, <1>3, <1>5 DEF Same
<1>10. QED
  BY <1>8, <1>9

LEMMA RegisterHas ==
    ASSUME NEW m \in MgrType, NEW d \in Dirs, NEW q \in Plugins, Out(m, d),
           NEW k, k = Register(m, d, q)
    PROVE  HalfIn(k, d, q) /\ Same(k, m, d) /\ (Alone(m, d, q) => Alone(k, d, q))
<1>1. /\ k.registry = [m.registry EXCEPT ![d] = q]
      /\ k.registered = [m.registered EXCEPT ![d] = Append(m.registered[d], q)]
      /\ k.versions = m.versions
  BY MgrFields DEF Register
<1>2. m.registered[d] = <<>> /\ Append(<<>>, q) = <<q>> /\ List(q) = <<q>>
  BY NameOf, OneListed DEF Out, Has, List
<1>3. k.registered[d] = List(q) /\ \A e \in Dirs : e # d => k.registered[e] = m.registered[e]
  BY <1>1, <1>2, MgrFields
<1>4. k.registry[d] = q /\ \A e \in Dirs : e # d => k.registry[e] = m.registry[e]
  BY <1>1, MgrFields
<1>5. NamedAs(k, d, None)
  BY <1>1 DEF Out, Has, NamedAs
<1>6. QED
  BY <1>1, <1>3, <1>4, <1>5 DEF HalfIn, Has, Same, Alone

NamedRecord(m, d, p) ==
    [m EXCEPT !.versions[p.name] = {v \in m.versions[p.name] : v.plugin.version # p.version}
                                     \cup {[dir |-> d, plugin |-> p]},
              !.routes[p.name] = IF m.versions[p.name] = {} THEN @ + 1 ELSE @]

LEMMA NamedHas ==
    ASSUME NEW m \in MgrType, NEW d \in Dirs, NEW q \in Plugins, HalfIn(m, d, q), Alone(m, d, q),
           NEW k, k = NamedRecord(m, d, q)
    PROVE  Has(k, d, q, q, q) /\ Same(k, m, d)
<1> DEFINE others == {v \in m.versions[q.name] : v.plugin.version # q.version}
           new == [dir |-> d, plugin |-> q]
<1>1. /\ k.registry = m.registry /\ k.registered = m.registered
      /\ k.versions = [m.versions EXCEPT ![q.name] = others \cup {new}]
  BY MgrFields DEF NamedRecord
<1>2. new \in Instances /\ new.dir = d /\ new.plugin = q
      /\ \A v \in Instances : v.dir = d /\ v.plugin = q => v = new
  BY NameOf
<1> HIDE DEF new
<1>3. \A n \in Names : k.versions[n] = IF n = q.name THEN others \cup {new} ELSE m.versions[n]
  BY <1>1, MgrFields, NameOf
<1>4. \A n \in Names : \A v \in Instances : v.dir # d => (v \in k.versions[n] <=> v \in m.versions[n])
  <2> SUFFICES ASSUME NEW n \in Names, NEW v \in Instances, v.dir # d
               PROVE  v \in k.versions[n] <=> v \in m.versions[n]
    OBVIOUS
  <2>1. CASE n # q.name
    BY <1>3, <2>1
  <2>2. CASE n = q.name
    <3>1. v \in m.versions[n] => v.plugin.version # q.version
      BY <2>2 DEF Alone
    <3>2. v # new
      BY <1>2
    <3>3. QED
      BY <1>3, <2>2, <3>1, <3>2
  <2>3. QED
    BY <2>1, <2>2
<1>5. \A n \in Names : \A v \in Instances : v.dir = d => v \notin m.versions[n]
  BY DEF HalfIn, Has, NamedAs
<1>6. NamedAs(k, d, q)
  <2> SUFFICES ASSUME NEW n \in Names, NEW v \in Instances, v.dir = d
               PROVE  v \in k.versions[n] <=> q # None /\ v.plugin = q /\ n = q.name
    BY DEF NamedAs
  <2>1. CASE n # q.name
    BY <1>3, <1>5, <2>1
  <2>2. CASE n = q.name
    <3>1. v \in k.versions[n] <=> v = new
      BY <1>3, <1>5, <2>2
    <3>2. QED
      BY <1>2, <2>2, <3>1, NameOf
  <2>3. QED
    BY <2>1, <2>2
<1>7. Has(k, d, q, q, q)
  BY <1>1, <1>6 DEF HalfIn, Has
<1>8. Same(k, m, d)
  BY <1>1, <1>4 DEF Same
<1>9. QED
  BY <1>7, <1>8

LEMMA NameHas ==
    ASSUME NEW m \in MgrType, NEW d \in Dirs, NEW q \in Plugins, HalfIn(m, d, q), Alone(m, d, q),
           NEW k, k = Name(m, d, q)
    PROVE  In(k, d, q) /\ Same(k, m, d)
<1>1. CASE ~q.supported
  BY <1>1 DEF Name, HalfIn, In, Has, Sup, Same
<1>2. CASE q.supported
  <2>1. k = NamedRecord(m, d, q) /\ Sup(q) = q
    BY <1>2, NameOf DEF Name, NamedRecord, Sup
  <2>2. QED
    BY <2>1, NamedHas DEF In
<1>3. QED
  BY <1>1, <1>2

\* Every directory has at most one plugin, and what is named is listed.
Each(m) == \A d \in Dirs : \E a, l, v \in Held : Has(m, d, a, l, v) /\ (v # None => l = v)
\* A plugin is listed for one directory, and no other directory holds it.
ListedOnce(m) ==
    \A d, e \in Dirs, q \in Plugins :
      m.registered[d] = <<q>> /\ d # e => disk[e] # q /\ m.registered[e] # <<q>>

\* A directory whose plugin is listed for no other one is alone with it.
LEMMA AloneWith ==
    ASSUME OneOfAVersion, NEW m \in MgrType, Each(m), NEW d \in Dirs, NEW q \in Plugins,
           \A e \in Dirs : e # d => m.registered[e] # <<q>>
    PROVE  Alone(m, d, q)
<1> SUFFICES ASSUME NEW v \in m.versions[q.name], v.plugin.version = q.version, v.dir # d
             PROVE  FALSE
  BY DEF Alone
<1>1. q.name \in Names /\ v \in Instances
  BY MgrFields, NameOf
<1>2. v.dir \in Dirs /\ v.plugin \in Plugins
  BY <1>1 DEF Instances
<1>3. PICK a, l, w \in Held : Has(m, v.dir, a, l, w) /\ (w # None => l = w)
  BY <1>2 DEF Each
<1>4. w # None /\ v.plugin = w /\ q.name = w.name /\ l = w
  BY <1>1, <1>3 DEF Has, NamedAs
<1>5. w = q
  BY <1>2, <1>4 DEF OneOfAVersion
<1>6. m.registered[v.dir] = <<q>>
  BY <1>3, <1>4, <1>5 DEF Has, List
<1>7. QED
  BY <1>2, <1>6

-------------------------------------------------------------------------------
(* Steps *)

LEMMA ConsIs ==
    ASSUME NEW S, NEW a \in S, NEW w \in Seq(S)
    PROVE  /\ Cons(a, w) \in Seq(S) /\ Cons(a, w) # <<>>
           /\ Head(Cons(a, w)) = a /\ Tail(Cons(a, w)) = w
<1>1. <<a>> \in Seq(S) /\ Len(<<a>>) = 1 /\ <<a>>[1] = a /\ Len(w) \in Nat
  BY LenProperties
<1>2. /\ Cons(a, w) \in Seq(S) /\ Len(Cons(a, w)) = 1 + Len(w)
      /\ \A i \in 1..1 + Len(w) : Cons(a, w)[i] = IF i <= 1 THEN <<a>>[i] ELSE w[i-1]
  BY <1>1, ConcatProperties DEF Cons
<1> DEFINE c == Cons(a, w)
<1> HIDE DEF c
<1>3. c \in Seq(S) /\ Len(c) = 1 + Len(w) /\ c[1] = a /\ \A i \in 2..1 + Len(w) : c[i] = w[i-1]
  <2>1. c \in Seq(S) /\ Len(c) = 1 + Len(w)
    BY <1>2 DEF c
  <2>2. c[1] = a
    BY <1>1, <1>2 DEF c
  <2>3. ASSUME NEW i \in 2..1 + Len(w) PROVE c[i] = w[i-1]
    <3>1. i \in 1..1 + Len(w) /\ ~(i <= 1)
      BY <1>1
    <3>2. QED
      BY <1>2, <3>1 DEF c
  <2>4. QED
    BY <2>1, <2>2, <2>3
<1>4. c # <<>> /\ Head(c) = a
  BY <1>1, <1>3
<1>5. Tail(c) = w
  <2>1. /\ Tail(c) \in Seq(S) /\ Len(Tail(c)) = Len(w)
        /\ \A i \in 1..Len(w) : Tail(c)[i] = c[i+1]
    BY <1>1, <1>3, <1>4, HeadTailProperties
  <2>2. \A i \in 1..Len(w) : Tail(c)[i] = w[i]
    <3> SUFFICES ASSUME NEW i \in 1..Len(w) PROVE Tail(c)[i] = w[i]
      OBVIOUS
    <3>1. i + 1 \in 2..1 + Len(w) /\ (i + 1) - 1 = i
      BY <1>1
    <3>2. c[i+1] = w[i]
      BY <1>3, <3>1
    <3>3. QED
      BY <2>1, <3>2
  <2>3. QED
    BY <2>1, <2>2, SeqEqual
<1>6. QED
  BY <1>3, <1>4, <1>5 DEF c

\* The steps by their names, but for the one that ends what it is about half done.
AnyStep(t, x) ==
    \/ StepStop(t, x) \/ StepRemoved(t, x) \/ StepUnloaded(t, x)
    \/ StepAdded(t, x) \/ StepLoaded(t, x) \/ StepHold(t, x) \/ StepKeepOrDrop(t, x)
    \/ StepRedetect(t, x) \/ StepWatch(t, x)
    \/ StepDestroyed(t, x) \/ StepCreate(t, x) \/ StepForget(t, x)

LEMMA StepKind ==
    ASSUME NEW t, NEW x, AnyStep(t, x)
    PROVE  /\ tasks[t][x] # <<>>
           /\ Now(t, x).do = "stop" => StepStop(t, x)
           /\ Now(t, x).do = "removed" => StepRemoved(t, x)
           /\ Now(t, x).do = "unloaded" => StepUnloaded(t, x)
           /\ Now(t, x).do = "added" => StepAdded(t, x)
           /\ Now(t, x).do = "loaded" => StepLoaded(t, x)
           /\ Now(t, x).do = "hold" => StepHold(t, x)
           /\ Now(t, x).do \in {"keep", "drop"} => StepKeepOrDrop(t, x)
           /\ Now(t, x).do = "redetect" => StepRedetect(t, x)
           /\ Now(t, x).do = "watch" => StepWatch(t, x)
           /\ Now(t, x).do = "destroyed" => StepDestroyed(t, x)
           /\ Now(t, x).do = "create" => StepCreate(t, x)
           /\ Now(t, x).do = "forget" => StepForget(t, x)
<1> DEFINE do == Now(t, x).do
<1>1. \A step : Goes(t, x, step) => do = step /\ tasks[t][x] # <<>>
  BY DEF Goes, Now
<1> HIDE DEF do
<1>2. StepStop(t, x) => do = "stop" /\ tasks[t][x] # <<>>
  BY <1>1 DEF StepStop
<1>3. StepRemoved(t, x) => do = "removed" /\ tasks[t][x] # <<>>
  BY <1>1 DEF StepRemoved
<1>4. StepUnloaded(t, x) => do = "unloaded" /\ tasks[t][x] # <<>>
  BY <1>1 DEF StepUnloaded
<1>5. StepAdded(t, x) => do = "added" /\ tasks[t][x] # <<>>
  BY <1>1 DEF StepAdded
<1>6. StepLoaded(t, x) => do = "loaded" /\ tasks[t][x] # <<>>
  BY <1>1 DEF StepLoaded
<1>7. StepHold(t, x) => do = "hold" /\ tasks[t][x] # <<>>
  BY <1>1 DEF StepHold
<1>8. StepKeepOrDrop(t, x) => do \in {"keep", "drop"} /\ tasks[t][x] # <<>>
  BY <1>1 DEF StepKeepOrDrop
<1>9. StepRedetect(t, x) => do = "redetect" /\ tasks[t][x] # <<>>
  BY <1>1 DEF StepRedetect
<1>10. StepWatch(t, x) => do = "watch" /\ tasks[t][x] # <<>>
  BY <1>1 DEF StepWatch
<1>11. StepDestroyed(t, x) => do = "destroyed" /\ tasks[t][x] # <<>>
  BY <1>1 DEF StepDestroyed
<1>12. StepCreate(t, x) => do = "create" /\ tasks[t][x] # <<>>
  BY <1>1 DEF StepCreate
<1>13. StepForget(t, x) => do = "forget" /\ tasks[t][x] # <<>>
  BY <1>1 DEF StepForget
<1>14. QED
  BY <1>2, <1>3, <1>4, <1>5, <1>6, <1>7, <1>8, <1>9, <1>10, <1>11, <1>12, <1>13 DEF AnyStep, do

\* Only one strand of one task goes on.
Alike(t, x) == \A u \in TaskIds, y \in Strands : u # t \/ y # x => tasks'[u][y] = tasks[u][y]

LEMMA RestIs ==
    ASSUME Types, NEW t \in TaskIds, NEW x \in Strands, NEW more, Rest(t, x, more)
    PROVE  tasks'[t][x] = more \o Tail(tasks[t][x]) /\ Alike(t, x)
<1>1. tasks' = [tasks EXCEPT ![t] = [tasks[t] EXCEPT ![x] = more \o Tail(tasks[t][x])]]
  BY DEF Rest
<1> DEFINE w == more \o Tail(tasks[t][x])
<1> HIDE DEF w
<1>2. tasks' = [tasks EXCEPT ![t] = [tasks[t] EXCEPT ![x] = w]]
  BY <1>1 DEF w
<1>3. tasks'[t][x] = w /\ \A u \in TaskIds, y \in Strands : u # t \/ y # x => tasks'[u][y] = tasks[u][y]
  BY <1>2 DEF Types, TasksType
<1>4. QED
  BY <1>3 DEF w, Alike

\* ... by its first step alone, or with a step in its place.
LEMMA RestGoes ==
    ASSUME Types, NEW t \in TaskIds, NEW x \in Strands,
           NEW h \in Steps(Len(insts), Len(schemes)), NEW w \in Seq(Steps(Len(insts), Len(schemes))),
           tasks[t][x] = Cons(h, w)
    PROVE  /\ Now(t, x) = h
           /\ Rest(t, x, <<>>) => tasks'[t][x] = w /\ Alike(t, x)
           /\ \A g : Rest(t, x, <<g>>) => tasks'[t][x] = Cons(g, w) /\ Alike(t, x)
<1>1. Head(tasks[t][x]) = h /\ Tail(tasks[t][x]) = w
  BY ConsIs
<1>2. <<>> \o w = w
  BY ConcatEmptySeq
<1>3. QED
  BY <1>1, <1>2, RestIs DEF Now, Cons
-------------------------------------------------------------------------------
(* A plugin is removed, or added, step by step *)

Stopped(run, d) == \A r \in run : r.dir # d
RunningNamed == \A r \in running : r \in mgr.versions[r.plugin.name]

\* What is left of the removal of q, and what follows it.
Left(w, s, m, run, d, q, then) ==
    LET rest == Cons(Do("hold", s, d, None), then)
    IN \/ w = Cons(Do("stop", s, d, q), Cons(Do("removed", s, d, q), rest)) /\ In(m, d, q)
       \/ w = Cons(Do("removed", s, d, q), rest) /\ In(m, d, q) /\ Stopped(run, d)
       \/ w = Cons(Do("unloaded", s, d, q), rest) /\ HalfOut(m, d, q) /\ Stopped(run, d)
       \/ w = rest /\ Out(m, d)

\* What is left to be done to add p.
KidAdded(w, s, m, d, p, then) ==
    \/ w = Cons(Do("added", s, d, p), then) /\ Out(m, d)
    \/ w = Cons(Do("loaded", s, d, p), then) /\ HalfIn(m, d, p)

\* A directory that lists less than it did.
LEMMA Fewer ==
    ASSUME Each(mgr), ListedOnce(mgr), UNCHANGED disk, NEW d \in Dirs, Same(mgr', mgr, d),
           NEW a \in Held, NEW l \in Held, NEW v \in Held,
           Has(mgr', d, a, l, v), v # None => l = v,
           mgr'.registered[d] = <<>> \/ mgr'.registered[d] = mgr.registered[d]
    PROVE  Each(mgr') /\ ListedOnce(mgr)'
<1>1. Each(mgr')
  <2> SUFFICES ASSUME NEW e \in Dirs
               PROVE  \E aa, ll, vv \in Held : Has(mgr', e, aa, ll, vv) /\ (vv # None => ll = vv)
    BY DEF Each
  <2>1. CASE e = d
    BY <2>1
  <2>2. CASE e # d
    <3>1. PICK aa, ll, vv \in Held : Has(mgr, e, aa, ll, vv) /\ (vv # None => ll = vv)
      BY DEF Each
    <3>2. Has(mgr', e, aa, ll, vv)
      BY <2>2, <3>1, SameHas
    <3>3. QED
      BY <3>1, <3>2
  <2>3. QED
    BY <2>1, <2>2
<1>2. ListedOnce(mgr)'
  <2>1. \A e \in Dirs, q \in Plugins : mgr'.registered[e] = <<q>> => mgr.registered[e] = <<q>>
    BY OneListed DEF Same
  <2>2. QED
    BY <2>1 DEF ListedOnce
<1>3. QED
  BY <1>1, <1>2

LEMMA StillNamed ==
    ASSUME Types, RunningNamed, NEW d \in Dirs, Same(mgr', mgr, d), running' \subseteq running,
           Stopped(running', d) \/ mgr' = mgr \/ NamedAs(mgr, d, None)
    PROVE  RunningNamed'
<1> SUFFICES ASSUME NEW r \in running' PROVE r \in mgr'.versions[r.plugin.name]
  BY DEF RunningNamed
<1>1. r \in Instances /\ r \in mgr.versions[r.plugin.name]
  BY DEF Types, RunningNamed
<1>2. r.dir \in Dirs /\ r.plugin.name \in Names
  BY <1>1, NameOf DEF Instances
<1>3. CASE r.dir # d
  BY <1>1, <1>2, <1>3 DEF Same
<1>4. CASE r.dir = d
  BY <1>1, <1>2, <1>4 DEF Stopped, NamedAs
<1>5. QED
  BY <1>3, <1>4

LEMMA RemovalStep ==
    ASSUME Types, OneOfAVersion, Each(mgr), ListedOnce(mgr), RunningNamed, UNCHANGED disk,
           NEW t \in TaskIds, NEW d \in Dirs, NEW q \in Plugins, NEW s \in 1..Len(schemes),
           NEW then \in Seq(Steps(Len(insts), Len(schemes))),
           Left(tasks[t][d], s, mgr, running, d, q, then),
           tasks[t][d] # Cons(Do("hold", s, d, None), then),
           AnyStep(t, d)
    PROVE  /\ UNCHANGED <<schemes, insts, pluginPath>>
           /\ Left(tasks'[t][d], s, mgr', running', d, q, then)
           /\ Alike(t, d) /\ Same(mgr', mgr, d) /\ running' \subseteq running
           /\ Each(mgr') /\ ListedOnce(mgr)' /\ RunningNamed'
<1> DEFINE n == Len(insts)
           m == Len(schemes)
           rest == Cons(Do("hold", s, d, None), then)
           stop == Do("stop", s, d, q)
           removed == Do("removed", s, d, q)
           unloaded == Do("unloaded", s, d, q)
<1>1. n \in Nat /\ m \in Nat /\ d \in Strands /\ mgr \in MgrType
  BY Lengths DEF Strands, Types
<1>2. /\ stop \in Steps(n, m) /\ removed \in Steps(n, m) /\ unloaded \in Steps(n, m)
      /\ Do("hold", s, d, None) \in Steps(n, m)
  BY <1>1, DoType DEF Held
<1>3. rest \in Seq(Steps(n, m)) /\ Cons(removed, rest) \in Seq(Steps(n, m))
  BY <1>2, ConsIs
<1>4. /\ stop.do = "stop" /\ stop.d = d /\ stop.p = q
      /\ removed.do = "removed" /\ removed.s = s /\ removed.d = d /\ removed.p = q
      /\ unloaded.do = "unloaded" /\ unloaded.d = d /\ unloaded.p = q
  BY DEF Do
<1>5. In(mgr, d, q) \/ HalfOut(mgr, d, q) => Alone(mgr, d, q)
  <2> SUFFICES ASSUME In(mgr, d, q) \/ HalfOut(mgr, d, q) PROVE Alone(mgr, d, q)
    OBVIOUS
  <2>1. mgr.registered[d] = <<q>>
    BY NameOf DEF In, HalfOut, Has, List
  <2>2. \A e \in Dirs : e # d => mgr.registered[e] # <<q>>
    BY <2>1 DEF ListedOnce
  <2>3. QED
    BY <1>1, <2>2, AloneWith
<1>6. None \in Held /\ q \in Held /\ Sup(q) \in Held /\ (Sup(q) # None => Sup(q) = q)
  BY NameOf, SupIs DEF Held
<1>7. CASE tasks[t][d] = Cons(stop, Cons(removed, rest)) /\ In(mgr, d, q)
  <2>1. Now(t, d) = stop
    BY <1>1, <1>2, <1>3, <1>7, RestGoes
  <2>2. StepStop(t, d)
    BY <1>4, <2>1, StepKind
  <2>3. UNCHANGED <<schemes, insts, pluginPath, mgr>> /\ Rest(t, d, <<>>)
        /\ running' = running \ {[dir |-> d, plugin |-> q]}
    BY <1>4, <2>1, <2>2 DEF StepStop
  <2>4. tasks'[t][d] = Cons(removed, rest) /\ Alike(t, d)
    BY <1>1, <1>2, <1>3, <1>7, <2>3, RestGoes
  <2>5. Stopped(running', d)
    <3> SUFFICES ASSUME NEW r \in running', r.dir = d PROVE FALSE
      BY DEF Stopped
    <3>1. r \in running /\ r # [dir |-> d, plugin |-> q]
      BY <2>3
    <3>2. r \in Instances /\ r \in mgr.versions[r.plugin.name]
      BY <3>1 DEF Types, RunningNamed
    <3>3. r.plugin.name \in Names
      BY <3>2, NameOf DEF Instances
    <3>4. r.plugin = q
      BY <1>6, <1>7, <3>2, <3>3 DEF In, Has, NamedAs
    <3>5. QED
      BY <3>1, <3>2, <3>4, NameOf
  <2>6. Same(mgr', mgr, d) /\ Each(mgr') /\ ListedOnce(mgr)' /\ running' \subseteq running
    BY <2>3 DEF Same, ListedOnce
  <2>7. RunningNamed'
    BY <2>3 DEF RunningNamed
  <2>8. Left(tasks'[t][d], s, mgr', running', d, q, then)
    BY <1>7, <2>3, <2>4, <2>5 DEF Left
  <2>9. QED
    BY <2>3, <2>4, <2>6, <2>7, <2>8
<1>8. CASE tasks[t][d] = Cons(removed, rest) /\ In(mgr, d, q) /\ Stopped(running, d)
  <2> DEFINE gone == [mgr EXCEPT !.registry[d] = None]
  <2>1. Now(t, d) = removed
    BY <1>1, <1>2, <1>3, <1>8, RestGoes
  <2>2. StepRemoved(t, d)
    BY <1>4, <2>1, StepKind
  <2>3. /\ UNCHANGED <<schemes, insts, pluginPath, running>>
        /\ \/ mgr' = gone /\ Rest(t, d, <<unloaded>>)
           \/ mgr' = Unlist(gone, d, q) /\ Rest(t, d, <<>>)
    BY <1>4, <2>1, <2>2 DEF StepRemoved
  <2>4. gone \in MgrType
    BY <1>1, MgrTypes
  <2>5. HalfOut(gone, d, q) /\ Same(gone, mgr, d) /\ Alone(gone, d, q)
    BY <1>1, <1>5, <1>8, GoneHas
  <2> HIDE DEF gone
  <2>6. Stopped(running', d) /\ running' \subseteq running
    BY <1>8, <2>3
  <2>7. CASE mgr' = gone /\ Rest(t, d, <<unloaded>>)
    <3>1. tasks'[t][d] = Cons(unloaded, rest) /\ Alike(t, d)
      BY <1>1, <1>2, <1>3, <1>8, <2>7, RestGoes
    <3>2. mgr'.registered[d] = mgr.registered[d]
      BY <1>8, <2>5, <2>7 DEF In, HalfOut, Has
    <3>3. Each(mgr') /\ ListedOnce(mgr)'
      BY <1>6, <2>5, <2>7, <3>2, Fewer DEF HalfOut
    <3>4. RunningNamed'
      BY <2>5, <2>6, <2>7, StillNamed
    <3>5. Left(tasks'[t][d], s, mgr', running', d, q, then)
      BY <2>5, <2>6, <2>7, <3>1 DEF Left
    <3>6. QED
      BY <2>3, <2>5, <2>6, <2>7, <3>1, <3>3, <3>4, <3>5
  <2>8. CASE mgr' = Unlist(gone, d, q) /\ Rest(t, d, <<>>)
    <3>1. tasks'[t][d] = rest /\ Alike(t, d)
      BY <1>1, <1>2, <1>3, <1>8, <2>8, RestGoes
    <3>2. Out(mgr', d) /\ Same(mgr', gone, d)
      BY <2>4, <2>5, <2>8, UnlistHas
    <3>3. Same(mgr', mgr, d)
      BY <2>5, <3>2, SameTwice
    <3>4. mgr'.registered[d] = <<>>
      BY <3>2 DEF Out, Has, List
    <3>5. Each(mgr') /\ ListedOnce(mgr)'
      BY <1>6, <3>2, <3>3, <3>4, Fewer DEF Out
    <3>6. RunningNamed'
      BY <2>6, <3>3, StillNamed
    <3>7. Left(tasks'[t][d], s, mgr', running', d, q, then)
      BY <3>1, <3>2 DEF Left
    <3>8. QED
      BY <2>3, <2>6, <3>1, <3>3, <3>5, <3>6, <3>7
  <2>9. QED
    BY <2>3, <2>7, <2>8
<1>9. CASE tasks[t][d] = Cons(unloaded, rest) /\ HalfOut(mgr, d, q) /\ Stopped(running, d)
  <2>1. Now(t, d) = unloaded
    BY <1>1, <1>2, <1>3, <1>9, RestGoes
  <2>2. StepUnloaded(t, d)
    BY <1>4, <2>1, StepKind
  <2>3. /\ UNCHANGED <<schemes, insts, pluginPath, running>>
        /\ mgr' = Unlist(mgr, d, q) /\ Rest(t, d, <<>>)
    BY <1>4, <2>1, <2>2 DEF StepUnloaded
  <2>4. tasks'[t][d] = rest /\ Alike(t, d)
    BY <1>1, <1>2, <1>3, <1>9, <2>3, RestGoes
  <2>5. Out(mgr', d) /\ Same(mgr', mgr, d)
    BY <1>1, <1>5, <1>9, <2>3, UnlistHas
  <2>6. mgr'.registered[d] = <<>>
    BY <2>5 DEF Out, Has, List
  <2>7. Each(mgr') /\ ListedOnce(mgr)'
    BY <1>6, <2>5, <2>6, Fewer DEF Out
  <2>8. RunningNamed' /\ running' \subseteq running
    BY <1>9, <2>3, <2>5, StillNamed
  <2>9. Left(tasks'[t][d], s, mgr', running', d, q, then)
    BY <2>4, <2>5 DEF Left
  <2>10. QED
    BY <2>3, <2>4, <2>5, <2>7, <2>8, <2>9
<1>10. QED
  BY <1>7, <1>8, <1>9 DEF Left

OnDiskOnce == \A d, e \in Dirs : disk[d] = disk[e] => d = e \/ disk[d] = None

\* A directory that lists the plugin on disk.
LEMMA OneMore ==
    ASSUME Each(mgr), ListedOnce(mgr), OnDiskOnce, UNCHANGED disk, NEW d \in Dirs, NEW p \in Plugins,
           p = disk[d], Same(mgr', mgr, d), NEW a \in Held, NEW v \in Held,
           Has(mgr', d, a, p, v), v # None => v = p
    PROVE  Each(mgr') /\ ListedOnce(mgr)'
<1>0. p \in Held /\ p # None /\ mgr'.registered[d] = <<p>>
  BY NameOf DEF Has, List
<1>1. Each(mgr')
  <2> SUFFICES ASSUME NEW e \in Dirs
               PROVE  \E aa, ll, vv \in Held : Has(mgr', e, aa, ll, vv) /\ (vv # None => ll = vv)
    BY DEF Each
  <2>1. CASE e = d
    BY <1>0, <2>1
  <2>2. CASE e # d
    <3>1. PICK aa, ll, vv \in Held : Has(mgr, e, aa, ll, vv) /\ (vv # None => ll = vv)
      BY DEF Each
    <3>2. Has(mgr', e, aa, ll, vv)
      BY <2>2, <3>1, SameHas
    <3>3. QED
      BY <3>1, <3>2
  <2>3. QED
    BY <2>1, <2>2
<1>2. ListedOnce(mgr)'
  <2> SUFFICES ASSUME NEW e \in Dirs, NEW f \in Dirs, NEW q \in Plugins, e # f,
                      mgr'.registered[e] = <<q>>
               PROVE  disk[f] # q /\ mgr'.registered[f] # <<q>>
    BY DEF ListedOnce
  <2>1. CASE e = d
    <3>1. q = p
      BY <1>0, <2>1
    <3>2. disk[f] # q
      BY <1>0, <2>1, <3>1 DEF OnDiskOnce
    <3>3. mgr.registered[f] # <<q>>
      BY <2>1, <3>1 DEF ListedOnce
    <3>4. QED
      BY <2>1, <3>2, <3>3 DEF Same
  <2>2. CASE e # d
    <3>1. mgr.registered[e] = <<q>>
      BY <2>2 DEF Same
    <3>2. disk[f] # q /\ mgr.registered[f] # <<q>>
      BY <3>1 DEF ListedOnce
    <3>3. CASE f = d
      <4>1. q # p
        BY <3>2, <3>3
      <4>2. QED
        BY <1>0, <3>2, <3>3, <4>1
    <3>4. CASE f # d
      BY <3>2, <3>4 DEF Same
    <3>5. QED
      BY <3>3, <3>4
  <2>3. QED
    BY <2>1, <2>2
<1>3. QED
  BY <1>1, <1>2

LEMMA AddStep ==
    ASSUME Types, OneOfAVersion, OnDiskOnce, Each(mgr), ListedOnce(mgr), RunningNamed, UNCHANGED disk,
           NEW t \in TaskIds, NEW x \in Strands, NEW d \in Dirs, NEW p \in Plugins, p = disk[d],
           NEW s \in 1..Len(schemes), NEW then \in Seq(Steps(Len(insts), Len(schemes))),
           KidAdded(tasks[t][x], s, mgr, d, p, then),
           AnyStep(t, x)
    PROVE  /\ UNCHANGED <<schemes, insts, pluginPath, running>>
           /\ \/ KidAdded(tasks'[t][x], s, mgr', d, p, then)
              \/ tasks'[t][x] = then /\ In(mgr', d, p) /\ p.config # "bad"
           /\ Alike(t, x) /\ Same(mgr', mgr, d)
           /\ Each(mgr') /\ ListedOnce(mgr)' /\ RunningNamed'
<1> DEFINE n == Len(insts)
           m == Len(schemes)
           added == Do("added", s, d, p)
           loaded == Do("loaded", s, d, p)
<1>1. n \in Nat /\ m \in Nat /\ mgr \in MgrType
  BY Lengths DEF Types
<1>2. added \in Steps(n, m) /\ loaded \in Steps(n, m)
  BY <1>1, DoType
<1>3. /\ added.do = "added" /\ added.s = s /\ added.d = d /\ added.p = p
      /\ loaded.do = "loaded" /\ loaded.d = d /\ loaded.p = p
  BY DEF Do
<1>4. None \in Held /\ p \in Held /\ p # None /\ Sup(p) \in Held /\ (Sup(p) # None => Sup(p) = p)
  BY NameOf, SupIs DEF Held
<1>5. Alone(mgr, d, p)
  <2>1. \A e \in Dirs : e # d => mgr.registered[e] # <<p>>
    BY DEF ListedOnce
  <2>2. QED
    BY <1>1, <2>1, AloneWith
<1>6. CASE tasks[t][x] = Cons(added, then) /\ Out(mgr, d)
  <2> DEFINE listed == Register(mgr, d, p)
  <2>1. Now(t, x) = added
    BY <1>2, <1>6, RestGoes
  <2>2. StepAdded(t, x)
    BY <1>3, <2>1, StepKind
  <2>3. mgr.registry[d] = None
    BY <1>6 DEF Out, Has
  <2>4. /\ UNCHANGED <<schemes, insts, pluginPath, running>>
        /\ \/ mgr' = listed /\ Rest(t, x, <<loaded>>)
           \/ mgr' = Name(listed, d, p) /\ Rest(t, x, <<>>) /\ p.config = "none"
    BY <1>3, <2>1, <2>2, <2>3 DEF StepAdded
  <2>5. listed \in MgrType
    BY <1>1, MgrTypes
  <2>6. HalfIn(listed, d, p) /\ Same(listed, mgr, d) /\ Alone(listed, d, p)
    BY <1>1, <1>5, <1>6, RegisterHas
  <2>7. NamedAs(mgr, d, None) /\ running' \subseteq running
    BY <1>6, <2>4 DEF Out, Has
  <2> HIDE DEF listed
  <2>8. CASE mgr' = listed /\ Rest(t, x, <<loaded>>)
    <3>1. tasks'[t][x] = Cons(loaded, then) /\ Alike(t, x)
      BY <1>2, <1>6, <2>8, RestGoes
    <3>2. Each(mgr') /\ ListedOnce(mgr)'
      BY <1>4, <2>6, <2>8, OneMore DEF HalfIn
    <3>3. RunningNamed'
      BY <2>6, <2>7, <2>8, StillNamed
    <3>4. KidAdded(tasks'[t][x], s, mgr', d, p, then)
      BY <2>6, <2>8, <3>1 DEF KidAdded
    <3>5. QED
      BY <2>4, <2>6, <2>8, <3>1, <3>2, <3>3, <3>4
  <2>9. CASE mgr' = Name(listed, d, p) /\ Rest(t, x, <<>>) /\ p.config = "none"
    <3>1. tasks'[t][x] = then /\ Alike(t, x)
      BY <1>2, <1>6, <2>9, RestGoes
    <3>2. In(mgr', d, p) /\ Same(mgr', listed, d)
      BY <2>5, <2>6, <2>9, NameHas
    <3>3. Same(mgr', mgr, d)
      BY <2>6, <3>2, SameTwice
    <3>4. Each(mgr') /\ ListedOnce(mgr)'
      BY <1>4, <3>2, <3>3, OneMore DEF In
    <3>5. RunningNamed'
      BY <2>7, <3>3, StillNamed
    <3>6. QED
      BY <2>4, <2>9, <3>1, <3>2, <3>3, <3>4, <3>5
  <2>10. QED
    BY <2>4, <2>8, <2>9
<1>7. CASE tasks[t][x] = Cons(loaded, then) /\ HalfIn(mgr, d, p)
  <2>1. Now(t, x) = loaded
    BY <1>2, <1>7, RestGoes
  <2>2. StepLoaded(t, x)
    BY <1>3, <2>1, StepKind
  <2>3. /\ UNCHANGED <<schemes, insts, pluginPath, running>>
        /\ mgr' = Name(mgr, d, p) /\ Rest(t, x, <<>>) /\ p.config # "bad"
    BY <1>3, <2>1, <2>2 DEF StepLoaded, IsRefused
  <2>4. tasks'[t][x] = then /\ Alike(t, x)
    BY <1>2, <1>7, <2>3, RestGoes
  <2>5. In(mgr', d, p) /\ Same(mgr', mgr, d)
    BY <1>1, <1>5, <1>7, <2>3, NameHas
  <2>6. Each(mgr') /\ ListedOnce(mgr)'
    BY <1>4, <2>5, OneMore DEF In
  <2>7. NamedAs(mgr, d, None) /\ running' \subseteq running
    BY <1>7, <2>3 DEF HalfIn, Has
  <2>8. RunningNamed'
    BY <2>5, <2>7, StillNamed
  <2>9. QED
    BY <2>3, <2>4, <2>5, <2>6, <2>8
<1>8. QED
  BY <1>6, <1>7 DEF KidAdded

-------------------------------------------------------------------------------
(* The invariant: one change or call at a time is dealt with *)

\* The scheme of the registered path, and its record.
Cur == IF pluginPath = 0 THEN 0 ELSE insts[pluginPath].scheme
Sc == schemes[Cur]

Dead(s) == ~schemes[s].top /\ schemes[s].open = {} /\ ~schemes[s].timer
OthersDead == \A s \in 1..Len(schemes) : s # Cur => Dead(s)
OwnUp == \A s \in 1..Len(schemes) : schemes[s].up = s
MgrGood == Each(mgr) /\ ListedOnce(mgr) /\ RunningNamed

\* The scheme watches what it covers.
Live ==
    /\ pluginPath # 0 /\ Cur # 0
    /\ insts[pluginPath].redetect = Cur /\ Sc.owner = pluginPath
    /\ Sc.top <=> Sc.kind # 0
    /\ \A d \in Sc.kids \cup Sc.open : Depth[d] = Sc.kind
    /\ Sc.kind = 0 => Root \in Sc.kids

Right == Sc.timer \/ Sc.kind = DetectScheme
Fresh(d) == Sc.held[d] = disk[d] \/ (Sc.kind = 0 /\ disk[d] = None)
FreshBut(d) == \A e \in Sc.kids : e # d => Fresh(e)
AllBut(d) == \A e \in Dirs : e # d /\ Depth[e] = Sc.kind /\ disk[e] # None => e \in Sc.kids
Shown(d) == IF d \in Sc.kids /\ d \in Sc.open THEN Sc.held[d] ELSE None
ShownBut(d) == \A e \in Dirs : e # d => In(mgr, e, Shown(e))

\* What has become of the directory d since it was dealt with.
Edited(d, act) ==
    \/ act = "add" /\ Sc.held[d] = None /\ disk[d] # None
    \/ act = "change" /\ Sc.held[d] # None /\ disk[d] # None /\ disk[d] # Sc.held[d]
    \/ act = "delete" /\ Sc.held[d] # None /\ disk[d] = None

Event(at, d, act) == [s |-> Cur, at |-> at, d |-> d, act |-> act]
OldEvents == \A j \in 1..Len(events) : events[j].s # Cur

TopPending(d, act) ==
    /\ Sc.kind # 0 /\ FreshBut(d) /\ AllBut(d)
    /\ IF d \in Sc.kids
       THEN events = Cons(Event("top", d, act), Cons(Event("kid", d, act), <<>>)) /\ Edited(d, act)
       ELSE /\ events = Cons(Event("top", d, act), <<>>)
            /\ Depth[d] = Sc.kind => act = "add" /\ disk[d] # None

KidPending(d, act) ==
    /\ events = Cons(Event("kid", d, act), <<>>)
    /\ d \in Sc.kids /\ FreshBut(d) /\ AllBut(None)
    /\ \/ Edited(d, act) /\ Right
       \/ act = "other" /\ Sc.kind = 0 /\ d = Root /\ Fresh(d) /\ Sc.held[d] # None

NoneBusy == \A u \in TaskIds, x \in Strands : tasks[u][x] = <<>>
Busy(t) == \A u \in TaskIds, x \in Strands : u # t => tasks[u][x] = <<>>

Watching ==
    /\ Live /\ Sc.kids = Sc.open /\ ShownBut(None)
    /\ \/ OldEvents /\ Right /\ FreshBut(None) /\ AllBut(None)
       \/ \E d \in Dirs, act \in {"add", "change", "delete"} : TopPending(d, act)
       \/ \E d \in Dirs, act \in Acts : KidPending(d, act)
Resting ==
    /\ NoneBusy
    /\ IF pluginPath = 0 THEN \A d \in Dirs : Out(mgr, d) ELSE Watching

\* What an event left to do.
NewKid(w, d) ==
    LET p == disk[d]
        keep == Cons(Do("keep", Cur, d, None), <<>>)
    IN /\ d \notin Sc.kids /\ Depth[d] = Sc.kind /\ p # None /\ Sc.held[d] = p /\ Sc.timer
       /\ KidAdded(w, Cur, mgr, d, p, keep) \/ (w = keep /\ In(mgr, d, p))
Redo(d) == Cons(Do("redetect", Cur, d, None), <<>>)
KidFound(w, d) ==
    /\ d \in Sc.kids /\ disk[d] # None /\ Sc.held[d] = disk[d] /\ Right
    /\ \/ KidAdded(w, Cur, mgr, d, disk[d], <<>>)
       \/ disk[d].config = "bad" /\ KidAdded(w, Cur, mgr, d, disk[d], Redo(d))
Readd(d) == Cons(Do("hold", Cur, d, disk[d]), Cons(Do("added", Cur, d, disk[d]), <<>>))
KidLost(w, d) ==
    /\ d \in Sc.kids /\ Right /\ Sc.held[d] # None /\ disk[d] # Sc.held[d]
    /\ Left(w, Cur, mgr, running, d, Sc.held[d], IF disk[d] = None THEN Redo(d) ELSE Readd(d))
KidReplaced(w, d) ==
    /\ d \in Sc.kids /\ disk[d] # None /\ Sc.held[d] = None /\ Right /\ Out(mgr, d)
    /\ w = Readd(d)
Redetects(w, d) ==
    /\ d \in Sc.kids /\ Fresh(d) /\ In(mgr, d, Sc.held[d]) /\ (Right \/ Sc.kind = 0)
    /\ w = Redo(d)

Around(t, d) ==
    /\ Busy(t) /\ Live /\ events = <<>>
    /\ \A x \in Strands : x # d => tasks[t][x] = <<>>
    /\ Sc.open = Sc.kids \cup {d} /\ ShownBut(d) /\ FreshBut(d) /\ AllBut(d)
Work(w, d) == NewKid(w, d) \/ KidFound(w, d) \/ KidLost(w, d) \/ KidReplaced(w, d) \/ Redetects(w, d)
Handling(t, d) == Around(t, d) /\ Work(tasks[t][d], d)

Then(w) ==
    \/ w = Cons([do |-> "create", i |-> pluginPath, kind |-> DetectScheme], <<>>)
    \/ w = Cons([do |-> "forget"], <<>>)

\* A scheme is destroyed: its plugins are removed side by side.
Destroying(t) ==
    /\ Busy(t) /\ pluginPath # 0 /\ Cur # 0 /\ Dead(Cur)
    /\ \E w \in Seq(Steps(Len(insts), Len(schemes))) :
         Then(w) /\ tasks[t][Main] = Cons([do |-> "destroyed", i |-> pluginPath], w)
    /\ \A d \in Dirs :
         \/ tasks[t][d] = <<>> /\ Out(mgr, d)
         \/ \E q \in Plugins : Left(tasks[t][d], Cur, mgr, running, d, q, <<>>)

Destroyed(t) ==
    /\ Busy(t) /\ pluginPath # 0 /\ Cur = 0
    /\ Then(tasks[t][Main])
    /\ \A d \in Dirs : tasks[t][d] = <<>> /\ Out(mgr, d)

\* The directories of a new scheme that are not watched yet.
Unwatched(w) ==
    /\ \A j \in 1..Len(w) : w[j] = Do("watch", Cur, w[j].d, None) /\ w[j].d \in (Sc.kids \ Sc.open)
    /\ \A j, l \in 1..Len(w) : w[j].d = w[l].d => j = l
    /\ \A d \in (Sc.kids \ Sc.open) : \E j \in 1..Len(w) : w[j].d = d

Creating(t) ==
    /\ Busy(t) /\ Live /\ OldEvents /\ Sc.kind = DetectScheme /\ Sc.open \subseteq Sc.kids
    /\ \A d \in Dirs : tasks[t][d] = <<>>
    /\ \A d \in Sc.kids : Sc.held[d] = disk[d]
    /\ AllBut(None)
    /\ \/ tasks[t][Main] # <<>> /\ Unwatched(tasks[t][Main]) /\ ShownBut(None)
       \/ \E d \in Sc.open, w \in Seq(Steps(Len(insts), Len(schemes))) :
            /\ disk[d] # None /\ ShownBut(d) /\ Unwatched(w)
            /\ KidAdded(tasks[t][Main], Cur, mgr, d, disk[d], w)

Phase ==
    \/ Resting
    \/ \E t \in TaskIds : \/ \E d \in Dirs : Handling(t, d)
                          \/ Destroying(t) \/ Destroyed(t) \/ Creating(t)

OneAtATime == MgrGood /\ OthersDead /\ Phase
-------------------------------------------------------------------------------
LEMMA CurIs ==
    ASSUME Types
    PROVE  /\ Cur \in 0..Len(schemes)
           /\ pluginPath # 0 => pluginPath \in 1..Len(insts)
           /\ Cur # 0 => /\ Cur \in 1..Len(schemes) /\ Sc \in SchemeType(Len(insts))
                         /\ Sc.kids \in SUBSET Dirs /\ Sc.open \in SUBSET Dirs
                         /\ Sc.held \in [Dirs -> Held] /\ Sc.kind \in 0..3
                         /\ Sc.top \in BOOLEAN /\ Sc.timer \in BOOLEAN
<1>1. Len(insts) \in Nat /\ Len(schemes) \in Nat
  BY Lengths
<1>2. pluginPath # 0 => pluginPath \in 1..Len(insts)
  BY <1>1 DEF Types
<1>3. Cur \in 0..Len(schemes)
  BY <1>1, <1>2, InstHas DEF Cur
<1>4. Cur # 0 => Cur \in 1..Len(schemes)
  BY <1>1, <1>3
<1>5. QED
  BY <1>2, <1>3, <1>4, SchemeHas DEF Sc

\* Its record is replaced.
LEMMA ScSet ==
    ASSUME Types, Cur # 0, UNCHANGED <<insts, pluginPath>>, NEW sc,
           schemes' = [schemes EXCEPT ![Cur] = sc]
    PROVE  /\ Cur' = Cur /\ Sc' = sc
           /\ OthersDead => OthersDead'
<1>1. Cur' = Cur
  BY DEF Cur
<1>2. Cur \in 1..Len(schemes) /\ DOMAIN schemes = 1..Len(schemes)
  BY CurIs, LenProperties DEF Types
<1>3. schemes'[Cur] = sc /\ \A s \in 1..Len(schemes) : s # Cur => schemes'[s] = schemes[s]
  BY <1>2
<1>4. Len(schemes') = Len(schemes)
  <2>1. DOMAIN schemes' = 1..Len(schemes)
    BY <1>2
  <2>2. QED
    BY <2>1, Lengths
<1>5. Sc' = sc
  BY <1>1, <1>3 DEF Sc
<1>6. OthersDead => OthersDead'
  BY <1>1, <1>3, <1>4 DEF OthersDead, Dead
<1>7. QED
  BY <1>1, <1>5, <1>6

LEMMA ScSame ==
    ASSUME UNCHANGED <<insts, pluginPath, schemes>>
    PROVE  Cur' = Cur /\ Sc' = Sc /\ (OthersDead => OthersDead')
<1>1. Cur' = Cur
  BY DEF Cur
<1>2. QED
  BY <1>1 DEF Sc, OthersDead, Dead

LEMMA DetectSame == UNCHANGED disk => DetectScheme' = DetectScheme
BY DEF DetectScheme

\* A step about the directory d changes nothing about the others.
LEMMA AroundStays ==
    ASSUME Types, NEW t \in TaskIds, NEW d \in Dirs, Around(t, d),
           UNCHANGED <<disk, events, insts, pluginPath>>, Cur' = Cur,
           Sc'.kind = Sc.kind, Sc'.top = Sc.top, Sc'.owner = Sc.owner,
           Sc'.kids = Sc.kids, Sc'.open = Sc.open,
           \A e \in Dirs : e # d => Sc'.held[e] = Sc.held[e],
           Alike(t, d), Same(mgr', mgr, d)
    PROVE  Around(t, d)'
<1>1. Cur # 0 /\ Sc.kids \subseteq Dirs
  BY CurIs DEF Around, Live
<1>2. Busy(t)' /\ \A x \in Strands : x # d => tasks'[t][x] = <<>>
  BY DEF Around, Busy, Alike
<1>3. Live'
  <2>1. Live
    BY DEF Around
  <2>2. QED
    BY <2>1 DEF Live
<1>4. ShownBut(d)'
  <2> SUFFICES ASSUME NEW e \in Dirs, e # d PROVE In(mgr', e, Shown(e)')
    BY DEF ShownBut
  <2>1. In(mgr, e, Shown(e))
    BY DEF Around, ShownBut
  <2>2. Shown(e)' = Shown(e)
    BY DEF Shown
  <2>3. In(mgr', e, Shown(e))
    BY <2>1, SameHas DEF In
  <2>4. QED
    BY <2>2, <2>3
<1>5. FreshBut(d)'
  <2> SUFFICES ASSUME NEW e \in Sc.kids, e # d PROVE Fresh(e)'
    BY DEF FreshBut
  <2>1. Fresh(e) /\ e \in Dirs
    BY <1>1 DEF Around, FreshBut
  <2>2. QED
    BY <2>1 DEF Fresh
<1>6. AllBut(d)'
  BY DEF Around, AllBut
<1>7. events' = <<>> /\ Sc'.open = Sc'.kids \cup {d}
  BY DEF Around
<1>8. QED
  BY <1>2, <1>3, <1>4, <1>5, <1>6, <1>7 DEF Around

\* The last step about it leaves the scheme at rest.
LEMMA HandledRests ==
    ASSUME Types, NEW t \in TaskIds, NEW d \in Dirs, Around(t, d),
           UNCHANGED <<disk, events, insts, pluginPath>>, Cur' = Cur,
           Sc'.kind = Sc.kind, Sc'.top = Sc.top, Sc'.owner = Sc.owner,
           Sc'.kids = Sc.kids \cup {d}, Sc'.open = Sc.open, Sc'.held = Sc.held,
           Alike(t, d), tasks'[t][d] = <<>>, Same(mgr', mgr, d),
           In(mgr', d, Sc.held[d]), Right', Fresh(d), Depth[d] = Sc.kind
    PROVE  Resting'
<1>1. Cur # 0 /\ Sc.kids \subseteq Dirs /\ pluginPath' # 0
  BY CurIs DEF Around, Live
<1>2. NoneBusy'
  BY DEF Around, Busy, Alike, NoneBusy
<1>3. Live'
  <2>1. Live /\ Sc.open = Sc.kids \cup {d}
    BY DEF Around
  <2>2. QED
    BY <2>1 DEF Live
<1>4. Sc'.kids = Sc'.open /\ OldEvents'
  BY DEF Around, OldEvents
<1>5. ShownBut(None)'
  <2> SUFFICES ASSUME NEW e \in Dirs PROVE In(mgr', e, Shown(e)')
    BY DEF ShownBut
  <2>1. CASE e = d
    <3>1. Shown(d)' = Sc.held[d]
      BY <1>4 DEF Shown
    <3>2. QED
      BY <2>1, <3>1
  <2>2. CASE e # d
    <3>1. In(mgr, e, Shown(e))
      BY <2>2 DEF Around, ShownBut
    <3>2. Shown(e)' = Shown(e)
      BY <2>2 DEF Shown
    <3>3. In(mgr', e, Shown(e))
      BY <2>2, <3>1, SameHas DEF In
    <3>4. QED
      BY <3>2, <3>3
  <2>3. QED
    BY <2>1, <2>2
<1>6. FreshBut(None)'
  <2> SUFFICES ASSUME NEW e \in Sc'.kids PROVE Fresh(e)'
    BY DEF FreshBut
  <2>1. Fresh(e)
    BY DEF Around, FreshBut
  <2>2. QED
    BY <2>1 DEF Fresh
<1>7. AllBut(None)'
  BY DEF Around, AllBut
<1>8. Watching'
  BY <1>3, <1>4, <1>5, <1>6, <1>7 DEF Watching
<1>9. QED
  BY <1>1, <1>2, <1>8 DEF Resting

\* What a state is like in which one thing at a time was dealt with.
Good == Types /\ OneOfAVersion /\ OnDiskOnce /\ MgrGood /\ OthersDead /\ OwnUp

LEMMA HeldIs ==
    ASSUME Types, Cur # 0, NEW d \in Dirs
    PROVE  /\ Cur \in 1..Len(schemes) /\ disk[d] \in Held /\ Sc.held[d] \in Held
           /\ disk[d] # None => disk[d] \in Plugins
           /\ Sc.held[d] # None => Sc.held[d] \in Plugins
           /\ \A do \in {"keep", "drop", "redetect", "watch"} :
                Do(do, Cur, d, None) \in Steps(Len(insts), Len(schemes))
           /\ \A p \in Held : Do("hold", Cur, d, p) \in Steps(Len(insts), Len(schemes))
           /\ \A p \in Plugins, do \in {"stop", "removed", "unloaded", "added", "loaded"} :
                Do(do, Cur, d, p) \in Steps(Len(insts), Len(schemes))
           /\ <<>> \in Seq(Steps(Len(insts), Len(schemes)))
<1>1. Cur \in 1..Len(schemes) /\ Sc.held \in [Dirs -> Held]
  BY CurIs
<1>2. disk[d] \in Held /\ Sc.held[d] \in Held
  BY <1>1 DEF Types
<1>3. \A q \in Held : q # None => q \in Plugins
  BY DEF Held
<1>4. /\ \A do \in {"keep", "drop", "redetect", "watch"} :
           Do(do, Cur, d, None) \in Steps(Len(insts), Len(schemes))
      /\ \A p \in Held : Do("hold", Cur, d, p) \in Steps(Len(insts), Len(schemes))
      /\ \A p \in Plugins, do \in {"stop", "removed", "unloaded", "added", "loaded"} :
           Do(do, Cur, d, p) \in Steps(Len(insts), Len(schemes))
  BY <1>1, DoType, Lengths
<1>5. QED
  BY <1>1, <1>2, <1>3, <1>4, EmptySeq

\* An event left a new directory to be added.
LEMMA NewKidStep ==
    ASSUME Good, NEW t \in TaskIds, NEW d \in Dirs, Around(t, d), NewKid(tasks[t][d], d),
           AnyStep(t, d), UNCHANGED <<disk, events>>
    PROVE  MgrGood' /\ OthersDead' /\ (Handling(t, d)' \/ Resting')
<1> DEFINE p == disk[d]
           kd == Do("keep", Cur, d, None)
           keep == Cons(kd, <<>>)
           S == Steps(Len(insts), Len(schemes))
<1>1. Cur # 0 /\ d \in Strands /\ Types /\ p \in Plugins
  BY HeldIs DEF Around, Live, Strands, Good, NewKid
<1>2. Cur \in 1..Len(schemes) /\ kd \in S /\ <<>> \in Seq(S)
  BY <1>1, HeldIs
<1>3. keep \in Seq(S)
  BY <1>2, ConsIs
<1>4. d \notin Sc.kids /\ Depth[d] = Sc.kind /\ p # None /\ Sc.held[d] = p /\ Sc.timer
  BY DEF NewKid
<1>5. CASE KidAdded(tasks[t][d], Cur, mgr, d, p, keep)
  <2> HIDE DEF keep
  <2>1. /\ UNCHANGED <<schemes, insts, pluginPath, running>>
        /\ \/ KidAdded(tasks'[t][d], Cur, mgr', d, p, keep)
           \/ tasks'[t][d] = keep /\ In(mgr', d, p)
        /\ Alike(t, d) /\ Same(mgr', mgr, d) /\ MgrGood'
    BY <1>1, <1>2, <1>3, <1>5, AddStep DEF Good, MgrGood
  <2>2. Cur' = Cur /\ Sc' = Sc /\ OthersDead'
    BY <2>1, ScSame DEF Good
  <2>3. Around(t, d)'
    BY <1>1, <2>1, <2>2, AroundStays
  <2>4. NewKid(tasks[t][d], d)'
    BY <1>4, <2>1, <2>2 DEF NewKid, keep
  <2>5. QED
    BY <2>1, <2>2, <2>3, <2>4 DEF Handling, Work
<1>6. CASE tasks[t][d] = keep /\ In(mgr, d, p)
  <2>1. Now(t, d) = kd
    BY <1>1, <1>2, <1>6, RestGoes
  <2>2. kd.do = "keep" /\ kd.s = Cur /\ kd.d = d
    BY DEF Do
  <2>3. StepKeepOrDrop(t, d)
    BY <2>1, <2>2, StepKind
  <2>4. /\ schemes' = [schemes EXCEPT ![Cur] = [Sc EXCEPT !.kids = @ \cup {d}]]
        /\ Rest(t, d, <<>>) /\ UNCHANGED <<mgr, insts, pluginPath, running>>
    BY <2>1, <2>2, <2>3 DEF StepKeepOrDrop, Goes, Now, Sc
  <2>5. tasks'[t][d] = <<>> /\ Alike(t, d)
    BY <1>1, <1>2, <1>6, <2>4, RestGoes
  <2>6. Cur' = Cur /\ Sc' = [Sc EXCEPT !.kids = @ \cup {d}] /\ OthersDead'
    BY <1>1, <2>4, ScSet DEF Good
  <2>7. Sc \in SchemeType(Len(insts))
    BY <1>1, CurIs
  <2>8. /\ Sc'.kids = Sc.kids \cup {d} /\ Sc'.kind = Sc.kind /\ Sc'.top = Sc.top
        /\ Sc'.owner = Sc.owner /\ Sc'.open = Sc.open /\ Sc'.held = Sc.held /\ Sc'.timer = Sc.timer
    BY <2>6, <2>7 DEF SchemeType
  <2>9. Right' /\ Fresh(d) /\ In(mgr', d, Sc.held[d]) /\ Same(mgr', mgr, d)
    BY <1>4, <1>6, <2>4, <2>8 DEF Right, Fresh, Same
  <2>10. Resting'
    BY <1>1, <1>4, <2>4, <2>5, <2>6, <2>8, <2>9, HandledRests
  <2>11. MgrGood'
    BY <2>4 DEF Good, MgrGood, RunningNamed, ListedOnce
  <2>12. QED
    BY <2>6, <2>10, <2>11
<1>7. QED
  BY <1>5, <1>6 DEF NewKid

\* ... or a plugin in a directory that had none.
LEMMA KidFoundStep ==
    ASSUME Good, NEW t \in TaskIds, NEW d \in Dirs, Around(t, d), KidFound(tasks[t][d], d),
           AnyStep(t, d), UNCHANGED <<disk, events>>
    PROVE  MgrGood' /\ OthersDead' /\ (Handling(t, d)' \/ Resting')
<1> DEFINE p == disk[d]
<1>1. Cur # 0 /\ d \in Strands /\ Types /\ p \in Plugins
  BY HeldIs DEF Around, Live, Strands, Good, KidFound
<1>2. Cur \in 1..Len(schemes) /\ <<>> \in Seq(Steps(Len(insts), Len(schemes)))
  BY <1>1, HeldIs
<1>3. d \in Sc.kids /\ p # None /\ Sc.held[d] = p /\ Right
  BY DEF KidFound
<1>a. Redo(d) \in Seq(Steps(Len(insts), Len(schemes)))
  BY <1>1, <1>2, HeldIs, ConsIs DEF Redo
<1>b. PICK then \in Seq(Steps(Len(insts), Len(schemes))) :
        /\ then = <<>> \/ (then = Redo(d) /\ p.config = "bad")
        /\ KidAdded(tasks[t][d], Cur, mgr, d, p, then)
  BY <1>2, <1>a DEF KidFound
<1>4. /\ UNCHANGED <<schemes, insts, pluginPath, running>>
      /\ \/ KidAdded(tasks'[t][d], Cur, mgr', d, p, then)
         \/ tasks'[t][d] = then /\ In(mgr', d, p) /\ p.config # "bad"
      /\ Alike(t, d) /\ Same(mgr', mgr, d) /\ MgrGood'
  BY <1>1, <1>2, <1>b, AddStep DEF Good, MgrGood
<1>5. Cur' = Cur /\ Sc' = Sc /\ OthersDead' /\ DetectScheme' = DetectScheme
  BY <1>4, ScSame, DetectSame DEF Good
<1>6. Right'
  BY <1>3, <1>5 DEF Right
<1>7. CASE KidAdded(tasks'[t][d], Cur, mgr', d, p, then)
  <2>1. Around(t, d)'
    BY <1>1, <1>4, <1>5, AroundStays
  <2>a. Redo(d)' = Redo(d)
    BY <1>5 DEF Redo
  <2>2. KidFound(tasks[t][d], d)'
    BY <1>3, <1>4, <1>5, <1>6, <1>7, <1>b, <2>a DEF KidFound
  <2>3. QED
    BY <1>4, <1>5, <2>1, <2>2 DEF Handling, Work
<1>8. CASE tasks'[t][d] = then /\ In(mgr', d, p) /\ p.config # "bad"
  <2>1. Fresh(d) /\ Depth[d] = Sc.kind /\ Sc'.kids = Sc.kids \cup {d} /\ tasks'[t][d] = <<>>
    BY <1>3, <1>5, <1>8, <1>b DEF Fresh, Around, Live
  <2>2. Resting'
    BY <1>1, <1>3, <1>4, <1>5, <1>6, <1>8, <2>1, HandledRests
  <2>3. QED
    BY <1>4, <1>5, <2>2
<1>9. QED
  BY <1>4, <1>7, <1>8

\* What follows a removal does not start with a step of it.
LEMMA Emptied ==
    ASSUME NEW n \in Nat, NEW m \in Nat, NEW s \in 1..m, NEW d \in Dirs, NEW q \in Plugins,
           NEW then \in Seq(Steps(n, m)), NEW w, NEW k, NEW run, Left(w, s, k, run, d, q, then),
           w = Cons(Do("hold", s, d, None), then)
    PROVE  Out(k, d)
<1> DEFINE hold == Do("hold", s, d, None)
           rest == Cons(hold, then)
           stop == Do("stop", s, d, q)
           removed == Do("removed", s, d, q)
           unloaded == Do("unloaded", s, d, q)
<1>1. /\ stop \in Steps(n, m) /\ removed \in Steps(n, m) /\ unloaded \in Steps(n, m)
      /\ hold \in Steps(n, m)
  BY DoType DEF Held
<1>2. rest \in Seq(Steps(n, m)) /\ Cons(removed, rest) \in Seq(Steps(n, m)) /\ Head(rest) = hold
  BY <1>1, ConsIs
<1>3. /\ Head(Cons(stop, Cons(removed, rest))) = stop
      /\ Head(Cons(removed, rest)) = removed /\ Head(Cons(unloaded, rest)) = unloaded
  BY <1>1, <1>2, ConsIs
<1>4. stop # hold /\ removed # hold /\ unloaded # hold
  BY DEF Do
<1>5. QED
  BY <1>2, <1>3, <1>4 DEF Left

\* A step that replaces what the scheme holds for the directory.
LEMMA HoldStep ==
    ASSUME Good, NEW t \in TaskIds, NEW x \in Strands, NEW d \in Dirs, NEW p \in Held, Cur # 0,
           NEW w \in Seq(Steps(Len(insts), Len(schemes))),
           tasks[t][x] = Cons(Do("hold", Cur, d, p), w), AnyStep(t, x)
    PROVE  /\ UNCHANGED <<insts, pluginPath, mgr, running>>
           /\ Len(schemes') = Len(schemes)
           /\ tasks'[t][x] = w /\ Alike(t, x)
           /\ Cur' = Cur /\ OthersDead'
           /\ Sc'.kids = Sc.kids /\ Sc'.kind = Sc.kind /\ Sc'.top = Sc.top
           /\ Sc'.owner = Sc.owner /\ Sc'.open = Sc.open /\ Sc'.timer = Sc.timer
           /\ Sc'.held[d] = p /\ \A e \in Dirs : e # d => Sc'.held[e] = Sc.held[e]
<1> DEFINE h == Do("hold", Cur, d, p)
<1>1. h \in Steps(Len(insts), Len(schemes)) /\ Types
  BY HeldIs DEF Good
<1>2. h.do = "hold" /\ h.s = Cur /\ h.d = d /\ h.p = p
  BY DEF Do
<1>3. Now(t, x) = h
  BY <1>1, RestGoes
<1>4. StepHold(t, x)
  BY <1>2, <1>3, StepKind
<1>5. /\ schemes' = [schemes EXCEPT ![Cur] = [Sc EXCEPT !.held[d] = p]]
      /\ Rest(t, x, <<>>) /\ UNCHANGED <<mgr, insts, pluginPath, running>>
  BY <1>2, <1>3, <1>4 DEF StepHold, Sc
<1>6. tasks'[t][x] = w /\ Alike(t, x)
  BY <1>1, <1>5, RestGoes
<1>7. Cur' = Cur /\ Sc' = [Sc EXCEPT !.held[d] = p] /\ OthersDead'
  BY <1>1, <1>5, ScSet DEF Good
<1>8. Sc \in SchemeType(Len(insts))
  BY <1>1, CurIs
<1>9. /\ Sc'.kids = Sc.kids /\ Sc'.kind = Sc.kind /\ Sc'.top = Sc.top
      /\ Sc'.owner = Sc.owner /\ Sc'.open = Sc.open /\ Sc'.timer = Sc.timer
      /\ Sc'.held = [Sc.held EXCEPT ![d] = p]
  BY <1>7, <1>8 DEF SchemeType
<1>10. Sc'.held[d] = p /\ \A e \in Dirs : e # d => Sc'.held[e] = Sc.held[e]
  BY <1>8, <1>9 DEF SchemeType
<1>11. Len(schemes') = Len(schemes)
  <2>1. DOMAIN schemes' = 1..Len(schemes)
    BY <1>1, <1>5, LenProperties DEF Types
  <2>2. QED
    BY <1>1, <2>1, Lengths
<1>12. QED
  BY <1>5, <1>6, <1>7, <1>9, <1>10, <1>11

LEMMA ReaddType ==
    ASSUME Types, NEW d \in Dirs, Cur # 0
    PROVE  /\ Redo(d) \in Seq(Steps(Len(insts), Len(schemes)))
           /\ disk[d] # None => /\ Readd(d) \in Seq(Steps(Len(insts), Len(schemes)))
                                /\ Cons(Do("added", Cur, d, disk[d]), <<>>)
                                     \in Seq(Steps(Len(insts), Len(schemes)))
<1>1. Redo(d) \in Seq(Steps(Len(insts), Len(schemes)))
  BY HeldIs, ConsIs DEF Redo
<1>2. ASSUME disk[d] # None
      PROVE  /\ Readd(d) \in Seq(Steps(Len(insts), Len(schemes)))
             /\ Cons(Do("added", Cur, d, disk[d]), <<>>) \in Seq(Steps(Len(insts), Len(schemes)))
  <2>1. Cons(Do("added", Cur, d, disk[d]), <<>>) \in Seq(Steps(Len(insts), Len(schemes)))
    BY <1>2, HeldIs, ConsIs
  <2>2. QED
    BY <1>2, <2>1, HeldIs, ConsIs DEF Readd
<1>3. QED
  BY <1>1, <1>2

\* The plugin of a directory is gone, or another is in its place.
LEMMA KidLostStep ==
    ASSUME Good, NEW t \in TaskIds, NEW d \in Dirs, Around(t, d), KidLost(tasks[t][d], d),
           AnyStep(t, d), UNCHANGED <<disk, events>>
    PROVE  MgrGood' /\ OthersDead' /\ (Handling(t, d)' \/ Resting')
<1> DEFINE q == Sc.held[d]
           then == IF disk[d] = None THEN Redo(d) ELSE Readd(d)
           rest == Cons(Do("hold", Cur, d, None), then)
           S == Steps(Len(insts), Len(schemes))
<1>1. Cur # 0 /\ d \in Strands /\ Types /\ q \in Plugins
  BY HeldIs DEF Around, Live, Strands, Good, KidLost
<1>2. Cur \in 1..Len(schemes) /\ then \in Seq(S) /\ None \in Held
  BY <1>1, HeldIs, ReaddType DEF Held
<1>3. /\ d \in Sc.kids /\ Right /\ q # None /\ disk[d] # q
      /\ Left(tasks[t][d], Cur, mgr, running, d, q, then)
  BY DEF KidLost
<1> HIDE DEF then, q
<1>4. CASE tasks[t][d] # rest
  <2>1. /\ UNCHANGED <<schemes, insts, pluginPath>>
        /\ Left(tasks'[t][d], Cur, mgr', running', d, q, then)
        /\ Alike(t, d) /\ Same(mgr', mgr, d) /\ MgrGood'
    BY <1>1, <1>2, <1>3, <1>4, RemovalStep DEF Good, MgrGood
  <2>2. Cur' = Cur /\ Sc' = Sc /\ OthersDead' /\ DetectScheme' = DetectScheme
    BY <2>1, ScSame, DetectSame DEF Good
  <2>3. Around(t, d)'
    BY <1>1, <2>1, <2>2, AroundStays
  <2>4. then = IF disk'[d] = None THEN Redo(d)' ELSE Readd(d)'
    BY <2>2 DEF then, Redo, Readd
  <2>5. KidLost(tasks[t][d], d)'
    BY <1>3, <2>1, <2>2, <2>4 DEF KidLost, Right, q
  <2>6. QED
    BY <2>1, <2>2, <2>3, <2>5 DEF Handling, Work
<1>5. CASE tasks[t][d] = rest
  <2>1. Out(mgr, d)
    BY <1>1, <1>2, <1>3, <1>5, Lengths, Emptied
  <2>2. /\ UNCHANGED <<insts, pluginPath, mgr, running>>
        /\ tasks'[t][d] = then /\ Alike(t, d)
        /\ Cur' = Cur /\ OthersDead'
        /\ Sc'.kids = Sc.kids /\ Sc'.kind = Sc.kind /\ Sc'.top = Sc.top
        /\ Sc'.owner = Sc.owner /\ Sc'.open = Sc.open /\ Sc'.timer = Sc.timer
        /\ Sc'.held[d] = None /\ \A e \in Dirs : e # d => Sc'.held[e] = Sc.held[e]
    BY <1>1, <1>2, <1>5, HoldStep
  <2>3. MgrGood' /\ Same(mgr', mgr, d)
    BY <2>2 DEF Good, MgrGood, RunningNamed, ListedOnce, Same
  <2>4. Around(t, d)'
    BY <1>1, <2>2, <2>3, AroundStays
  <2>5. DetectScheme' = DetectScheme
    BY DetectSame
  <2>6. Right'
    BY <1>3, <2>2, <2>5 DEF Right
  <2>7. CASE disk[d] = None
    <3>1. tasks'[t][d] = Redo(d)'
      BY <2>2, <2>7 DEF then, Redo
    <3>2. Fresh(d)' /\ In(mgr', d, Sc'.held[d])
      BY <2>1, <2>2, <2>7 DEF Fresh, In, Out, Sup
    <3>3. Redetects(tasks[t][d], d)'
      BY <1>3, <2>2, <2>6, <3>1, <3>2 DEF Redetects
    <3>4. QED
      BY <2>2, <2>3, <2>4, <3>3 DEF Handling, Work
  <2>8. CASE disk[d] # None
    <3>1. tasks'[t][d] = Readd(d)'
      BY <2>2, <2>8 DEF then, Readd
    <3>2. KidReplaced(tasks[t][d], d)'
      BY <1>3, <2>1, <2>2, <2>6, <2>8, <3>1 DEF KidReplaced
    <3>3. QED
      BY <2>2, <2>3, <2>4, <3>2 DEF Handling, Work
  <2>9. QED
    BY <2>7, <2>8
<1>6. QED
  BY <1>4, <1>5

LEMMA KidReplacedStep ==
    ASSUME Good, NEW t \in TaskIds, NEW d \in Dirs, Around(t, d), KidReplaced(tasks[t][d], d),
           AnyStep(t, d), UNCHANGED <<disk, events>>
    PROVE  MgrGood' /\ OthersDead' /\ (Handling(t, d)' \/ Resting')
<1> DEFINE p == disk[d]
           w == Cons(Do("added", Cur, d, p), <<>>)
<1>1. Cur # 0 /\ d \in Strands /\ Types /\ p \in Plugins /\ p \in Held
  BY HeldIs DEF Around, Live, Strands, Good, KidReplaced
<1>2. w \in Seq(Steps(Len(insts), Len(schemes)))
  BY <1>1, NameOf, ReaddType
<1>3. /\ d \in Sc.kids /\ p # None /\ Right /\ Out(mgr, d)
      /\ tasks[t][d] = Cons(Do("hold", Cur, d, p), w)
  BY DEF KidReplaced, Readd
<1>4. /\ UNCHANGED <<insts, pluginPath, mgr, running>>
      /\ tasks'[t][d] = w /\ Alike(t, d)
      /\ Cur' = Cur /\ OthersDead'
      /\ Sc'.kids = Sc.kids /\ Sc'.kind = Sc.kind /\ Sc'.top = Sc.top
      /\ Sc'.owner = Sc.owner /\ Sc'.open = Sc.open /\ Sc'.timer = Sc.timer
      /\ Sc'.held[d] = p /\ \A e \in Dirs : e # d => Sc'.held[e] = Sc.held[e]
  BY <1>1, <1>2, <1>3, HoldStep
<1>5. MgrGood' /\ Same(mgr', mgr, d)
  BY <1>4 DEF Good, MgrGood, RunningNamed, ListedOnce, Same
<1>6. Around(t, d)'
  BY <1>1, <1>4, <1>5, AroundStays
<1>7. DetectScheme' = DetectScheme
  BY DetectSame
<1>8. Right'
  BY <1>3, <1>4, <1>7 DEF Right
<1>9. KidFound(tasks[t][d], d)'
  BY <1>3, <1>4, <1>8 DEF KidFound, KidAdded
<1>10. QED
  BY <1>4, <1>5, <1>6, <1>9 DEF Handling, Work

\* The directory is dealt with; the scheme is to be detected anew.
LEMMA RedetectsStep ==
    ASSUME Good, NEW t \in TaskIds, NEW d \in Dirs, Around(t, d), Redetects(tasks[t][d], d),
           AnyStep(t, d), UNCHANGED <<disk, events>>
    PROVE  MgrGood' /\ OthersDead' /\ (Handling(t, d)' \/ Resting')
<1> DEFINE h == Do("redetect", Cur, d, None)
           S == Steps(Len(insts), Len(schemes))
<1>1. Cur # 0 /\ d \in Strands /\ Types
  BY DEF Around, Live, Strands, Good
<1>2. h \in S /\ <<>> \in Seq(S) /\ Sc \in SchemeType(Len(insts))
  BY <1>1, HeldIs, CurIs
<1>3. d \in Sc.kids /\ Fresh(d) /\ In(mgr, d, Sc.held[d]) /\ tasks[t][d] = Cons(h, <<>>)
  BY DEF Redetects, Redo
<1>4. Now(t, d) = h
  BY <1>1, <1>2, <1>3, RestGoes
<1>5. h.do = "redetect" /\ h.s = Cur
  BY DEF Do
<1>6. StepRedetect(t, d)
  BY <1>4, <1>5, StepKind
<1>7. /\ schemes' = [schemes EXCEPT ![Cur] = [Sc EXCEPT !.timer = TRUE]]
      /\ Rest(t, d, <<>>) /\ UNCHANGED <<mgr, insts, pluginPath, running>>
  <2>1. schemes[Cur].up = Cur
    BY <1>1, CurIs DEF Good, OwnUp
  <2>2. QED
    BY <1>4, <1>5, <1>6, <2>1 DEF StepRedetect, Sc
<1>8. tasks'[t][d] = <<>> /\ Alike(t, d)
  BY <1>1, <1>2, <1>3, <1>7, RestGoes
<1>9. Cur' = Cur /\ Sc' = [Sc EXCEPT !.timer = TRUE] /\ OthersDead'
  BY <1>1, <1>7, ScSet DEF Good
<1>10. /\ Sc'.kids = Sc.kids /\ Sc'.kind = Sc.kind /\ Sc'.top = Sc.top
       /\ Sc'.owner = Sc.owner /\ Sc'.open = Sc.open /\ Sc'.held = Sc.held /\ Sc'.timer
  BY <1>2, <1>9 DEF SchemeType
<1>11. Right' /\ In(mgr', d, Sc.held[d]) /\ Same(mgr', mgr, d) /\ Sc'.kids = Sc.kids \cup {d}
  BY <1>3, <1>7, <1>10 DEF Right, Same
<1>12. Depth[d] = Sc.kind
  BY <1>3 DEF Around, Live
<1>13. Resting'
  BY <1>1, <1>3, <1>7, <1>8, <1>9, <1>10, <1>11, <1>12, HandledRests
<1>14. MgrGood'
  BY <1>7 DEF Good, MgrGood, RunningNamed, ListedOnce
<1>15. QED
  BY <1>9, <1>13, <1>14

LEMMA HandlingStep ==
    ASSUME Good, NEW t \in TaskIds, NEW d \in Dirs, Handling(t, d), NEW u \in TaskIds, NEW x \in Strands,
           AnyStep(u, x), UNCHANGED <<disk, events>>
    PROVE  MgrGood' /\ OthersDead' /\ (Handling(t, d)' \/ Resting')
<1>1. tasks[u][x] # <<>>
  BY StepKind
<1>2. u = t /\ x = d
  BY <1>1 DEF Handling, Around, Busy
<1>3. QED
  BY <1>2, NewKidStep, KidFoundStep, KidLostStep, KidReplacedStep, RedetectsStep DEF Handling, Work
-------------------------------------------------------------------------------
LEMMA LeftStays ==
    ASSUME NEW w, NEW s, NEW m, NEW k, NEW run, NEW now, NEW d, NEW e \in Dirs, NEW q, NEW then,
           Left(w, s, m, run, e, q, then), Same(k, m, d), e # d, now \subseteq run
    PROVE  Left(w, s, k, now, e, q, then)
<1>1. /\ In(m, e, q) => In(k, e, q)
      /\ HalfOut(m, e, q) => HalfOut(k, e, q)
      /\ Out(m, e) => Out(k, e)
  BY SameHas DEF In, HalfOut, Out
<1>2. Stopped(run, e) => Stopped(now, e)
  BY DEF Stopped
<1>3. QED
  BY <1>1, <1>2 DEF Left

LEMMA LeftNotEmpty ==
    ASSUME NEW n \in Nat, NEW m \in Nat, NEW s \in 1..m, NEW d \in Dirs, NEW q \in Plugins,
           NEW then \in Seq(Steps(n, m)), NEW w, NEW k, NEW run, Left(w, s, k, run, d, q, then)
    PROVE  w # <<>>
<1> DEFINE hold == Do("hold", s, d, None)
           rest == Cons(hold, then)
           stop == Do("stop", s, d, q)
           removed == Do("removed", s, d, q)
           unloaded == Do("unloaded", s, d, q)
<1>1. /\ stop \in Steps(n, m) /\ removed \in Steps(n, m) /\ unloaded \in Steps(n, m)
      /\ hold \in Steps(n, m)
  BY DoType DEF Held
<1>2. rest \in Seq(Steps(n, m)) /\ Cons(removed, rest) \in Seq(Steps(n, m)) /\ rest # <<>>
  BY <1>1, ConsIs
<1>3. /\ Cons(stop, Cons(removed, rest)) # <<>>
      /\ Cons(removed, rest) # <<>> /\ Cons(unloaded, rest) # <<>>
  BY <1>1, <1>2, ConsIs
<1>4. QED
  BY <1>2, <1>3 DEF Left

LEMMA DestroyingRemoves ==
    ASSUME Good, NEW t \in TaskIds, Destroying(t), NEW d \in Dirs, AnyStep(t, d),
           UNCHANGED <<disk, events>>
    PROVE  MgrGood' /\ OthersDead' /\ Destroying(t)'
<1> DEFINE S == Steps(Len(insts), Len(schemes))
<1>1. Types /\ Cur # 0 /\ pluginPath # 0 /\ Dead(Cur) /\ d \in Strands /\ Main \in Strands /\ d # Main
  BY PRAssumption DEF Good, Destroying, Strands
<1>2. <<>> \in Seq(S) /\ Cur \in 1..Len(schemes) /\ None \in Held
  BY <1>1, HeldIs, Lengths DEF Held
<1>3. tasks[t][d] # <<>>
  BY StepKind
<1>4. PICK q \in Plugins : Left(tasks[t][d], Cur, mgr, running, d, q, <<>>)
  BY <1>3 DEF Destroying
<1>5. /\ UNCHANGED <<insts, pluginPath>> /\ Len(schemes') = Len(schemes)
      /\ Alike(t, d) /\ Same(mgr', mgr, d) /\ running' \subseteq running /\ MgrGood' /\ OthersDead'
      /\ Cur' = Cur /\ Sc'.top = Sc.top /\ Sc'.open = Sc.open /\ Sc'.timer = Sc.timer
      /\ \/ tasks'[t][d] = <<>> /\ Out(mgr', d)
         \/ Left(tasks'[t][d], Cur, mgr', running', d, q, <<>>)
  <2>1. CASE tasks[t][d] # Cons(Do("hold", Cur, d, None), <<>>)
    <3>1. /\ UNCHANGED <<schemes, insts, pluginPath>>
          /\ Left(tasks'[t][d], Cur, mgr', running', d, q, <<>>)
          /\ Alike(t, d) /\ Same(mgr', mgr, d) /\ running' \subseteq running /\ MgrGood'
      BY <1>1, <1>2, <1>4, <2>1, RemovalStep DEF Good, MgrGood
    <3>2. Cur' = Cur /\ Sc' = Sc /\ OthersDead'
      BY <3>1, ScSame DEF Good
    <3>3. QED
      BY <3>1, <3>2
  <2>2. CASE tasks[t][d] = Cons(Do("hold", Cur, d, None), <<>>)
    <3>1. Out(mgr, d)
      BY <1>1, <1>2, <1>4, <2>2, Lengths, Emptied
    <3> DEFINE none == <<>>
    <3>0. none \in Seq(S) /\ tasks[t][d] = Cons(Do("hold", Cur, d, None), none)
      BY <1>2, <2>2
    <3> HIDE DEF none
    <3>2. /\ UNCHANGED <<insts, pluginPath, mgr, running>>
          /\ Len(schemes') = Len(schemes)
          /\ tasks'[t][d] = none /\ Alike(t, d)
          /\ Cur' = Cur /\ OthersDead'
          /\ Sc'.top = Sc.top /\ Sc'.open = Sc.open /\ Sc'.timer = Sc.timer
      BY <1>1, <1>2, <3>0, HoldStep
    <3>3. MgrGood' /\ Same(mgr', mgr, d)
      BY <3>2 DEF Good, MgrGood, RunningNamed, ListedOnce, Same
    <3>4. QED
      BY <3>1, <3>2, <3>3 DEF none
  <2>3. QED
    BY <2>1, <2>2
<1>6. Busy(t)' /\ pluginPath' # 0 /\ Cur' # 0 /\ Dead(Cur)'
  <2>1. Dead(Cur)'
    BY <1>1, <1>5 DEF Dead, Sc
  <2>2. Busy(t)'
    BY <1>5 DEF Destroying, Busy, Alike
  <2>3. QED
    BY <1>1, <1>5, <2>1, <2>2
<1>7. \E w \in Seq(Steps(Len(insts'), Len(schemes'))) :
        Then(w)' /\ tasks'[t][Main] = Cons([do |-> "destroyed", i |-> pluginPath'], w)
  <2>1. PICK w \in Seq(S) : Then(w) /\ tasks[t][Main] = Cons([do |-> "destroyed", i |-> pluginPath], w)
    BY DEF Destroying
  <2>2. tasks'[t][Main] = tasks[t][Main]
    BY <1>1, <1>5 DEF Alike
  <2>3. Then(w)'
    BY <1>5, <2>1, DetectSame DEF Then
  <2>4. QED
    BY <1>5, <2>1, <2>2, <2>3
<1>8. ASSUME NEW e \in Dirs
      PROVE  \/ tasks'[t][e] = <<>> /\ Out(mgr', e)
             \/ \E r \in Plugins : Left(tasks'[t][e], Cur', mgr', running', e, r, <<>>)
  <2>1. CASE e = d
    BY <1>5, <2>1
  <2>2. CASE e # d
    <3>1. tasks'[t][e] = tasks[t][e]
      BY <1>5, <2>2 DEF Alike, Strands
    <3>2. CASE tasks[t][e] = <<>> /\ Out(mgr, e)
      BY <1>5, <2>2, <3>1, <3>2, SameHas DEF Out
    <3>3. ASSUME NEW r \in Plugins, Left(tasks[t][e], Cur, mgr, running, e, r, <<>>)
          PROVE  Left(tasks'[t][e], Cur', mgr', running', e, r, <<>>)
      BY <1>5, <2>2, <3>1, <3>3, LeftStays
    <3>4. QED
      BY <3>2, <3>3 DEF Destroying
  <2>3. QED
    BY <2>1, <2>2
<1>9. Destroying(t)'
  BY <1>6, <1>7, <1>8 DEF Destroying
<1>10. QED
  BY <1>5, <1>9

LEMMA DestroyingEnds ==
    ASSUME Good, NEW t \in TaskIds, Destroying(t), AnyStep(t, Main),
           UNCHANGED <<disk, events>>
    PROVE  MgrGood' /\ OthersDead' /\ Destroyed(t)'
<1> DEFINE n == Len(insts)
           m == Len(schemes)
           S == Steps(n, m)
           h == [do |-> "destroyed", i |-> pluginPath]
<1>1. Types /\ Cur # 0 /\ pluginPath # 0 /\ Dead(Cur) /\ Main \in Strands /\ Main \notin Dirs
  BY PRAssumption DEF Good, Destroying, Strands
<1>2. PICK w \in Seq(S) : Then(w) /\ tasks[t][Main] = Cons(h, w)
  BY DEF Destroying
<1>3. h \in S /\ pluginPath \in 1..n
  BY <1>1, CurIs DEF Steps
<1>4. Now(t, Main) = h
  BY <1>1, <1>2, <1>3, RestGoes
<1>5. StepDestroyed(t, Main)
  BY <1>4, StepKind
<1>6. /\ \A d \in Dirs : tasks[t][d] = <<>>
      /\ insts' = [insts EXCEPT ![pluginPath] = [insts[pluginPath] EXCEPT !.scheme = 0]]
      /\ Rest(t, Main, <<>>) /\ UNCHANGED <<mgr, schemes, pluginPath, running>>
  BY <1>4, <1>5 DEF StepDestroyed
<1>7. tasks'[t][Main] = w /\ Alike(t, Main)
  BY <1>1, <1>2, <1>3, <1>6, RestGoes
<1>8. Cur' = 0
  <2>1. insts[pluginPath] \in InstType(m) /\ DOMAIN insts = 1..n
    BY <1>1, <1>3, ElementOfSeq, LenProperties DEF Types
  <2>2. insts'[pluginPath].scheme = 0
    BY <1>3, <1>6, <2>1 DEF InstType
  <2>3. QED
    BY <1>1, <1>6, <2>2 DEF Cur
<1>9. OthersDead'
  BY <1>1, <1>6 DEF Good, OthersDead, Dead
<1>10. MgrGood'
  BY <1>6 DEF Good, MgrGood, RunningNamed, ListedOnce
<1>11. Then(w)'
  BY <1>2, <1>6, DetectSame DEF Then
<1>12. ASSUME NEW d \in Dirs PROVE tasks'[t][d] = <<>> /\ Out(mgr', d)
  <2>1. tasks[t][d] = <<>> /\ tasks'[t][d] = tasks[t][d]
    BY <1>1, <1>6, <1>7 DEF Alike, Strands
  <2>2. Out(mgr, d)
    <3>1. \A q \in Plugins : ~Left(tasks[t][d], Cur, mgr, running, d, q, <<>>)
      <4>1. n \in Nat /\ m \in Nat /\ Cur \in 1..m /\ <<>> \in Seq(S)
        BY <1>1, Lengths, CurIs, EmptySeq
      <4> HIDE DEF n, m
      <4>2. QED
        BY <2>1, <4>1, LeftNotEmpty
    <3>2. QED
      BY <3>1 DEF Destroying
  <2>3. QED
    BY <1>6, <2>1, <2>2
<1>13. Busy(t)'
  BY <1>7 DEF Destroying, Busy, Alike
<1>14. QED
  BY <1>1, <1>6, <1>7, <1>8, <1>9, <1>10, <1>11, <1>12, <1>13 DEF Destroyed

LEMMA DestroyingStep ==
    ASSUME Good, NEW t \in TaskIds, Destroying(t), NEW u \in TaskIds, NEW x \in Strands,
           AnyStep(u, x), UNCHANGED <<disk, events>>
    PROVE  MgrGood' /\ OthersDead' /\ (Destroying(t)' \/ Destroyed(t)')
<1>1. tasks[u][x] # <<>>
  BY StepKind
<1>2. u = t /\ (x = Main \/ x \in Dirs)
  BY <1>1 DEF Destroying, Busy, Strands
<1>3. QED
  BY <1>2, DestroyingEnds, DestroyingRemoves

-------------------------------------------------------------------------------
\* What holds while the plugins of a new scheme are added.
Created(t) ==
    /\ Busy(t) /\ Live /\ OldEvents /\ Sc.kind = DetectScheme /\ Sc.open \subseteq Sc.kids
    /\ \A d \in Dirs : tasks[t][d] = <<>>
    /\ \A d \in Sc.kids : Sc.held[d] = disk[d]
    /\ AllBut(None)

LEMMA CreatedNext ==
    ASSUME Types', NEW t \in TaskIds, Created(t)', ShownBut(None)', Unwatched(tasks[t][Main])'
    PROVE  Creating(t)' \/ Resting'
<1>1. CASE tasks'[t][Main] # <<>>
  BY <1>1 DEF Created, Creating
<1>2. CASE tasks'[t][Main] = <<>>
  <2>1. \A d \in Sc'.kids \ Sc'.open : \E j \in 1..Len(tasks'[t][Main]) : tasks'[t][Main][j].d = d
    BY DEF Unwatched
  <2>2. 1..Len(tasks'[t][Main]) = {}
    BY <1>2
  <2>3. Sc'.kids = Sc'.open
    BY <2>1, <2>2 DEF Created
  <2>4. NoneBusy'
    BY <1>2 DEF Created, Busy, NoneBusy, Strands
  <2>5. Right' /\ FreshBut(None)'
    BY DEF Created, Right, FreshBut, Fresh
  <2>6. Watching'
    BY <2>3, <2>5 DEF Created, Watching
  <2>7. pluginPath' # 0
    BY DEF Created, Live
  <2>8. QED
    BY <2>4, <2>6, <2>7 DEF Resting
<1>3. QED
  BY <1>1, <1>2

\* The scheme that a new path, or a redetection, gets.
LEMMA CreateStep ==
    ASSUME Good, Types', NEW t \in TaskIds, Destroyed(t), StepCreate(t, Main),
           Now(t, Main) = [do |-> "create", i |-> pluginPath, kind |-> DetectScheme],
           Tail(tasks[t][Main]) = <<>>, UNCHANGED <<disk, events>>
    PROVE  MgrGood' /\ OthersDead' /\ (Creating(t)' \/ Resting')
<1> DEFINE n == Len(insts)
           m == Len(schemes)
           s == m + 1
           kind == DetectScheme
           kids == Detect(kind)
           held == [d \in Dirs |-> IF d \in kids THEN disk[d] ELSE None]
           new == [owner |-> pluginPath, kind |-> kind, kids |-> kids, top |-> kind # 0, open |-> {},
                   held |-> held, timer |-> FALSE, up |-> s]
<1>1. /\ Types /\ Cur = 0 /\ pluginPath # 0 /\ pluginPath \in 1..n /\ Main \in Strands /\ Main \notin Dirs
      /\ n \in Nat /\ m \in Nat
  BY PRAssumption, CurIs, Lengths DEF Good, Destroyed, Strands
<1>2. /\ UNCHANGED <<mgr, pluginPath, running>>
      /\ insts' = [insts EXCEPT ![pluginPath] = [scheme |-> s, redetect |-> s]]
      /\ schemes' = Append(schemes, new)
      /\ \E order \in SetToSeqs(kids) : Rest(t, Main, WatchAll(s, order))
  BY DEF StepCreate
<1>3. kind \in 0..3 /\ DetectScheme' = kind
  BY SchemeDetected, DetectSame
<1>4. kids \in SUBSET Dirs
  BY <1>3, DetectType
<1> HIDE DEF kind, kids
<1>5. insts'[pluginPath] = [scheme |-> s, redetect |-> s]
  BY <1>1, <1>2, LenProperties DEF Types
<1>6. Cur' = s /\ insts'[pluginPath'].redetect = s
  BY <1>1, <1>2, <1>5 DEF Cur
<1>7. Len(schemes') = s /\ schemes'[s] = new /\ \A k \in 1..m : schemes'[k] = schemes[k]
  <2> HIDE DEF new
  <2>1. schemes \in Seq(SchemeType(n)) /\ schemes' = Append(schemes, new)
    BY <1>1, <1>2 DEF Types
  <2>2. QED
    BY <1>1, <2>1
<1>8. Sc' = new
  BY <1>6, <1>7 DEF Sc
<1>9. /\ Sc'.owner = pluginPath /\ Sc'.kind = kind /\ Sc'.kids = kids /\ (Sc'.top <=> kind # 0)
      /\ Sc'.open = {} /\ Sc'.held = held /\ ~Sc'.timer
  BY <1>8
<1> HIDE DEF new
<1>10. OthersDead'
  <2> SUFFICES ASSUME NEW k \in 1..Len(schemes'), k # Cur' PROVE Dead(k)'
    BY DEF OthersDead
  <2>1. k \in 1..m
    BY <1>1, <1>6, <1>7
  <2>2. Dead(k)
    BY <1>1, <2>1 DEF Good, OthersDead
  <2>3. QED
    BY <1>7, <2>1, <2>2 DEF Dead
<1>11. MgrGood'
  BY <1>2 DEF Good, MgrGood, RunningNamed, ListedOnce
<1>12. /\ \A d \in kids : Depth[d] = kind
       /\ \A d \in Dirs : Depth[d] = kind /\ disk[d] # None => d \in kids
       /\ kind = 0 => Root \in kids
  <2>1. Depth[Root] = 0 /\ \A d \in Dirs : Depth[d] \in 0..2 /\ (Depth[d] = 0 => d = Root)
    BY PRAssumption
  <2>2. CASE kind = 0
    BY <2>1, <2>2 DEF kids, Detect, DetectPlugin
  <2>3. CASE kind = 1
    BY <2>3 DEF kids, Detect, DetectPluginsDir
  <2>4. CASE kind = 2
    BY <2>4 DEF kids, Detect, DetectNested
  <2>5. CASE kind = 3
    <3>1. kids = {}
      BY <2>5 DEF kids, Detect
    <3>2. \A d \in Dirs : Depth[d] # 3
      BY <2>1
    <3>3. QED
      BY <2>5, <3>1, <3>2
  <2>6. QED
    BY <1>3, <2>2, <2>3, <2>4, <2>5
<1>13. Live'
  BY <1>1, <1>2, <1>6, <1>9, <1>12 DEF Live
<1>14. OldEvents'
  <2> SUFFICES ASSUME NEW j \in 1..Len(events) PROVE events[j].s # s
    BY <1>6 DEF OldEvents
  <2>1. events[j] \in EventType(m)
    BY <1>1, ElementOfSeq DEF Types
  <2>2. events[j].s \in 1..m
    BY <2>1 DEF EventType
  <2>3. QED
    BY <1>1, <2>2
<1>15. PICK order \in SetToSeqs(kids) : Rest(t, Main, WatchAll(s, order))
  BY <1>2
<1>16. /\ order \in Seq(Dirs) /\ Len(order) \in Nat
       /\ \A j \in 1..Len(order) : order[j] \in kids
       /\ \A j, l \in 1..Len(order) : order[j] = order[l] => j = l
       /\ \A d \in kids : \E j \in 1..Len(order) : order[j] = d
  BY <1>4, OrderIs
<1> DEFINE w == WatchAll(s, order)
<1>17. Len(w) = Len(order) /\ \A j \in 1..Len(order) : w[j] = Do("watch", s, order[j], None) /\ w[j].d = order[j]
  BY <1>16 DEF WatchAll, Do
<1>18. tasks'[t][Main] = w /\ Alike(t, Main)
  <2>1. tasks'[t][Main] = w \o <<>> /\ Alike(t, Main)
    BY <1>1, <1>15, RestIs
  <2>2. w \in Seq(Steps(n, s))
    <3>1. \A j \in 1..Len(order) : Do("watch", s, order[j], None) \in Steps(n, s)
      <4>1. s \in 1..s /\ s \in Nat
        BY <1>1
      <4>2. \A j \in 1..Len(order) : order[j] \in Dirs
        BY <1>4, <1>16
      <4>3. QED
        BY <1>1, <4>1, <4>2, DoType
    <3>2. QED
      BY <1>16, <3>1 DEF WatchAll
  <2> HIDE DEF w
  <2>3. QED
    BY <2>1, <2>2, ConcatEmptySeq
<1> HIDE DEF w
<1>19. Unwatched(tasks[t][Main])'
  <2>1. \A j \in 1..Len(w) : w[j] = Do("watch", s, w[j].d, None) /\ w[j].d \in kids \ {}
    BY <1>16, <1>17
  <2>2. \A j, l \in 1..Len(w) : w[j].d = w[l].d => j = l
    BY <1>16, <1>17
  <2>3. \A d \in kids \ {} : \E j \in 1..Len(w) : w[j].d = d
    BY <1>16, <1>17
  <2> HIDE DEF s
  <2>4. QED
    BY <1>6, <1>9, <1>18, <2>1, <2>2, <2>3 DEF Unwatched
<1>20. \A d \in Dirs : tasks'[t][d] = <<>> /\ Out(mgr', d)
  BY <1>1, <1>2, <1>18 DEF Destroyed, Alike, Strands
<1>21. ShownBut(None)'
  BY <1>9, <1>20 DEF ShownBut, Shown, In, Out, Sup
<1>22. Created(t)'
  <2>1. Busy(t)'
    BY <1>18 DEF Destroyed, Busy, Alike
  <2>2. \A d \in kids : held[d] = disk[d]
    BY <1>4
  <2> HIDE DEF held
  <2>3. AllBut(None)'
    BY <1>9, <1>12 DEF AllBut
  <2>4. QED
    BY <1>3, <1>9, <1>13, <1>14, <1>20, <2>1, <2>2, <2>3 DEF Created
<1>23. QED
  BY <1>10, <1>11, <1>19, <1>21, <1>22, CreatedNext

LEMMA DestroyedStep ==
    ASSUME Good, Types', NEW t \in TaskIds, Destroyed(t), NEW u \in TaskIds, NEW x \in Strands,
           AnyStep(u, x), UNCHANGED <<disk, events>>
    PROVE  MgrGood' /\ OthersDead' /\ (Creating(t)' \/ Resting')
<1> DEFINE n == Len(insts)
           m == Len(schemes)
           S == Steps(n, m)
           create == [do |-> "create", i |-> pluginPath, kind |-> DetectScheme]
           forget == [do |-> "forget"]
           none == <<>>
<1>1. /\ Types /\ Cur = 0 /\ pluginPath # 0 /\ pluginPath \in 1..n /\ Main \in Strands /\ Main \notin Dirs
  BY PRAssumption, CurIs DEF Good, Destroyed, Strands
<1>2. tasks[u][x] # <<>>
  BY StepKind
<1>3. u = t /\ x = Main
  BY <1>2 DEF Destroyed, Busy, Strands
<1>4. create \in S /\ forget \in S /\ none \in Seq(S)
  BY <1>1, SchemeDetected, EmptySeq DEF Steps
<1>5. create.do = "create" /\ forget.do = "forget"
  OBVIOUS
<1>6. tasks[t][Main] = Cons(create, none) \/ tasks[t][Main] = Cons(forget, none)
  BY DEF Destroyed, Then
<1>7. CASE tasks[t][Main] = Cons(create, none)
  <2> HIDE DEF create, none
  <2>0. Now(t, Main) = create
    BY <1>1, <1>4, <1>7, RestGoes
  <2>1. Now(t, Main) = create /\ Tail(tasks[t][Main]) = none
    <3> HIDE DEF S
    <3>1. QED
      BY <1>4, <1>7, <2>0, ConsIs
  <2>2. StepCreate(t, Main)
    BY <1>3, <1>5, <2>1, StepKind
  <2>3. QED
    BY <2>1, <2>2, CreateStep DEF create, none
<1>8. CASE tasks[t][Main] = Cons(forget, none)
  <2> HIDE DEF forget, none
  <2>1. Now(t, Main) = forget
    BY <1>1, <1>4, <1>8, RestGoes
  <2>2. StepForget(t, Main)
    BY <1>3, <1>5, <2>1, StepKind
  <2>3. pluginPath' = 0 /\ Rest(t, Main, <<>>) /\ UNCHANGED <<mgr, schemes, insts, running>>
    BY <2>2 DEF StepForget
  <2>4. tasks'[t][Main] = none /\ Alike(t, Main)
    BY <1>1, <1>4, <1>8, <2>3, RestGoes
  <2>5. Cur' = 0
    BY <2>3 DEF Cur
  <2>6. OthersDead' /\ MgrGood'
    BY <1>1, <2>3, <2>5 DEF Good, OthersDead, Dead, MgrGood, RunningNamed, ListedOnce
  <2>7. NoneBusy'
    BY <1>1, <2>4 DEF Destroyed, Busy, Alike, NoneBusy, Strands, none
  <2>8. \A d \in Dirs : Out(mgr', d)
    BY <2>3 DEF Destroyed
  <2>9. QED
    BY <2>3, <2>6, <2>7, <2>8 DEF Resting
<1>9. QED
  BY <1>6, <1>7, <1>8

\* The common part of Creating outlives a step of the main strand.
LEMMA CreatedStays ==
    ASSUME NEW t \in TaskIds, Created(t), UNCHANGED <<disk, events, insts, pluginPath>>, Cur' = Cur,
           Sc'.kind = Sc.kind, Sc'.top = Sc.top, Sc'.owner = Sc.owner, Sc'.kids = Sc.kids,
           Sc'.held = Sc.held, Sc'.open \subseteq Sc.kids, Alike(t, Main)
    PROVE  Created(t)'
<1>1. Main \notin Dirs
  BY PRAssumption
<1>2. Busy(t)' /\ \A d \in Dirs : tasks'[t][d] = <<>>
  BY <1>1 DEF Created, Busy, Alike, Strands
<1>3. Live'
  <2>1. Live /\ Sc.open \subseteq Sc.kids
    BY DEF Created
  <2>2. QED
    BY <2>1 DEF Live
<1>4. OldEvents' /\ AllBut(None)'
  BY DEF Created, OldEvents, AllBut
<1>5. Sc'.kind = DetectScheme' /\ \A d \in Sc'.kids : Sc'.held[d] = disk'[d]
  BY DetectSame DEF Created
<1>6. QED
  BY <1>2, <1>3, <1>4, <1>5 DEF Created

\* The next directory is watched.
LEMMA WatchStep ==
    ASSUME Good, Types', NEW t \in TaskIds, Created(t), tasks[t][Main] # <<>>,
           Unwatched(tasks[t][Main]), ShownBut(None), AnyStep(t, Main), UNCHANGED <<disk, events>>
    PROVE  MgrGood' /\ OthersDead' /\ (Creating(t)' \/ Resting')
<1>w. PICK w : w = tasks[t][Main]
  OBVIOUS
<1>p. PICK p : p = Sc.held[w[1].d]
  OBVIOUS
<1> DEFINE n == Len(insts)
           m == Len(schemes)
           S == Steps(n, m)
           d == w[1].d
           rest == Tail(w)
           h == Do("watch", Cur, d, None)
           added == Do("added", Cur, d, p)
<1>1. Types /\ Cur # 0 /\ Main \in Strands /\ Main \notin Dirs /\ Sc.kids \subseteq Dirs
  BY PRAssumption, CurIs DEF Good, Created, Live, Strands
<1>2. w \in Seq(S) /\ w # <<>>
  BY <1>w, <1>1 DEF Types, TasksType
<1>3. /\ rest \in Seq(S) /\ Len(w) \in Nat /\ 1 \in 1..Len(w) /\ Len(rest) = Len(w) - 1
      /\ \A j \in 1..Len(rest) : rest[j] = w[j+1]
      /\ Head(w) = w[1]
  <2> HIDE DEF S
  <2>1. Len(w) \in Nat \ {0}
    BY <1>2, EmptySeq
  <2>2. QED
    BY <1>2, <2>1, HeadTailProperties
<1>4. /\ \A j \in 1..Len(w) : w[j] = Do("watch", Cur, w[j].d, None) /\ w[j].d \in (Sc.kids \ Sc.open)
      /\ \A j, l \in 1..Len(w) : w[j].d = w[l].d => j = l
      /\ \A e \in (Sc.kids \ Sc.open) : \E j \in 1..Len(w) : w[j].d = e
  BY <1>w DEF Unwatched
<1>5. Now(t, Main) = h /\ d \in Sc.kids /\ d \notin Sc.open /\ d \in Dirs
  BY <1>w, <1>1, <1>3, <1>4 DEF Now
<1>6. h.do = "watch" /\ h.s = Cur /\ h.d = d
  BY DEF Do
<1>7. StepWatch(t, Main)
  BY <1>5, <1>6, StepKind
<1>8. /\ schemes' = [schemes EXCEPT ![Cur] = [Sc EXCEPT !.open = @ \cup {d}]]
      /\ Rest(t, Main, IF p = None THEN <<>> ELSE <<added>>)
      /\ UNCHANGED <<mgr, insts, pluginPath, running>>
  <2> HIDE DEF h
  <2>1. QED
    BY <1>p, <1>5, <1>6, <1>7 DEF StepWatch, Sc, d
<1>9. /\ tasks'[t][Main] = (IF p = None THEN rest ELSE Cons(added, rest)) /\ Alike(t, Main)
  <2>1. tasks'[t][Main] = (IF p = None THEN <<>> ELSE <<added>>) \o rest /\ Alike(t, Main)
    BY <1>w, <1>1, <1>8, RestIs
  <2>2. <<>> \o rest = rest
    BY <1>3, ConcatEmptySeq
  <2>3. QED
    BY <2>1, <2>2 DEF Cons
<1>10. Cur' = Cur /\ Sc' = [Sc EXCEPT !.open = @ \cup {d}] /\ OthersDead' /\ Sc \in SchemeType(n)
  BY <1>1, <1>8, ScSet, CurIs DEF Good
<1>a. /\ p = Sc.held[d] /\ w[1].d = d /\ n = Len(insts) /\ m = Len(schemes) /\ S = Steps(n, m)
      /\ w = tasks[t][Main] /\ added = Do("added", Cur, d, p)
  BY <1>w, <1>p
<1> HIDE DEF d, rest, h, added, S, n, m
<1>11. /\ Sc'.kids = Sc.kids /\ Sc'.kind = Sc.kind /\ Sc'.top = Sc.top
       /\ Sc'.owner = Sc.owner /\ Sc'.held = Sc.held /\ Sc'.open = Sc.open \cup {d}
  BY <1>10 DEF SchemeType
<1>12. MgrGood'
  BY <1>8 DEF Good, MgrGood, RunningNamed, ListedOnce
<1>13. Created(t)'
  <2>1. Sc'.open \subseteq Sc.kids
    BY <1>5, <1>11 DEF Created
  <2>2. QED
    BY <1>8, <1>9, <1>10, <1>11, <2>1, CreatedStays
<1>14. Unwatched(rest)'
  <2>1. \A j \in 1..Len(rest) : j + 1 \in 1..Len(w) /\ rest[j] = w[j+1] /\ j + 1 # 1
    BY <1>3
  <2>2. \A j \in 1..Len(rest) : rest[j] = Do("watch", Cur, rest[j].d, None)
                                /\ rest[j].d \in (Sc.kids \ Sc'.open)
    <3> SUFFICES ASSUME NEW j \in 1..Len(rest)
                 PROVE  rest[j] = Do("watch", Cur, rest[j].d, None) /\ rest[j].d \in (Sc.kids \ Sc'.open)
      OBVIOUS
    <3>1. w[j+1].d # d
      <4>1. 1 \in 1..Len(w) /\ j + 1 \in 1..Len(w) /\ j + 1 # 1
        BY <1>3, <2>1
      <4>2. QED
        BY <1>a, <1>4, <4>1
    <3>2. rest[j] = Do("watch", Cur, rest[j].d, None) /\ rest[j].d \in (Sc.kids \ Sc.open)
      BY <1>4, <2>1
    <3>3. rest[j].d # d
      BY <2>1, <3>1
    <3>4. QED
      BY <1>11, <3>2, <3>3
  <2>3. \A j, l \in 1..Len(rest) : rest[j].d = rest[l].d => j = l
    <3> SUFFICES ASSUME NEW j \in 1..Len(rest), NEW l \in 1..Len(rest), rest[j].d = rest[l].d
                 PROVE  j = l
      OBVIOUS
    <3>1. j + 1 = l + 1
      BY <1>4, <2>1
    <3>2. QED
      BY <3>1
  <2>4. ASSUME NEW e \in Sc.kids \ Sc'.open PROVE \E j \in 1..Len(rest) : rest[j].d = e
    <3>1. e \in Sc.kids \ Sc.open /\ e # d
      BY <1>11
    <3>2. PICK j \in 1..Len(w) : w[j].d = e
      BY <1>4, <3>1
    <3>3. j # 1
      BY <1>a, <3>1, <3>2
    <3>4. j - 1 \in 1..Len(rest) /\ (j - 1) + 1 = j
      BY <1>3, <3>3
    <3>5. rest[j-1] = w[j]
      BY <1>3, <3>4
    <3>6. QED
      BY <3>2, <3>4, <3>5
  <2>5. /\ \A j \in 1..Len(rest) : rest[j] = Do("watch", Cur', rest[j].d, None)
                                   /\ rest[j].d \in (Sc'.kids \ Sc'.open)
        /\ \A j, l \in 1..Len(rest) : rest[j].d = rest[l].d => j = l
        /\ \A e \in (Sc'.kids \ Sc'.open) : \E j \in 1..Len(rest) : rest[j].d = e
    BY <1>10, <1>11, <2>2, <2>3, <2>4
  <2>6. QED
    BY <2>5 DEF Unwatched
<1>15. In(mgr, d, None) /\ \A e \in Dirs : e # d => In(mgr', e, Shown(e)')
  <2>1. \A e \in Dirs : In(mgr, e, Shown(e))
    BY PRAssumption DEF ShownBut
  <2>2. Shown(d) = None
    BY <1>5 DEF Shown
  <2>3. \A e \in Dirs : e # d => Shown(e)' = Shown(e)
    BY <1>11 DEF Shown
  <2>4. In(mgr, d, None) /\ mgr' = mgr
    BY <1>5, <1>8, <2>1, <2>2
  <2>5. QED
    BY <2>1, <2>3, <2>4
<1>16. CASE p = None
  <2>1. Shown(d)' = None
    BY <1>a, <1>11, <1>16 DEF Shown
  <2>2. ShownBut(None)'
    <3>1. \A e \in Dirs : In(mgr', e, Shown(e)')
      BY <1>8, <1>15, <2>1
    <3>2. QED
      BY <3>1 DEF ShownBut
  <2>3. Unwatched(tasks[t][Main])'
    BY <1>9, <1>14, <1>16
  <2>4. QED
    BY <1>10, <1>12, <1>13, <2>2, <2>3, CreatedNext
<1>17. CASE p # None
  <2>1. p = disk'[d] /\ d \in Sc'.open
    BY <1>a, <1>5, <1>11 DEF Created
  <2>2. ShownBut(d)'
    BY <1>15 DEF ShownBut
  <2>3. rest \in Seq(Steps(Len(insts'), Len(schemes')))
    <3>1. Len(schemes') = Len(schemes)
      <4>1. DOMAIN schemes' = 1..Len(schemes)
        BY <1>1, <1>8, LenProperties DEF Types
      <4>2. QED
        BY <1>1, <4>1, Lengths
    <3>2. QED
      BY <1>a, <1>3, <1>8, <3>1
  <2>4. KidAdded(tasks'[t][Main], Cur', mgr', d, disk'[d], rest)
    BY <1>a, <1>8, <1>9, <1>10, <1>15, <1>17, <2>1 DEF KidAdded, In, Out, Sup
  <2>5. \E e \in Sc'.open, v \in Seq(Steps(Len(insts'), Len(schemes'))) :
           /\ disk'[e] # None /\ ShownBut(e)' /\ Unwatched(v)'
           /\ KidAdded(tasks'[t][Main], Cur', mgr', e, disk'[e], v)
    <3>1. disk'[d] # None
      BY <1>17, <2>1
    <3>2. QED
      BY <1>14, <3>1, <2>1, <2>2, <2>3, <2>4
  <2>6. Creating(t)'
    BY <1>13, <2>5 DEF Creating, Created
  <2>7. QED
    BY <1>10, <1>12, <2>6
<1>18. QED
  BY <1>16, <1>17

\* The plugin of the directory watched last is added.
LEMMA WatchedStep ==
    ASSUME Good, Types', NEW t \in TaskIds, Created(t),
           NEW d \in Sc.open, NEW w \in Seq(Steps(Len(insts), Len(schemes))),
           disk[d] # None, ShownBut(d), Unwatched(w),
           KidAdded(tasks[t][Main], Cur, mgr, d, disk[d], w),
           AnyStep(t, Main), UNCHANGED <<disk, events>>
    PROVE  MgrGood' /\ OthersDead' /\ (Creating(t)' \/ Resting')
<1>1. Types /\ Cur # 0 /\ Main \in Strands /\ Sc.open \subseteq Sc.kids /\ d \in Dirs
  BY CurIs DEF Good, Created, Live, Strands
<1>2. Cur \in 1..Len(schemes) /\ disk[d] \in Plugins
  BY <1>1, HeldIs
<1>3. /\ UNCHANGED <<schemes, insts, pluginPath, running>>
      /\ \/ KidAdded(tasks'[t][Main], Cur, mgr', d, disk[d], w)
         \/ tasks'[t][Main] = w /\ In(mgr', d, disk[d])
      /\ Alike(t, Main) /\ Same(mgr', mgr, d) /\ MgrGood'
  BY <1>1, <1>2, AddStep DEF Good, MgrGood
<1>4. Cur' = Cur /\ Sc' = Sc /\ OthersDead'
  BY <1>3, ScSame DEF Good
<1>5. Created(t)'
  BY <1>1, <1>3, <1>4, CreatedStays
<1>6. Unwatched(w)'
  BY <1>4 DEF Unwatched
<1>7. ASSUME NEW e \in Dirs, e # d PROVE In(mgr', e, Shown(e)')
  <2>1. In(mgr, e, Shown(e))
    BY <1>7 DEF ShownBut
  <2>2. In(mgr', e, Shown(e))
    BY <1>3, <1>7, <2>1, SameHas DEF In
  <2>3. Shown(e)' = Shown(e)
    BY <1>4 DEF Shown
  <2>4. QED
    BY <2>2, <2>3
<1>8. CASE KidAdded(tasks'[t][Main], Cur, mgr', d, disk[d], w)
  <2>1. ShownBut(d)'
    BY <1>7 DEF ShownBut
  <2>2. \E e \in Sc'.open, v \in Seq(Steps(Len(insts'), Len(schemes'))) :
           /\ disk'[e] # None /\ ShownBut(e)' /\ Unwatched(v)'
           /\ KidAdded(tasks'[t][Main], Cur', mgr', e, disk'[e], v)
    BY <1>3, <1>4, <1>6, <1>8, <2>1
  <2>3. QED
    BY <1>3, <1>4, <1>5, <2>2 DEF Creating, Created
<1>9. CASE tasks'[t][Main] = w /\ In(mgr', d, disk[d])
  <2>1. Shown(d)' = disk[d]
    BY <1>1, <1>4 DEF Shown, Created
  <2>2. ShownBut(None)'
    BY <1>7, <1>9, <2>1 DEF ShownBut
  <2>3. Unwatched(tasks[t][Main])'
    BY <1>6, <1>9
  <2>4. QED
    BY <1>3, <1>4, <1>5, <2>2, <2>3, CreatedNext
<1>10. QED
  BY <1>3, <1>8, <1>9

LEMMA CreatingStep ==
    ASSUME Good, Types', NEW t \in TaskIds, Creating(t), NEW u \in TaskIds, NEW x \in Strands,
           AnyStep(u, x), UNCHANGED <<disk, events>>
    PROVE  MgrGood' /\ OthersDead' /\ (Creating(t)' \/ Resting')
<1>1. tasks[u][x] # <<>>
  BY StepKind
<1>2. u = t /\ x = Main
  BY <1>1 DEF Creating, Busy, Strands
<1>3. Created(t)
  BY DEF Creating, Created
<1>4. QED
  BY <1>2, <1>3, WatchStep, WatchedStep DEF Creating

\* A step of a task, while one change or call at a time is dealt with.
LEMMA PhaseStep ==
    ASSUME Good, Types', Phase, NEW u \in TaskIds, NEW x \in Strands, AnyStep(u, x),
           UNCHANGED <<disk, events>>
    PROVE  OneAtATime'
<1>1. tasks[u][x] # <<>>
  BY StepKind
<1>2. ~Resting
  BY <1>1 DEF Resting, NoneBusy
<1>3. PICK t \in TaskIds : \/ \E d \in Dirs : Handling(t, d)
                           \/ Destroying(t) \/ Destroyed(t) \/ Creating(t)
  BY <1>2 DEF Phase
<1>4. MgrGood' /\ OthersDead' /\ (\/ Resting' \/ \E d \in Dirs : Handling(t, d)'
                                  \/ Destroying(t)' \/ Destroyed(t)' \/ Creating(t)')
  BY <1>3, HandlingStep, DestroyingStep, DestroyedStep, CreatingStep
<1>5. Phase'
  BY <1>4 DEF Phase
<1>6. QED
  BY <1>4, <1>5 DEF OneAtATime

-------------------------------------------------------------------------------
(* A file system event is delivered *)

\* A task that is spawned while none is under way.
LEMMA Spawned ==
    ASSUME Types, FreeTasks # {}, NoneBusy, NEW x \in Strands, NEW work, Spawn(x, work)
    PROVE  \E t \in TaskIds :
             /\ tasks'[t][x] = work /\ Busy(t)'
             /\ \A y \in Strands : y # x => tasks'[t][y] = <<>>
<1>1. PICK t \in TaskIds : t = FreeTask
  BY FreeTaskIs
<1>2. tasks' = [tasks EXCEPT ![t] = [tasks[t] EXCEPT ![x] = work]]
  BY <1>1 DEF Spawn
<1>3. /\ tasks'[t][x] = work
      /\ \A u \in TaskIds, y \in Strands : u # t \/ y # x => tasks'[u][y] = tasks[u][y]
  BY <1>2 DEF Types, TasksType
<1>4. QED
  BY <1>3 DEF NoneBusy, Busy

\* A directory that is watched has what it should have.
LEMMA WatchedHas ==
    ASSUME Types, Watching, NEW d \in Dirs
    PROVE  /\ d \in Sc.kids => In(mgr, d, Sc.held[d])
           /\ d \notin Sc.kids => Out(mgr, d)
<1>1. In(mgr, d, Shown(d))
  BY PRAssumption DEF Watching, ShownBut
<1>2. Sc.kids = Sc.open
  BY DEF Watching
<1>3. QED
  BY <1>1, <1>2 DEF Shown, In, Out, Sup

\* An event that a task is spawned for is about one directory.
LEMMA AroundStarts ==
    ASSUME Types, Watching, NEW t \in TaskIds, NEW d \in Dirs, FreshBut(d), AllBut(d),
           UNCHANGED <<disk, insts, pluginPath, mgr>>, events' = <<>>, Cur' = Cur,
           Sc'.kind = Sc.kind, Sc'.top = Sc.top, Sc'.owner = Sc.owner, Sc'.kids = Sc.kids,
           Sc'.open = Sc.kids \cup {d}, Depth[d] = Sc.kind,
           \A e \in Dirs : e # d => Sc'.held[e] = Sc.held[e],
           Busy(t)', \A y \in Strands : y # d => tasks'[t][y] = <<>>
    PROVE  Around(t, d)'
<1>1. Live'
  <2>1. Live
    BY DEF Watching
  <2>2. QED
    BY <2>1 DEF Live
<1>2. Sc.kids \subseteq Dirs /\ Sc.kids = Sc.open
  BY CurIs DEF Watching, Live
<1>3. ShownBut(d)'
  <2> SUFFICES ASSUME NEW e \in Dirs, e # d PROVE In(mgr', e, Shown(e)')
    BY DEF ShownBut
  <2>1. In(mgr, e, Shown(e))
    BY PRAssumption DEF Watching, ShownBut
  <2>2. Shown(e)' = Shown(e)
    BY <1>2 DEF Shown
  <2>3. QED
    BY <2>1, <2>2
<1>4. FreshBut(d)'
  <2> SUFFICES ASSUME NEW e \in Sc.kids, e # d PROVE Fresh(e)'
    BY DEF FreshBut
  <2>1. Fresh(e) /\ e \in Dirs
    BY <1>2 DEF FreshBut
  <2>2. QED
    BY <2>1 DEF Fresh
<1>5. AllBut(d)'
  BY DEF AllBut
<1>6. QED
  BY <1>1, <1>3, <1>4, <1>5 DEF Around

LEMMA EventTyped ==
    ASSUME Types, Cur # 0, NEW at \in {"top", "kid"}, NEW d \in Dirs, NEW act \in Acts
    PROVE  /\ Event(at, d, act) \in EventType(Len(schemes))
           /\ Event(at, d, act).s = Cur /\ Event(at, d, act).at = at
           /\ Event(at, d, act).d = d /\ Event(at, d, act).act = act
BY CurIs DEF Event, EventType

\* An event of a directory that has a plugin scheme.
LEMMA KidHandled ==
    ASSUME Types, NoneBusy, Watching, FreeTasks # {}, NEW d \in Dirs, NEW act \in Acts,
           KidPending(d, act), KidEvent(Event("kid", d, act)), events' = <<>>,
           UNCHANGED <<disk, insts, pluginPath, mgr, running>>, OthersDead
    PROVE  /\ OthersDead'
           /\ \E t \in TaskIds, x \in Dirs : Handling(t, x)'
<1> DEFINE h == Sc.held[d]
           k == disk[d]
<1>1. /\ Cur # 0 /\ d \in Sc.kids /\ d \in Strands /\ Sc.kids = Sc.open /\ Depth[d] = Sc.kind
      /\ Cur \in 1..Len(schemes) /\ Sc \in SchemeType(Len(insts)) /\ Sc.held \in [Dirs -> Held]
      /\ k \in Held /\ FreshBut(d) /\ AllBut(d)
  <2>1. Live /\ Sc.kids = Sc.open /\ d \in Sc.kids /\ FreshBut(d) /\ AllBut(None)
    BY DEF Watching, KidPending
  <2>2. AllBut(d)
    BY <2>1, PRAssumption DEF AllBut
  <2>3. Cur # 0 /\ Depth[d] = Sc.kind
    BY <2>1 DEF Live
  <2>4. k \in Held /\ d \in Strands
    BY DEF Types, Strands
  <2>5. QED
    BY <2>1, <2>2, <2>3, <2>4, CurIs
<1>2. /\ Event("kid", d, act).s = Cur /\ Event("kid", d, act).d = d /\ Event("kid", d, act).act = act
  BY <1>1, EventTyped
<1>3. PICK p : p = k
  OBVIOUS
<1>4. PICK q : q = h
  OBVIOUS
<1>5. PICK c : c = Cur
  OBVIOUS
<1> DEFINE redo == <<Do("redetect", c, d, None)>>
           readd == <<Do("hold", c, d, p), Do("added", c, d, p)>>
           S == Steps(Len(insts), Len(schemes))
<1>6. \/ /\ act = "delete" /\ q # None
         /\ Spawn(d, Deletion(c, d, q) \o redo) /\ UNCHANGED schemes
      \/ /\ act = "change" /\ q # None
         /\ p \notin {q, None} => Spawn(d, Deletion(c, d, q) \o readd)
         /\ UNCHANGED schemes
      \/ /\ q = None /\ p # None
         /\ schemes' = [schemes EXCEPT ![c].held[d] = p]
         /\ \/ Spawn(d, <<Do("added", c, d, p)>> \o <<>>)
            \/ p.config = "bad" /\ Spawn(d, <<Do("added", c, d, p)>> \o redo)
      \/ /\ IF q = None THEN p = None ELSE act \notin {"delete", "change"}
         /\ Spawn(d, redo) /\ UNCHANGED schemes
  BY <1>2, <1>3, <1>4, <1>5 DEF KidEvent, Sc
<1>7. \/ Edited(d, act) /\ Right
      \/ act = "other" /\ Sc.kind = 0 /\ d = Root /\ Fresh(d) /\ Sc.held[d] # None
  BY DEF KidPending
<1>8. In(mgr, d, q)
  BY <1>1, <1>4, WatchedHas
<1>9. /\ redo = Cons(Do("redetect", c, d, None), <<>>) /\ redo \in Seq(S)
      /\ p # None => readd = Cons(Do("hold", c, d, p), Cons(Do("added", c, d, p), <<>>))
                     /\ readd \in Seq(S)
  <2>1. Do("redetect", c, d, None) \in S
    BY <1>1, <1>5, Lengths, DoType
  <2>2. p # None => Do("hold", c, d, p) \in S /\ Do("added", c, d, p) \in S
    BY <1>1, <1>3, <1>5, Lengths, DoType DEF Held
  <2> HIDE DEF S
  <2>3. QED
    BY <2>1, <2>2, ConcatEmptySeq DEF Cons
<1>10. q # None => \A w \in Seq(S) : Deletion(c, d, q) \o w =
          Cons(Do("stop", c, d, q), Cons(Do("removed", c, d, q), Cons(Do("hold", c, d, None), w)))
  <2> SUFFICES ASSUME q # None, NEW w \in Seq(S)
               PROVE Deletion(c, d, q) \o w =
                     Cons(Do("stop", c, d, q), Cons(Do("removed", c, d, q), Cons(Do("hold", c, d, None), w)))
    OBVIOUS
  <2>1. q \in Plugins /\ None \in Held
    BY <1>1, <1>4 DEF Held
  <2>2. Do("stop", c, d, q) \in S /\ Do("removed", c, d, q) \in S /\ Do("hold", c, d, None) \in S
    BY <1>1, <1>5, <2>1, Lengths, DoType
  <2> HIDE DEF S
  <2>3. QED
    BY <2>2 DEF Deletion, Cons
<1>11. ASSUME UNCHANGED schemes, NEW work, Spawn(d, work), Work(work, d)'
       PROVE  OthersDead' /\ \E t \in TaskIds, x \in Dirs : Handling(t, x)'
  <2>1. Cur' = Cur /\ Sc' = Sc /\ OthersDead'
    BY <1>11, ScSame
  <2>2. PICK t \in TaskIds : /\ tasks'[t][d] = work /\ Busy(t)'
                             /\ \A y \in Strands : y # d => tasks'[t][y] = <<>>
    BY <1>1, <1>11, Spawned
  <2>3. Around(t, d)'
    BY <1>1, <2>1, <2>2, AroundStarts
  <2>4. Handling(t, d)'
    BY <1>11, <2>2, <2>3 DEF Handling
  <2>5. QED
    BY <2>1, <2>4
<1> HIDE DEF redo, readd, h, k, S
<1>12. CASE UNCHANGED schemes
  <2>1. Cur' = Cur /\ Sc' = Sc /\ (Right => Right')
    BY <1>12, ScSame, DetectSame DEF Right
  <2>2. CASE act = "delete" /\ q # None /\ Spawn(d, Deletion(c, d, q) \o redo)
    <3>1. PICK work : work = Deletion(c, d, q) \o redo
      OBVIOUS
    <3>2. /\ disk[d] = None /\ Right
          /\ work = Cons(Do("stop", c, d, q), Cons(Do("removed", c, d, q), Cons(Do("hold", c, d, None), redo)))
      BY <1>7, <1>9, <1>10, <2>2, <3>1 DEF Edited
    <3>3. redo = Redo(d)' /\ Sc'.held[d] = q /\ d \in Sc'.kids /\ disk'[d] = None
      BY <1>1, <1>4, <1>5, <1>9, <2>1, <3>2 DEF Redo, h
    <3>4. KidLost(work, d)'
      BY <1>5, <1>8, <2>1, <2>2, <3>2, <3>3 DEF KidLost, Left
    <3>5. Work(work, d)'
      BY <3>4 DEF Work
    <3>6. QED
      BY <1>11, <1>12, <2>2, <3>1, <3>5
  <2>3. CASE act = "change" /\ q # None
             /\ (p \notin {q, None} => Spawn(d, Deletion(c, d, q) \o readd))
    <3>1. PICK work : work = Deletion(c, d, q) \o readd
      OBVIOUS
    <3>2. p # None /\ p # q /\ Right
      BY <1>3, <1>4, <1>7, <2>3 DEF Edited, h, k
    <3>3. work = Cons(Do("stop", c, d, q), Cons(Do("removed", c, d, q), Cons(Do("hold", c, d, None), readd)))
      BY <1>9, <1>10, <2>3, <3>1, <3>2
    <3>4. readd = Readd(d)' /\ Sc'.held[d] = q /\ d \in Sc'.kids /\ disk'[d] = p
      BY <1>1, <1>3, <1>4, <1>5, <1>9, <2>1, <3>2 DEF Readd, h, k
    <3>5. KidLost(work, d)'
      BY <1>5, <1>8, <2>1, <2>3, <3>2, <3>3, <3>4 DEF KidLost, Left
    <3>6. Work(work, d)'
      BY <3>5 DEF Work
    <3>7. QED
      BY <1>11, <1>12, <2>3, <3>1, <3>2, <3>6
  <2>4. CASE (IF q = None THEN p = None ELSE act \notin {"delete", "change"}) /\ Spawn(d, redo)
    <3>1. Sc.kind = 0 /\ Fresh(d)
      BY <1>3, <1>4, <1>7, <2>4 DEF Edited, h, k
    <3>2. redo = Redo(d)' /\ Sc'.held[d] = q /\ d \in Sc'.kids /\ Fresh(d)'
      BY <1>1, <1>4, <1>5, <1>9, <2>1, <3>1 DEF Redo, h, Fresh
    <3>3. Redetects(redo, d)'
      <4>1. PICK work : work = redo
        OBVIOUS
      <4>2. In(mgr', d, Sc'.held[d]) /\ Sc'.kind = 0
        BY <1>8, <2>1, <3>1, <3>2
      <4>3. QED
        BY <3>2, <4>2 DEF Redetects, redo
    <3>4. QED
      BY <1>11, <1>12, <2>4, <3>3 DEF Work, redo
  <2>5. CASE q = None /\ p # None /\ schemes' = [schemes EXCEPT ![c].held[d] = p]
             /\ \E then : /\ then = <<>> \/ (then = redo /\ p.config = "bad")
                          /\ Spawn(d, <<Do("added", c, d, p)>> \o then)
    <3>1. schemes'[c].held[d] = p
      BY <1>1, <1>5, <2>5 DEF Types, SchemeType, Sc
    <3>2. p = Sc.held[d] /\ q = Sc.held[d]
      BY <1>4, <1>5, <1>12, <3>1 DEF h, Sc
    <3>3. QED
      BY <2>5, <3>2
  <2>6. QED
    BY <1>6, <1>12, <2>2, <2>3, <2>4, <2>5
<1>13. CASE q = None /\ p # None /\ schemes' = [schemes EXCEPT ![c].held[d] = p]
            /\ \E then : /\ then = <<>> \/ (then = redo /\ p.config = "bad")
                         /\ Spawn(d, <<Do("added", c, d, p)>> \o then)
  <2>a. PICK then : /\ then = <<>> \/ (then = redo /\ p.config = "bad")
                    /\ Spawn(d, <<Do("added", c, d, p)>> \o then)
    BY <1>13
  <2>1. schemes' = [schemes EXCEPT ![Cur] = [Sc EXCEPT !.held = [Sc.held EXCEPT ![d] = p]]]
    BY <1>5, <1>13 DEF Sc
  <2>2. /\ Cur' = Cur /\ Sc' = [Sc EXCEPT !.held = [Sc.held EXCEPT ![d] = p]] /\ OthersDead'
    BY <1>1, <2>1, ScSet
  <2>3. /\ Sc'.kids = Sc.kids /\ Sc'.open = Sc.open /\ Sc'.kind = Sc.kind /\ Sc'.top = Sc.top
        /\ Sc'.owner = Sc.owner /\ Sc'.timer = Sc.timer /\ Sc'.held = [Sc.held EXCEPT ![d] = p]
    BY <1>1, <2>2 DEF SchemeType
  <2>4. Sc'.held[d] = p /\ \A e \in Dirs : e # d => Sc'.held[e] = Sc.held[e]
    BY <1>1, <2>3
  <2>5. PICK work : work = Cons(Do("added", c, d, p), then)
    OBVIOUS
  <2>6. PICK t \in TaskIds : /\ tasks'[t][d] = work /\ Busy(t)'
                             /\ \A y \in Strands : y # d => tasks'[t][y] = <<>>
    <3>1. Spawn(d, work)
      BY <2>5, <2>a DEF Cons
    <3>2. QED
      BY <1>1, <3>1, Spawned
  <2>7. Around(t, d)'
    BY <1>1, <2>2, <2>3, <2>4, <2>6, AroundStarts
  <2>8. Right'
    <3>1. Right
      BY <1>4, <1>7, <1>13 DEF h
    <3>2. QED
      BY <2>3, <3>1, DetectSame DEF Right
  <2>9. KidAdded(work, Cur', mgr', d, disk'[d], then)
    BY <1>3, <1>5, <1>8, <1>9, <1>13, <2>2, <2>5 DEF KidAdded, In, Out, k, Sup
  <2>b. redo = Redo(d)' /\ disk'[d] = p
    BY <1>3, <1>5, <1>9, <2>2 DEF Redo, k
  <2>10. KidFound(work, d)'
    BY <1>1, <1>3, <1>13, <2>3, <2>4, <2>8, <2>9, <2>a, <2>b DEF KidFound, k
  <2>11. Handling(t, d)'
    BY <2>6, <2>7, <2>10 DEF Handling, Work
  <2>12. QED
    BY <2>2, <2>11
<1>14. QED
  BY <1>6, <1>12, <1>13

\* What the watcher of the parent directory leaves of the event.
KidOf(d, act) == IF d \in Sc.kids THEN Cons(Event("kid", d, act), <<>>) ELSE <<>>

\* The scheme is to be detected anew.
LEMMA TopDue ==
    ASSUME Types, NoneBusy, Watching, NEW d \in Dirs, NEW act \in {"add", "change", "delete"},
           TopPending(d, act), events' = KidOf(d, act), OthersDead,
           UNCHANGED <<disk, insts, pluginPath, mgr, tasks>>,
           schemes' = [schemes EXCEPT ![Cur] = [Sc EXCEPT !.timer = TRUE]],
           Depth[d] = Sc.kind /\ d \notin Sc.kids => disk[d] = None
    PROVE  OthersDead' /\ Resting'
<1>1. Cur # 0 /\ pluginPath # 0 /\ Sc \in SchemeType(Len(insts)) /\ Sc.kids \subseteq Dirs
      /\ Live /\ Sc.kids = Sc.open
  BY CurIs DEF Watching, Live
<1>2. Cur' = Cur /\ Sc' = [Sc EXCEPT !.timer = TRUE] /\ OthersDead'
  BY <1>1, ScSet
<1>3. /\ Sc'.kids = Sc.kids /\ Sc'.open = Sc.open /\ Sc'.kind = Sc.kind /\ Sc'.top = Sc.top
      /\ Sc'.owner = Sc.owner /\ Sc'.held = Sc.held /\ Sc'.timer
  BY <1>1, <1>2 DEF SchemeType
<1>4. NoneBusy' /\ pluginPath' # 0 /\ Live' /\ Sc'.kids = Sc'.open /\ Right'
  BY <1>1, <1>2, <1>3 DEF NoneBusy, Live, Right
<1>5. ShownBut(None)'
  <2> SUFFICES ASSUME NEW e \in Dirs PROVE In(mgr', e, Shown(e)')
    BY DEF ShownBut
  <2>1. In(mgr, e, Shown(e))
    BY PRAssumption DEF Watching, ShownBut
  <2>2. Shown(e)' = Shown(e)
    BY <1>3 DEF Shown
  <2>3. QED
    BY <2>1, <2>2
<1>6. FreshBut(d) /\ AllBut(d)
  BY DEF TopPending
<1>7. \A e \in Dirs : Fresh(e) => Fresh(e)'
  BY <1>3 DEF Fresh
<1>8. CASE d \in Sc.kids
  <2>1. events' = Cons(Event("kid", d, act)', <<>>) /\ act \in Acts
    BY <1>2, <1>8 DEF KidOf, Event, Acts
  <2>2. FreshBut(d)'
    BY <1>1, <1>3, <1>6, <1>7 DEF FreshBut
  <2>3. AllBut(None)'
    BY <1>3, <1>6, <1>8 DEF AllBut
  <2>4. Edited(d, act)'
    BY <1>3, <1>8 DEF TopPending, Edited
  <2>5. KidPending(d, act)'
    BY <1>3, <1>4, <1>8, <2>1, <2>2, <2>3, <2>4 DEF KidPending
  <2>6. Watching'
    BY <1>4, <1>5, <2>1, <2>5 DEF Watching
  <2>7. QED
    BY <1>2, <1>4, <2>6 DEF Resting
<1>9. CASE d \notin Sc.kids
  <2>1. OldEvents'
    BY <1>9 DEF KidOf, OldEvents
  <2>2. FreshBut(None)'
    <3>1. \A e \in Sc.kids : Fresh(e)
      BY <1>6, <1>9 DEF FreshBut
    <3>2. QED
      BY <1>1, <1>3, <1>7, <3>1 DEF FreshBut
  <2>3. AllBut(None)'
    BY <1>3, <1>6, <1>9 DEF AllBut
  <2>4. Watching'
    BY <1>4, <1>5, <2>1, <2>2, <2>3 DEF Watching
  <2>5. QED
    BY <1>2, <1>4, <2>4 DEF Resting
<1>10. QED
  BY <1>8, <1>9

\* A new directory gets a plugin scheme.
LEMMA TopFound ==
    ASSUME Types, NoneBusy, Watching, FreeTasks # {}, NEW d \in Dirs,
           FreshBut(d), AllBut(d), events' = <<>>, OthersDead,
           UNCHANGED <<disk, insts, pluginPath, mgr, running>>,
           Depth[d] = Sc.kind, d \notin Sc.kids, NEW p \in Plugins, p = disk[d], NEW c, c = Cur,
           schemes' = [schemes EXCEPT ![c] = [[Sc EXCEPT !.timer = TRUE] EXCEPT
                                                !.open = @ \cup {d}, !.held[d] = p]],
           Spawn(d, <<Do("added", c, d, p), Do("keep", c, d, None)>>)
    PROVE  OthersDead' /\ \E t \in TaskIds, x \in Dirs : Handling(t, x)'
<1>1. Cur # 0 /\ Cur \in 1..Len(schemes) /\ Sc \in SchemeType(Len(insts))
      /\ Sc.held \in [Dirs -> Held] /\ Sc.kids = Sc.open /\ d \in Strands
  BY CurIs DEF Watching, Live, Strands
<1>2. Cur' = Cur /\ OthersDead'
      /\ Sc' = [[Sc EXCEPT !.timer = TRUE] EXCEPT !.open = @ \cup {d}, !.held[d] = p]
  BY <1>1, ScSet
<1>3. /\ Sc'.kids = Sc.kids /\ Sc'.open = Sc.open \cup {d} /\ Sc'.kind = Sc.kind /\ Sc'.top = Sc.top
      /\ Sc'.owner = Sc.owner /\ Sc'.held = [Sc.held EXCEPT ![d] = p] /\ Sc'.timer
  BY <1>1, <1>2 DEF SchemeType
<1>4. Sc'.held[d] = p /\ \A e \in Dirs : e # d => Sc'.held[e] = Sc.held[e]
  BY <1>1, <1>3
<1>5. PICK work : work = <<Do("added", c, d, p), Do("keep", c, d, None)>>
  OBVIOUS
<1>6. PICK t \in TaskIds : /\ tasks'[t][d] = work /\ Busy(t)'
                           /\ \A y \in Strands : y # d => tasks'[t][y] = <<>>
  BY <1>1, <1>5, Spawned
<1>7. Around(t, d)'
  BY <1>1, <1>2, <1>3, <1>4, <1>6, AroundStarts
<1>8. work = Cons(Do("added", c, d, p), Cons(Do("keep", c, d, None), <<>>))
  <2> DEFINE S == Steps(Len(insts), Len(schemes))
  <2>1. Do("added", c, d, p) \in S /\ Do("keep", c, d, None) \in S
    BY <1>1, Lengths, DoType
  <2> HIDE DEF S
  <2>2. QED
    BY <1>5, <2>1, ConcatEmptySeq DEF Cons
<1>9. Out(mgr', d) /\ p # None
  BY <1>1, WatchedHas, NameOf
<1>10. PICK keep : keep = Cons(Do("keep", c, d, None), <<>>)
  OBVIOUS
<1>11. KidAdded(work, Cur', mgr', d, disk'[d], keep)
  BY <1>2, <1>8, <1>9, <1>10 DEF KidAdded
<1>12. keep = Cons(Do("keep", Cur', d, None), <<>>)
  BY <1>2, <1>10
<1>13. NewKid(work, d)'
  BY <1>3, <1>4, <1>9, <1>11, <1>12 DEF NewKid
<1>14. Handling(t, d)'
  BY <1>6, <1>7, <1>13 DEF Handling, Work
<1>15. QED
  BY <1>2, <1>14

LEMMA TopHandled ==
    ASSUME Types, NoneBusy, Watching, FreeTasks # {}, NEW d \in Dirs,
           NEW act \in {"add", "change", "delete"},
           TopPending(d, act), TopEvent(Event("top", d, act)), events' = KidOf(d, act),
           UNCHANGED <<disk, insts, pluginPath, mgr, running>>, OthersDead
    PROVE  /\ OthersDead'
           /\ Resting' \/ \E t \in TaskIds, x \in Dirs : Handling(t, x)'
<1>1. /\ Cur # 0 /\ Sc.kids = Sc.open /\ act \in Acts /\ disk[d] \in Held
      /\ FreshBut(d) /\ AllBut(d)
  BY DEF Watching, Live, Acts, TopPending, Types
<1>2. /\ Event("top", d, act).s = Cur /\ Event("top", d, act).d = d /\ Event("top", d, act).act = act
  BY <1>1, EventTyped
<1>3. PICK p : p = disk[d]
  OBVIOUS
<1>4. PICK c : c = Cur
  OBVIOUS
<1> DEFINE due == [Sc EXCEPT !.timer = TRUE]
           new == [due EXCEPT !.open = @ \cup {d}, !.held[d] = p]
           adding == <<Do("added", c, d, p), Do("keep", c, d, None)>>
<1>5. IF Sc.kind # Depth[d] \/ p = None \/ act = "change"
      THEN schemes' = [schemes EXCEPT ![c] = due] /\ UNCHANGED tasks
      ELSE \/ /\ act = "add" /\ d \notin Sc.kids
              /\ schemes' = [schemes EXCEPT ![c] = new] /\ Spawn(d, adding)
           \/ act = "delete" /\ d \in Sc.kids
           \/ /\ ~(act = "add" /\ d \notin Sc.kids) /\ ~(act = "delete" /\ d \in Sc.kids)
              /\ schemes' = [schemes EXCEPT ![c] = due] /\ UNCHANGED tasks
  BY <1>1, <1>2, <1>3, <1>4 DEF TopEvent, Sc
<1>6. /\ d \in Sc.kids => Edited(d, act)
      /\ d \notin Sc.kids /\ Depth[d] = Sc.kind => act = "add" /\ p # None
  BY <1>3 DEF TopPending
<1> HIDE DEF new, adding
<1>7. CASE schemes' = [schemes EXCEPT ![c] = due] /\ UNCHANGED tasks
           /\ (Depth[d] = Sc.kind /\ d \notin Sc.kids => p = None)
  BY <1>1, <1>3, <1>4, <1>7, TopDue
<1>8. CASE /\ ~(Sc.kind # Depth[d] \/ p = None \/ act = "change")
           /\ act = "add" /\ d \notin Sc.kids
           /\ schemes' = [schemes EXCEPT ![c] = new] /\ Spawn(d, adding)
  <2>1. events' = <<>> /\ p \in Plugins
    BY <1>1, <1>3, <1>8 DEF KidOf, Held
  <2>2. QED
    BY <1>1, <1>3, <1>4, <1>8, <2>1, TopFound DEF new, adding
<1>9. ~(act = "delete" /\ d \in Sc.kids /\ p # None)
  BY <1>3, <1>6 DEF Edited
<1>10. QED
  BY <1>5, <1>6, <1>7, <1>8, <1>9

-------------------------------------------------------------------------------
\* While one is pending, the first event is one of the scheme.
LEMMA PendingIs ==
    ASSUME Types, Cur # 0,
           \/ \E d \in Dirs, act \in {"add", "change", "delete"} : TopPending(d, act)
           \/ \E d \in Dirs, act \in Acts : KidPending(d, act)
    PROVE  events # <<>> /\ events[1].s = Cur
<1> DEFINE E == EventType(Len(schemes))
<1>1. <<>> \in Seq(E) /\ {"add", "change", "delete"} \subseteq Acts
  BY EmptySeq DEF Acts
<1>2. \E d \in Dirs, act \in Acts, at \in {"top", "kid"}, w \in Seq(E) : events = Cons(Event(at, d, act), w)
  <2>1. ASSUME NEW d \in Dirs, NEW act \in Acts, KidPending(d, act)
        PROVE  events = Cons(Event("kid", d, act), <<>>)
    BY <2>1 DEF KidPending
  <2>2. ASSUME NEW d \in Dirs, NEW act \in {"add", "change", "delete"}, TopPending(d, act)
        PROVE  \E w \in Seq(E) : events = Cons(Event("top", d, act), w)
    <3>1. Event("kid", d, act) \in E
      BY <1>1, EventTyped
    <3>2. Cons(Event("kid", d, act), <<>>) \in Seq(E)
      BY <1>1, <3>1, ConsIs
    <3>3. QED
      BY <1>1, <2>2, <3>2 DEF TopPending
  <2>3. QED
    BY <1>1, <2>1, <2>2
<1>3. PICK d \in Dirs, act \in Acts, at \in {"top", "kid"}, w \in Seq(E) : events = Cons(Event(at, d, act), w)
  BY <1>2
<1>4. Event(at, d, act) \in E /\ Event(at, d, act).s = Cur
  BY EventTyped
<1>5. events # <<>> /\ Head(events) = Event(at, d, act)
  BY <1>3, <1>4, ConsIs
<1>6. Head(events) = events[1]
  BY <1>5, HeadTailProperties DEF Types
<1>7. QED
  BY <1>4, <1>5, <1>6

\* An event that nobody watches for.
LEMMA EventDropped ==
    ASSUME OneAtATime, Types, events # <<>>, events' = Tail(events),
           ~Resting \/ pluginPath = 0 \/ OldEvents,
           UNCHANGED <<disk, insts, pluginPath, mgr, running, schemes, tasks>>
    PROVE  OneAtATime'
<1> DEFINE E == EventType(Len(schemes))
<1>1. events \in Seq(E)
  BY DEF Types
<1>2. Cur' = Cur /\ Sc' = Sc /\ OthersDead' /\ DetectScheme' = DetectScheme
  BY ScSame, DetectSame DEF OneAtATime
<1>3. MgrGood'
  BY DEF OneAtATime, MgrGood, RunningNamed, ListedOnce
<1>4. OldEvents => OldEvents'
  <2> SUFFICES ASSUME OldEvents, NEW j \in 1..Len(events') PROVE events'[j].s # Cur
    BY <1>2 DEF OldEvents
  <2>1. Len(events) \in Nat /\ Len(events') = Len(events) - 1 /\ \A k \in 1..Len(events') : events'[k] = events[k+1]
    BY <1>1, HeadTailProperties, LenProperties
  <2>2. j + 1 \in 1..Len(events) /\ events'[j] = events[j+1]
    BY <2>1
  <2>3. QED
    BY <2>2 DEF OldEvents
<1>5. CASE Resting
  <2>1. NoneBusy'
    BY <1>5 DEF Resting, NoneBusy
  <2>2. CASE pluginPath = 0
    <3>1. Resting'
      BY <1>5, <2>1, <2>2 DEF Resting
    <3>2. QED
      BY <1>2, <1>3, <3>1 DEF OneAtATime, Phase
  <2>3. CASE pluginPath # 0 /\ OldEvents
    <3>1. Watching /\ \A j \in 1..Len(events) : events[j].s # Cur
      BY <1>5, <2>3 DEF Resting, OldEvents
    <3>2. Right /\ FreshBut(None) /\ AllBut(None)
      <4>1. Cur # 0 /\ Len(events) \in Nat \ {0}
        BY <1>1, <3>1, LenProperties, EmptySeq DEF Watching, Live
      <4>2. events[1].s # Cur
        BY <3>1, <4>1
      <4>3. QED
        BY <3>1, <4>1, <4>2, PendingIs DEF Watching
    <3>3. Live' /\ Sc'.kids = Sc'.open /\ ShownBut(None)' /\ Right' /\ FreshBut(None)' /\ AllBut(None)'
      <4>1. Live /\ Sc.kids = Sc.open /\ ShownBut(None)
        BY <3>1 DEF Watching
      <4>2. QED
        BY <1>2, <3>2, <4>1 DEF Live, ShownBut, Shown, Right, FreshBut, Fresh, AllBut
    <3>4. Resting'
      BY <1>4, <2>1, <2>3, <3>3 DEF Resting, Watching
    <3>5. QED
      BY <1>2, <1>3, <3>4 DEF OneAtATime, Phase
  <2>4. QED
    BY <1>5, <2>2, <2>3
<1>6. CASE ~Resting
  <2>1. PICK t \in TaskIds : \/ \E d \in Dirs : Handling(t, d)
                             \/ Destroying(t) \/ Destroyed(t) \/ Creating(t)
    BY <1>6 DEF OneAtATime, Phase
  <2>2. ~ \E d \in Dirs : Handling(t, d)
    BY DEF Handling, Around
  <2>3. Busy(t) => Busy(t)'
    BY DEF Busy
  <2>4. Destroying(t) => Destroying(t)'
    BY <1>2, <2>3 DEF Destroying, Then, Dead
  <2>5. Destroyed(t) => Destroyed(t)'
    BY <1>2, <2>3 DEF Destroyed, Then
  <2>6. Creating(t) => Creating(t)'
    BY <1>2, <1>4, <2>3 DEF Creating, Live, AllBut, ShownBut, Shown, Unwatched
  <2>7. QED
    BY <1>2, <1>3, <2>1, <2>2, <2>4, <2>5, <2>6 DEF OneAtATime, Phase
<1>7. QED
  BY <1>5, <1>6

LEMMA DeliverStep ==
    ASSUME Types, OneAtATime, Deliver
    PROVE  OneAtATime'
<1> DEFINE E == EventType(Len(schemes))
<1>1. PICK e : e = Head(events)
  OBVIOUS
<1>2. /\ FreeTasks # {} /\ events # <<>> /\ events' = Tail(events)
      /\ UNCHANGED <<disk, pluginPath, insts, mgr, running>>
      /\ IF ~Watched(e) THEN UNCHANGED <<schemes, tasks>>
         ELSE IF e.at = "kid" THEN KidEvent(e) ELSE TopEvent(e)
  BY <1>1 DEF Deliver, NestedEvent
<1>3. events \in Seq(E) /\ e \in E /\ Len(events) \in Nat \ {0} /\ e = events[1]
  BY <1>1, <1>2, HeadTailProperties, LenProperties, EmptySeq DEF Types
<1>4. e.s \in 1..Len(schemes)
  BY <1>3 DEF EventType
<1>5. ~(e.s # Cur \/ Dead(Cur)) \/ ~Watched(e)
  BY <1>4 DEF OneAtATime, OthersDead, Dead, Watched
<1>6. OldEvents => e.s # Cur
  BY <1>3 DEF OldEvents
<1>7. MgrGood' /\ OthersDead
  BY <1>2 DEF OneAtATime, MgrGood, RunningNamed, ListedOnce
<1>8. CASE ~Resting \/ pluginPath = 0 \/ OldEvents
  <2>1. e.s # Cur \/ Dead(Cur)
    <3>1. CASE Resting
      <4>1. CASE pluginPath = 0
        BY <1>4, <4>1, Lengths DEF Cur
      <4>2. CASE OldEvents
        BY <1>6, <4>2
      <4>3. QED
        BY <1>8, <3>1, <4>1, <4>2
    <3>2. CASE ~Resting
      <4>1. PICK t \in TaskIds : \/ \E d \in Dirs : Handling(t, d)
                                 \/ Destroying(t) \/ Destroyed(t) \/ Creating(t)
        BY <3>2 DEF OneAtATime, Phase
      <4>2. ~ \E d \in Dirs : Handling(t, d)
        BY <1>2 DEF Handling, Around
      <4>3. Destroying(t) => Dead(Cur)
        BY DEF Destroying
      <4>4. Destroyed(t) => e.s # Cur
        BY <1>4, Lengths DEF Destroyed
      <4>5. Creating(t) => e.s # Cur
        BY <1>6 DEF Creating
      <4>6. QED
        BY <4>1, <4>2, <4>3, <4>4, <4>5
    <3>3. QED
      BY <3>1, <3>2
  <2>2. UNCHANGED <<schemes, tasks>>
    BY <1>2, <1>5, <2>1
  <2>3. QED
    BY <1>2, <1>8, <2>2, EventDropped
<1>9. CASE Resting /\ pluginPath # 0 /\ ~OldEvents
  <2>1. NoneBusy /\ Watching /\ Cur # 0 /\ Sc.kids = Sc.open
    BY <1>9 DEF Resting, Watching, Live
  <2>2. ASSUME OthersDead', Resting' \/ \E t \in TaskIds, x \in Dirs : Handling(t, x)'
        PROVE  OneAtATime'
    BY <1>7, <2>2 DEF OneAtATime, Phase
  <2>3. ASSUME NEW d \in Dirs, NEW act \in {"add", "change", "delete"}, TopPending(d, act)
        PROVE  OneAtATime'
    <3>1. act \in Acts
      BY DEF Acts
    <3>2. KidOf(d, act) \in Seq(E) /\ events = Cons(Event("top", d, act), KidOf(d, act))
          /\ Event("top", d, act) \in E
      <4>1. Event("top", d, act) \in E /\ Event("kid", d, act) \in E
        BY <2>1, <3>1, EventTyped
      <4>2. KidOf(d, act) \in Seq(E)
        BY <4>1, ConsIs, EmptySeq DEF KidOf
      <4>3. events = Cons(Event("top", d, act), KidOf(d, act))
        BY <2>3 DEF TopPending, KidOf
      <4>4. QED
        BY <4>1, <4>2, <4>3
    <3>3. e = Event("top", d, act) /\ events' = KidOf(d, act)
      BY <1>1, <1>2, <3>2, ConsIs
    <3>4. e.s = Cur /\ e.at = "top"
      BY <2>1, <3>1, <3>3, EventTyped
    <3>5. Watched(e)
      BY <2>1, <2>3, <3>4 DEF Watched, TopPending, Watching, Live, Sc
    <3>6. TopEvent(Event("top", d, act))
      BY <1>2, <3>3, <3>4, <3>5
    <3>7. OthersDead' /\ (Resting' \/ \E t \in TaskIds, x \in Dirs : Handling(t, x)')
      BY <1>2, <1>7, <2>1, <2>3, <3>3, <3>6, TopHandled
    <3>8. QED
      BY <2>2, <3>7
  <2>4. ASSUME NEW d \in Dirs, NEW act \in Acts, KidPending(d, act)
        PROVE  OneAtATime'
    <3>1. events = Cons(Event("kid", d, act), <<>>) /\ Event("kid", d, act) \in E /\ <<>> \in Seq(E)
      BY <2>1, <2>4, EventTyped, EmptySeq DEF KidPending
    <3>2. e = Event("kid", d, act) /\ events' = <<>>
      BY <1>1, <1>2, <3>1, ConsIs
    <3>3. e.s = Cur /\ e.at = "kid" /\ e.d = d
      BY <2>1, <3>2, EventTyped
    <3>4. Watched(e)
      BY <2>1, <2>4, <3>3 DEF Watched, KidPending, Sc
    <3>5. KidEvent(Event("kid", d, act))
      BY <1>2, <3>2, <3>3, <3>4
    <3>6. OthersDead' /\ \E t \in TaskIds, x \in Dirs : Handling(t, x)'
      BY <1>2, <1>7, <2>1, <2>4, <3>2, <3>5, KidHandled
    <3>7. QED
      BY <2>2, <3>6
  <2>5. QED
    BY <1>9, <2>1, <2>3, <2>4 DEF Watching
<1>10. QED
  BY <1>8, <1>9

-------------------------------------------------------------------------------
(* The scheme is destroyed, or kept *)

LEMMA IdleStrand == ASSUME NEW t, tasks[t] = Idle PROVE \A x \in Strands : tasks[t][x] = <<>>
BY DEF Idle, Strands

\* When no task is under way the registry is at rest.
LEMMA IdleRests ==
    ASSUME Types, Phase, \A t \in TaskIds : tasks[t] = Idle
    PROVE  Resting
<1> SUFFICES ASSUME ~Resting PROVE FALSE
  OBVIOUS
<1> DEFINE S == Steps(Len(insts), Len(schemes))
<1>1. PICK t \in TaskIds : \/ \E d \in Dirs : Handling(t, d)
                           \/ Destroying(t) \/ Destroyed(t) \/ Creating(t)
  BY DEF Phase
<1>2. Main \in Strands /\ Dirs \subseteq Strands /\ None \in Held
      /\ \A x \in Strands : tasks[t][x] = <<>>
  BY IdleStrand DEF Strands, Held
<1>3. \A h, w : Cons(h, w) = <<>> => ~(h \in S /\ w \in Seq(S))
  BY ConsIs
<1>4. ASSUME NEW d \in Dirs, Handling(t, d) PROVE FALSE
  <2>1. /\ Work(<<>>, d) /\ Cur \in 1..Len(schemes) /\ disk[d] \in Held
        /\ Sc.held[d] \in Held /\ Len(insts) \in Nat /\ Len(schemes) \in Nat
    BY <1>2, <1>4, CurIs, Lengths DEF Handling, Around, Live, Types
  <2>2. <<>> \in Seq(S)
    BY EmptySeq
  <2>3. Do("keep", Cur, d, None) \in S /\ Do("redetect", Cur, d, None) \in S
    BY <2>1, DoType
  <2>4. disk[d] # None => Do("added", Cur, d, disk[d]) \in S /\ Do("loaded", Cur, d, disk[d]) \in S
                          /\ Do("hold", Cur, d, disk[d]) \in S
    BY <2>1, DoType DEF Held
  <2>5. Redo(d) \in Seq(S) /\ Redo(d) # <<>> /\ Cons(Do("keep", Cur, d, None), <<>>) \in Seq(S)
        /\ Cons(Do("keep", Cur, d, None), <<>>) # <<>>
    BY <2>2, <2>3, ConsIs DEF Redo
  <2>6. disk[d] # None => Readd(d) \in Seq(S) /\ Readd(d) # <<>>
    <3> SUFFICES ASSUME disk[d] # None PROVE Readd(d) \in Seq(S) /\ Readd(d) # <<>>
      OBVIOUS
    <3>1. Cons(Do("added", Cur, d, disk[d]), <<>>) \in Seq(S)
      BY <2>2, <2>4, ConsIs
    <3>2. QED
      BY <2>4, <3>1, ConsIs DEF Readd
  <2> HIDE DEF S
  <2>7. ~NewKid(<<>>, d)
    BY <2>4, <2>5, <1>3 DEF NewKid, KidAdded
  <2>8. ~KidFound(<<>>, d)
    BY <2>2, <2>4, <2>5, <1>3 DEF KidFound, KidAdded
  <2>9. ~KidLost(<<>>, d)
    <3> SUFFICES ASSUME KidLost(<<>>, d) PROVE FALSE
      OBVIOUS
    <3>1. PICK then : /\ then = IF disk[d] = None THEN Redo(d) ELSE Readd(d)
                      /\ Left(<<>>, Cur, mgr, running, d, Sc.held[d], then)
      BY DEF KidLost
    <3>2. then \in Seq(S) /\ Sc.held[d] \in Plugins
      BY <2>1, <2>5, <2>6, <3>1 DEF KidLost, Held
    <3>3. QED
      BY <2>1, <3>1, <3>2, LeftNotEmpty DEF S
  <2>10. ~KidReplaced(<<>>, d) /\ ~Redetects(<<>>, d)
    BY <2>5, <2>6 DEF KidReplaced, Redetects
  <2>11. QED
    BY <2>1, <2>7, <2>8, <2>9, <2>10 DEF Work
<1>5. ASSUME pluginPath # 0, NEW w, Then(w) PROVE w \in Seq(S) /\ w # <<>>
  <2>1. pluginPath \in 1..Len(insts) /\ DetectScheme \in 0..3
    BY <1>5, CurIs, SchemeDetected
  <2>2. [do |-> "create", i |-> pluginPath, kind |-> DetectScheme] \in S /\ [do |-> "forget"] \in S
    BY <2>1 DEF Steps
  <2>3. <<>> \in Seq(S)
    BY EmptySeq
  <2>4. PICK h \in S : w = Cons(h, <<>>)
    BY <1>5, <2>2 DEF Then
  <2>5. QED
    BY <2>3, <2>4, ConsIs
<1>6. ~Destroying(t)
  <2> SUFFICES ASSUME Destroying(t) PROVE FALSE
    OBVIOUS
  <2>1. pluginPath # 0
    BY DEF Destroying
  <2>2. PICK w \in Seq(S) : Then(w) /\ tasks[t][Main] = Cons([do |-> "destroyed", i |-> pluginPath], w)
    BY DEF Destroying
  <2>3. [do |-> "destroyed", i |-> pluginPath] \in S
    BY <2>1, CurIs DEF Steps
  <2>4. QED
    BY <1>2, <2>2, <2>3, ConsIs
<1>7. ~Destroyed(t)
  BY <1>2, <1>5 DEF Destroyed
<1>8. ~Creating(t)
  <2> SUFFICES ASSUME Creating(t) PROVE FALSE
    OBVIOUS
  <2>1. PICK d \in Sc.open, w \in Seq(S) : disk[d] # None /\ KidAdded(tasks[t][Main], Cur, mgr, d, disk[d], w)
    BY <1>2 DEF Creating
  <2>2. d \in Dirs /\ Cur \in 1..Len(schemes)
    BY CurIs DEF Creating, Live
  <2>3. disk[d] \in Plugins
    BY <2>1, <2>2 DEF Types, Held
  <2>4. Do("added", Cur, d, disk[d]) \in S /\ Do("loaded", Cur, d, disk[d]) \in S
    BY <2>2, <2>3, Lengths, DoType
  <2>5. QED
    BY <1>2, <2>1, <2>4, ConsIs DEF KidAdded
<1>9. QED
  BY <1>1, <1>4, <1>6, <1>7, <1>8

LEMMA DestroyStep ==
    ASSUME Types, NoneBusy, Watching, OthersDead, FreeTasks # {},
           NEW then \in Seq(Steps(Len(insts), Len(schemes))), Then(then),
           NEW known \in Seq(SchemeType(Len(insts))), Len(known) = Len(schemes),
           \A s \in 1..Len(schemes) : s # Cur => known[s] = schemes[s],
           known[Cur].kids = Sc.kids, known[Cur].held = Sc.held, known[Cur].open = Sc.open,
           Destroy(pluginPath, FreeTask, then, known), UNCHANGED <<disk, pluginPath, mgr, running>>
    PROVE  OthersDead' /\ \E t \in TaskIds : Destroying(t)'
<1> DEFINE n == Len(insts)
           m == Len(schemes)
           S == Steps(n, m)
<1>1. /\ Cur # 0 /\ Cur \in 1..m /\ pluginPath \in 1..n /\ insts[pluginPath].scheme = Cur
      /\ insts[pluginPath].redetect = Cur /\ n \in Nat /\ m \in Nat
      /\ Sc.kids = Sc.open /\ Sc.held \in [Dirs -> Held] /\ Sc.kids \subseteq Dirs
  BY CurIs, Lengths DEF Watching, Live, Cur
<1>2. PICK t \in TaskIds : t = FreeTask
  BY FreeTaskIs
<1>3. PICK c \in 1..m : c = Cur
  BY <1>1
<1>4. PICK i \in 1..n : i = pluginPath
  BY <1>1
<1>5. /\ tasks' \in TasksType(n, m)
      /\ insts' \in Seq(InstType(m)) /\ Len(insts') = n
      /\ schemes' \in Seq(SchemeType(n)) /\ Len(schemes') = m
  BY <1>1, <1>2, DestroyTypes
<1> DEFINE gone == {d \in known[c].kids : known[c].held[d] # None}
           destroyed == [do |-> "destroyed", i |-> i]
           Cancelled(x) == [known[x] EXCEPT !.timer = @ /\ x # c]
           Strand(x) == IF x = Main THEN <<destroyed>> \o then
                        ELSE IF x \in gone THEN Deletion(c, x, known[c].held[x]) ELSE <<>>
<1>6. /\ tasks' = [tasks EXCEPT ![t] = [x \in Dirs \cup {Main} |-> Strand(x)]]
      /\ insts' = [insts EXCEPT ![i].redetect = 0]
      /\ schemes' = [x \in 1..m |->
            IF x = c THEN [Cancelled(x) EXCEPT !.top = FALSE, !.open = @ \ known[x].kids]
            ELSE Cancelled(x)]
  BY <1>1, <1>2, <1>3, <1>4 DEF Destroy
<1>7. Cur' = c /\ pluginPath' # 0
  <2>1. insts[i] \in InstType(m)
    BY ElementOfSeq DEF Types
  <2>2. insts'[i].scheme = insts[i].scheme
    <3>1. insts' = [insts EXCEPT ![i] = [insts[i] EXCEPT !.redetect = 0]]
      BY <1>6
    <3>2. PICK e : e = [insts[i] EXCEPT !.redetect = 0]
      OBVIOUS
    <3>3. e.scheme = insts[i].scheme
      BY <2>1, <3>2 DEF InstType
    <3>4. insts'[i] = e
      <4>1. DOMAIN insts = 1..n
        BY LenProperties DEF Types
      <4>2. QED
        BY <3>1, <3>2, <4>1
    <3>5. QED
      BY <3>3, <3>4
  <2>3. QED
    BY <1>1, <1>3, <1>4, <2>2 DEF Cur
<1>8. \A x \in 1..m : known[x] \in SchemeType(n)
  BY <1>1, ElementOfSeq
<1>9. Dead(c)' /\ OthersDead'
  <2>1. /\ schemes'[c].top = FALSE /\ schemes'[c].open = known[c].open \ known[c].kids
        /\ schemes'[c].timer = FALSE
    BY <1>6, <1>8 DEF SchemeType
  <2>2. Dead(c)'
    BY <1>1, <1>3, <2>1 DEF Dead
  <2>3. ASSUME NEW s \in 1..m, s # c PROVE Dead(s)'
    <3>1. schemes'[s] = Cancelled(s) /\ known[s] = schemes[s] /\ Dead(s)
      BY <1>3, <1>6, <2>3 DEF OthersDead
    <3>2. known[s] \in SchemeType(n)
      BY <1>8
    <3>3. /\ schemes'[s].top = schemes[s].top /\ schemes'[s].open = schemes[s].open
          /\ schemes'[s].timer = (schemes[s].timer /\ s # c)
      BY <3>1, <3>2 DEF SchemeType
    <3>4. QED
      BY <3>1, <3>3 DEF Dead
  <2>4. QED
    BY <1>5, <1>7, <2>2, <2>3 DEF OthersDead
<1>10. /\ \A x \in Strands : tasks'[t][x] = Strand(x)
       /\ Busy(t)'
  <2>1. tasks \in TasksType(n, m)
    BY DEF Types
  <2> HIDE DEF Strand
  <2>2. /\ \A x \in Strands : tasks'[t][x] = Strand(x)
        /\ \A u \in TaskIds : u # t => tasks'[u] = tasks[u]
    BY <1>6, <2>1 DEF TasksType, Strands
  <2>3. QED
    BY <2>2 DEF NoneBusy, Busy
<1>11. \A d \in Dirs : d \in Strands /\ d # Main
  BY PRAssumption DEF Strands
<1>12. \E w \in Seq(Steps(Len(insts'), Len(schemes'))) :
         Then(w)' /\ tasks'[t][Main] = Cons([do |-> "destroyed", i |-> pluginPath'], w)
  <2>1. Then(then)'
    BY DetectSame DEF Then
  <2>2. tasks'[t][Main] = Cons(destroyed, then)
    BY <1>10 DEF Cons, Strands
  <2>3. QED
    BY <1>4, <1>5, <2>1, <2>2
<1>13. ASSUME NEW d \in Dirs
       PROVE  \/ tasks'[t][d] = <<>> /\ Out(mgr', d)
              \/ \E q \in Plugins : Left(tasks'[t][d], Cur', mgr', running', d, q, <<>>)
  <2>1. CASE d \notin gone
    <3>1. tasks'[t][d] = <<>>
      BY <1>10, <1>11, <2>1
    <3>2. Out(mgr, d)
      <4>1. d \notin Sc.kids \/ Sc.held[d] = None
        BY <1>3, <2>1
      <4>2. QED
        BY <4>1, WatchedHas DEF In, Out, Sup
    <3>3. QED
      BY <3>1, <3>2
  <2>2. CASE d \in gone
    <3>1. PICK q : q = Sc.held[d]
      OBVIOUS
    <3>2. q \in Plugins /\ In(mgr, d, q)
      <4>1. d \in Sc.kids /\ Sc.held[d] # None /\ Sc.held[d] \in Held
        BY <1>1, <1>3, <2>2
      <4>2. QED
        BY <3>1, <4>1, WatchedHas DEF Held
    <3>3. tasks'[t][d] = Deletion(c, d, q)
      BY <1>3, <1>10, <1>11, <2>2, <3>1
    <3>4. Deletion(c, d, q) =
            Cons(Do("stop", c, d, q), Cons(Do("removed", c, d, q), Cons(Do("hold", c, d, None), <<>>)))
      <4>1. Do("stop", c, d, q) \in S /\ Do("removed", c, d, q) \in S /\ Do("hold", c, d, None) \in S
        BY <1>1, <3>2, DoType DEF Held
      <4> HIDE DEF S
      <4>2. QED
        BY <4>1 DEF Deletion, Cons
    <3>5. Left(tasks'[t][d], Cur', mgr', running', d, q, <<>>)
      BY <1>7, <3>2, <3>3, <3>4 DEF Left
    <3>6. QED
      BY <3>2, <3>5
  <2>3. QED
    BY <2>1, <2>2
<1>14. Destroying(t)'
  BY <1>7, <1>9, <1>10, <1>12, <1>13 DEF Destroying
<1>15. QED
  BY <1>9, <1>14

\* The debounced redetection of a scheme, when no task is under way.
LEMMA RedetectStep ==
    ASSUME Types, OneAtATime, ~Slow, NEW s \in 1..Len(schemes), Redetect(s)
    PROVE  OneAtATime'
<1> DEFINE n == Len(insts)
           m == Len(schemes)
           fired == [schemes EXCEPT ![s].timer = FALSE]
<1>1. /\ FreeTasks = TaskIds /\ FreeTasks # {} /\ schemes[s].timer
      /\ UNCHANGED <<disk, pluginPath, events, mgr, running, races>>
  BY DEF Redetect
<1>2. Resting
  <2>1. \A t \in TaskIds : tasks[t] = Idle
    BY <1>1 DEF FreeTasks
  <2>2. QED
    BY <2>1, IdleRests DEF OneAtATime
<1>3. s = Cur
  BY <1>1 DEF OneAtATime, OthersDead, Dead
<1>4. pluginPath # 0
  BY <1>3, Lengths DEF Cur
<1>5. /\ NoneBusy /\ Watching /\ Live /\ Cur # 0 /\ Sc.owner = pluginPath
      /\ insts[pluginPath].scheme = Cur /\ Sc \in SchemeType(n) /\ n \in Nat /\ m \in Nat
      /\ pluginPath \in 1..n
  BY <1>2, <1>4, CurIs, Lengths DEF Resting, Watching, Live, Cur
<1>6. MgrGood'
  BY <1>1 DEF OneAtATime, MgrGood, RunningNamed, ListedOnce
<1>7. fired = [schemes EXCEPT ![Cur] = [Sc EXCEPT !.timer = FALSE]]
  BY <1>3 DEF Sc
<1>8. OthersDead
  BY DEF OneAtATime
<1>9. CASE /\ Sc.kind = DetectScheme /\ schemes' = fired /\ UNCHANGED <<insts, tasks>>
  <2>1. Cur' = Cur /\ Sc' = [Sc EXCEPT !.timer = FALSE] /\ OthersDead'
    BY <1>1, <1>5, <1>7, <1>8, <1>9, ScSet
  <2>2. /\ Sc'.kids = Sc.kids /\ Sc'.open = Sc.open /\ Sc'.kind = Sc.kind /\ Sc'.top = Sc.top
        /\ Sc'.owner = Sc.owner /\ Sc'.held = Sc.held
    BY <1>5, <2>1 DEF SchemeType
  <2>3. Right'
    BY <1>1, <1>9, <2>2, DetectSame DEF Right
  <2>4. \A e \in Dirs \cup {None} : (FreshBut(e) => FreshBut(e)') /\ (AllBut(e) => AllBut(e)')
    BY <1>1, <2>2 DEF FreshBut, Fresh, AllBut
  <2>5. \A d, act : /\ Edited(d, act) => Edited(d, act)'
                    /\ \A at : Event(at, d, act)' = Event(at, d, act)
                    /\ Fresh(d) => Fresh(d)'
    BY <1>1, <2>1, <2>2 DEF Edited, Event, Fresh
  <2>6. ASSUME NEW d \in Dirs, NEW act, TopPending(d, act) PROVE TopPending(d, act)'
    BY <1>1, <2>1, <2>2, <2>4, <2>5, <2>6 DEF TopPending
  <2>7. ASSUME NEW d \in Dirs, NEW act, KidPending(d, act) PROVE KidPending(d, act)'
    BY <1>1, <2>1, <2>2, <2>3, <2>4, <2>5, <2>7 DEF KidPending
  <2>8. OldEvents => OldEvents'
    BY <1>1, <2>1 DEF OldEvents
  <2>9. Live' /\ Sc'.kids = Sc'.open /\ ShownBut(None)'
    <3>1. Live /\ Sc.kids = Sc.open /\ ShownBut(None)
      BY <1>5 DEF Watching
    <3>2. QED
      BY <1>1, <1>9, <2>1, <2>2, <3>1 DEF Live, ShownBut, Shown
  <2>10. Watching'
    <3>1. CASE OldEvents /\ FreshBut(None) /\ AllBut(None)
      <4>1. OldEvents' /\ FreshBut(None)' /\ AllBut(None)'
        BY <2>4, <2>8, <3>1
      <4>2. QED
        BY <2>3, <2>9, <4>1 DEF Watching
    <3>2. CASE \E d \in Dirs, act \in {"add", "change", "delete"} : TopPending(d, act)
      <4>1. PICK d \in Dirs, act \in {"add", "change", "delete"} : TopPending(d, act)'
        BY <2>6, <3>2
      <4>2. QED
        BY <2>9, <4>1 DEF Watching
    <3>3. CASE \E d \in Dirs, act \in Acts : KidPending(d, act)
      <4>1. PICK d \in Dirs, act \in Acts : KidPending(d, act)'
        BY <2>7, <3>3
      <4>2. QED
        BY <2>9, <4>1 DEF Watching
    <3>4. QED
      BY <1>5, <3>1, <3>2, <3>3 DEF Watching
  <2>11. Resting'
    BY <1>1, <1>4, <1>5, <1>9, <2>10 DEF Resting, NoneBusy
  <2>12. QED
    BY <1>6, <2>1, <2>11 DEF OneAtATime, Phase
<1>10. CASE Destroy(pluginPath, FreeTask,
                    <<[do |-> "create", i |-> pluginPath, kind |-> DetectScheme]>>, fired)
  <2>1. PICK then : then = <<[do |-> "create", i |-> pluginPath, kind |-> DetectScheme]>>
    OBVIOUS
  <2>2. then \in Seq(Steps(n, m)) /\ Then(then)
    <3>1. [do |-> "create", i |-> pluginPath, kind |-> DetectScheme] \in Steps(n, m)
      BY <1>5, SchemeDetected DEF Steps
    <3>2. QED
      BY <2>1, <3>1, ConcatEmptySeq DEF Then, Cons
  <2>3. PICK known : known = fired
    OBVIOUS
  <2>a. schemes \in Seq(SchemeType(n)) /\ Cur \in 1..m
    BY <1>3 DEF Types
  <2>b. PICK sc \in SchemeType(n) : sc = [Sc EXCEPT !.timer = FALSE] /\ known = [schemes EXCEPT ![Cur] = sc]
    <3>1. [Sc EXCEPT !.timer = FALSE] \in SchemeType(n)
      BY <1>5 DEF SchemeType
    <3>2. QED
      BY <1>7, <2>3, <3>1
  <2>4. known \in Seq(SchemeType(n)) /\ Len(known) = m
    BY <2>a, <2>b, ExceptSeq
  <2>5. /\ known[Cur].kids = Sc.kids /\ known[Cur].held = Sc.held /\ known[Cur].open = Sc.open
        /\ \A x \in 1..m : x # Cur => known[x] = schemes[x]
    <3>1. known[Cur] = sc /\ \A x \in 1..m : x # Cur => known[x] = schemes[x]
      <4>1. DOMAIN schemes = 1..m
        BY <2>a, LenProperties
      <4>2. QED
        BY <2>a, <2>b, <4>1
    <3>2. QED
      BY <1>5, <2>b, <3>1 DEF SchemeType
  <2>6. OthersDead' /\ \E t \in TaskIds : Destroying(t)'
    BY <1>1, <1>5, <1>8, <1>10, <2>1, <2>2, <2>3, <2>4, <2>5, DestroyStep
  <2>7. QED
    BY <1>6, <2>6 DEF OneAtATime, Phase
<1>11. QED
  BY <1>3, <1>5, <1>9, <1>10 DEF Redetect, Sc

-------------------------------------------------------------------------------
(* A call or a change comes in when all is quiet *)

LEMMA QuietIs ==
    ASSUME Types, OneAtATime, Quiet
    PROVE  /\ Resting /\ NoneBusy /\ events = <<>>
           /\ pluginPath # 0 =>
                /\ Watching /\ Live /\ Sc.kind = DetectScheme /\ AllBut(None) /\ FreshBut(None) /\ Right
                /\ \A e \in Sc.kids : Sc.held[e] = disk[e]
<1>1. Resting /\ NoneBusy /\ events = <<>>
  BY IdleRests DEF OneAtATime, Quiet, Resting
<1>2. ASSUME pluginPath # 0
      PROVE  /\ Watching /\ Live /\ Sc.kind = DetectScheme /\ AllBut(None) /\ FreshBut(None) /\ Right
             /\ \A e \in Sc.kids : Sc.held[e] = disk[e]
  <2>1. Watching /\ Live /\ Cur # 0
    BY <1>1, <1>2 DEF Resting, Watching, Live
  <2>2. Cur \in 1..Len(schemes) /\ Sc.kids \subseteq Dirs
    BY <2>1, CurIs
  <2>3. Right /\ FreshBut(None) /\ AllBut(None)
    BY <1>1, <2>1, PendingIs DEF Watching
  <2>4. Sc.kind = DetectScheme
    BY <2>2, <2>3 DEF Right, Quiet, Sc
  <2>5. ASSUME NEW e \in Sc.kids PROVE Sc.held[e] = disk[e]
    <3>1. Fresh(e) /\ Depth[e] = Sc.kind
      BY <2>1, <2>2, <2>3, PRAssumption DEF FreshBut, Live
    <3>2. ASSUME Sc.kind = 0 PROVE disk[e] # None
      <4>1. PICK d \in Dirs : Depth[d] = 0 /\ disk[d] # None
        BY <2>4, <3>2, SchemeDetected DEF Covers
      <4>2. d = e
        BY <2>2, <3>1, <3>2, <4>1, PRAssumption
      <4>3. QED
        BY <4>1, <4>2
    <3>3. QED
      BY <3>1, <3>2 DEF Fresh
  <2>6. QED
    BY <2>1, <2>3, <2>4, <2>5
<1>3. QED
  BY <1>1, <1>2

LEMMA UnregisterStep ==
    ASSUME Types, OneAtATime, Quiet, UnregisterPluginPath
    PROVE  OneAtATime'
<1>1. /\ FreeTasks # {} /\ pluginPath # 0
      /\ Destroy(pluginPath, FreeTask, <<[do |-> "forget"]>>, schemes)
      /\ UNCHANGED <<disk, pluginPath, mgr, running>>
  BY DEF UnregisterPluginPath
<1>2. NoneBusy /\ Watching /\ OthersDead
  BY <1>1, QuietIs DEF OneAtATime
<1>3. <<[do |-> "forget"]>> \in Seq(Steps(Len(insts), Len(schemes))) /\ Then(<<[do |-> "forget"]>>)
  <2>1. [do |-> "forget"] \in Steps(Len(insts), Len(schemes))
    BY DEF Steps
  <2>2. QED
    BY <2>1, ConcatEmptySeq DEF Then, Cons
<1>4. OthersDead' /\ \E t \in TaskIds : Destroying(t)'
  BY <1>1, <1>2, <1>3, DestroyStep DEF Sc, Types
<1>5. MgrGood'
  BY <1>1 DEF OneAtATime, MgrGood, RunningNamed, ListedOnce
<1>6. QED
  BY <1>4, <1>5 DEF OneAtATime, Phase

LEMMA RegisterStep ==
    ASSUME Types, OneAtATime, Quiet, RegisterPluginPath
    PROVE  OneAtATime'
<1> DEFINE n == Len(insts)
           new == [scheme |-> 0, redetect |-> 0]
<1>1. /\ FreeTasks # {} /\ pluginPath = 0 /\ insts' = Append(insts, new) /\ pluginPath' = Len(insts')
      /\ Spawn(Main, <<[do |-> "create", i |-> pluginPath', kind |-> DetectScheme]>>)
      /\ UNCHANGED <<disk, schemes, mgr, running>>
  BY DEF RegisterPluginPath
<1>2. NoneBusy /\ Resting /\ \A d \in Dirs : Out(mgr, d)
  BY <1>1, QuietIs DEF Resting
<1>3. n \in Nat /\ Main \in Strands /\ \A d \in Dirs : d \in Strands /\ d # Main
  BY Lengths, PRAssumption DEF Strands
<1>4. pluginPath' = n + 1 /\ insts'[n + 1] = new
  <2>1. insts \in Seq(InstType(Len(schemes))) /\ new \in InstType(Len(schemes))
    BY Lengths DEF Types, InstType
  <2> HIDE DEF new
  <2>2. QED
    BY <1>1, <2>1, AppendProperties
<1>5. Cur' = 0 /\ pluginPath' # 0
  BY <1>3, <1>4 DEF Cur
<1>6. OthersDead'
  <2>1. Cur = 0
    BY <1>1 DEF Cur
  <2>2. \A s \in 1..Len(schemes) : Dead(s)
    BY <2>1, Lengths DEF OneAtATime, OthersDead
  <2>3. QED
    BY <1>1, <2>2 DEF OthersDead, Dead
<1>7. PICK work : work = <<[do |-> "create", i |-> pluginPath', kind |-> DetectScheme]>>
  OBVIOUS
<1>8. PICK t \in TaskIds : /\ tasks'[t][Main] = work /\ Busy(t)'
                           /\ \A y \in Strands : y # Main => tasks'[t][y] = <<>>
  BY <1>1, <1>2, <1>3, <1>7, Spawned
<1>9. Then(tasks[t][Main])'
  <2>1. PICK k : k = DetectScheme
    OBVIOUS
  <2>2. DetectScheme' = k
    BY <1>1, <2>1, DetectSame
  <2>3. work = Cons([do |-> "create", i |-> pluginPath', kind |-> k], <<>>)
    <3>1. PICK h : h = [do |-> "create", i |-> pluginPath', kind |-> k]
      OBVIOUS
    <3>2. <<h>> \in Seq({h})
      OBVIOUS
    <3>3. <<h>> \o <<>> = <<h>>
      BY <3>2, ConcatEmptySeq
    <3>4. QED
      BY <1>7, <2>1, <3>1, <3>3 DEF Cons
  <2>4. QED
    BY <1>8, <2>2, <2>3 DEF Then
<1>10. Destroyed(t)'
  BY <1>1, <1>2, <1>3, <1>5, <1>8, <1>9 DEF Destroyed
<1>11. MgrGood'
  BY <1>1 DEF OneAtATime, MgrGood, RunningNamed, ListedOnce
<1>12. QED
  BY <1>6, <1>10, <1>11 DEF OneAtATime, Phase

\* What is named is named under its own name.
LEMMA NamedRight ==
    ASSUME Types, Each(mgr), NEW n \in Names, NEW v \in mgr.versions[n]
    PROVE  v \in Instances /\ v.plugin.name = n
<1>1. v \in Instances
  BY DEF Types, MgrType
<1>2. v.dir \in Dirs
  BY <1>1 DEF Instances
<1>3. PICK a, l, w \in Held : Has(mgr, v.dir, a, l, w)
  BY <1>2 DEF Each
<1>4. QED
  BY <1>1, <1>3 DEF Has, NamedAs

LEMMA RunStep ==
    ASSUME Types, OneAtATime, Quiet, AutoStart \/ \E n \in Names : Dispatch(n) \/ StopPlugins(n)
    PROVE  OneAtATime'
<1>1. UNCHANGED <<disk, pluginPath, insts, schemes, events, tasks, mgr, refused>>
  BY DEF AutoStart, Dispatch, StopPlugins
<1>2. Each(mgr) /\ ListedOnce(mgr) /\ RunningNamed
  BY DEF OneAtATime, MgrGood
<1>3. RunningNamed'
  <2>1. CASE AutoStart
    <3> SUFFICES ASSUME NEW r \in running', r \notin running PROVE r \in mgr.versions[r.plugin.name]
      BY <1>1, <1>2 DEF RunningNamed
    <3>1. PICK n \in Names : r \in mgr.versions[n]
      BY <2>1 DEF AutoStart
    <3>2. QED
      BY <1>2, <3>1, NamedRight
  <2>2. ASSUME NEW n \in Names, Dispatch(n) PROVE RunningNamed'
    <3>1. PICK v \in mgr.versions[n] : running' = running \cup {v}
      BY <2>2 DEF Dispatch
    <3>2. v \in mgr.versions[v.plugin.name]
      BY <1>2, NamedRight
    <3>3. QED
      BY <1>1, <1>2, <3>1, <3>2 DEF RunningNamed
  <2>3. ASSUME NEW n \in Names, StopPlugins(n) PROVE RunningNamed'
    BY <1>1, <1>2, <2>3 DEF StopPlugins, RunningNamed
  <2>4. QED
    BY <2>1, <2>2, <2>3
<1>4. MgrGood'
  BY <1>1, <1>2, <1>3 DEF MgrGood, ListedOnce
<1>5. Cur' = Cur /\ Sc' = Sc /\ OthersDead' /\ (Right => Right')
  BY <1>1, ScSame, DetectSame DEF OneAtATime, Right
<1>6. Resting /\ NoneBusy /\ events = <<>>
      /\ (pluginPath # 0 => Watching /\ Live /\ Right /\ FreshBut(None) /\ AllBut(None))
  BY QuietIs
<1>7. Resting'
  <2>1. NoneBusy' /\ OldEvents'
    BY <1>1, <1>6 DEF NoneBusy, OldEvents
  <2>2. CASE pluginPath = 0
    BY <1>1, <1>6, <2>1, <2>2 DEF Resting
  <2>3. CASE pluginPath # 0
    <3>1. Sc.kids = Sc.open /\ ShownBut(None)
      BY <1>6, <2>3 DEF Watching
    <3>2. Live' /\ Sc'.kids = Sc'.open /\ ShownBut(None)' /\ FreshBut(None)' /\ AllBut(None)'
      BY <1>1, <1>5, <1>6, <2>3, <3>1 DEF Live, ShownBut, Shown, FreshBut, Fresh, AllBut
    <3>3. QED
      BY <1>1, <1>5, <1>6, <2>1, <2>3, <3>2 DEF Resting, Watching
  <2>4. QED
    BY <2>2, <2>3
<1>8. QED
  BY <1>4, <1>5, <1>7 DEF OneAtATime, Phase

\* The events of a change: those of the watchers of the registered path's scheme.
LEMMA ChangeEvents ==
    ASSUME Types, OthersDead, events = <<>>, NEW d \in Dirs, NEW p, NEW act \in Acts, Change(d, p, act)
    PROVE  events' = IF Cur = 0 THEN <<>> ELSE EventsOf(Cur, d, act)
<1> DEFINE E == EventType(Len(schemes))
           ss == [s \in 1..Len(schemes) |-> EventsOf(s, d, act)]
<1>1. Len(schemes) \in Nat /\ Cur \in 0..Len(schemes)
  BY Lengths, CurIs
<1>2. \A s \in 1..Len(schemes) : EventsOf(s, d, act) \in Seq(E)
  BY EventsOfType
<1>3. \A s \in 1..Len(schemes) : s # Cur => EventsOf(s, d, act) = <<>>
  <2> SUFFICES ASSUME NEW s \in 1..Len(schemes), s # Cur PROVE EventsOf(s, d, act) = <<>>
    OBVIOUS
  <2>1. ~schemes[s].top /\ schemes[s].open = {}
    BY DEF OthersDead, Dead
  <2>2. TopEvents(s, d, act) = <<>> /\ KidEvents(s, d, act) = <<>> /\ RootEvents(s, d, act) = <<>>
    BY <2>1 DEF TopEvents, KidEvents, RootEvents
  <2>3. QED
    BY <2>2, ConcatEmptySeq, EmptySeq DEF EventsOf
<1> HIDE DEF E
<1>4. ss \in Seq(Seq(E)) /\ Len(ss) = Len(schemes)
  BY <1>1, <1>2
<1>5. \A s \in 1..Len(schemes) : ss[s] = EventsOf(s, d, act)
  OBVIOUS
<1>6. events' = events \o FlattenSeq(ss)
  BY ChangeIs
<1> HIDE DEF ss
<1>7. FlattenSeq(ss) = IF Cur = 0 THEN <<>> ELSE EventsOf(Cur, d, act)
  BY <1>1, <1>3, <1>4, <1>5, FlattenOne
<1>8. FlattenSeq(ss) \in Seq(E)
  BY <1>4, FlattenType
<1>9. QED
  BY <1>6, <1>7, <1>8, ConcatEmptySeq

\* A plugin in the path itself is detected before any other.
LEMMA DetectedRoot == disk'[Root] # None => DetectScheme' = 0
<1> SUFFICES ASSUME disk'[Root] # None PROVE DetectScheme' = 0
  OBVIOUS
<1> DEFINE C(k) == /\ k = 3 \/ \E d \in Dirs : Depth[d] = k /\ disk'[d] # None
                   /\ \A j \in 0..k-1 : \A d \in Dirs : Depth[d] = j => disk'[d] = None
<1>1. DetectScheme' = CHOOSE k \in 0..3 : C(k)
  BY DEF DetectScheme
<1>2. Root \in Dirs /\ Depth[Root] = 0
  BY PRAssumption
<1>3. C(0)
  BY <1>2
<1>4. \A k \in 0..3 : C(k) => k = 0
  <2> SUFFICES ASSUME NEW k \in 0..3, C(k), k # 0 PROVE FALSE
    OBVIOUS
  <2>1. 0 \in 0..k-1
    OBVIOUS
  <2>2. QED
    BY <1>2, <2>1
<1> HIDE DEF C
<1>5. QED
  BY <1>1, <1>3, <1>4

\* A change while all is quiet: the watchers have an event of it, where it matters.
LEMMA ChangePending ==
    ASSUME Types, OneAtATime, Quiet, pluginPath # 0,
           NEW d \in Dirs, NEW p \in Held, NEW act \in {"add", "change", "delete"}, Change(d, p, act)
    PROVE  Resting'
<1>1. /\ disk[d] # p /\ disk' = [disk EXCEPT ![d] = p]
      /\ act = (CASE disk[d] = None -> "add" [] p = None -> "delete" [] OTHER -> "change")
      /\ UNCHANGED <<pluginPath, insts, schemes, tasks, mgr>>
  BY DEF Change
<1>2. /\ Resting /\ NoneBusy /\ events = <<>> /\ Watching /\ Live /\ Sc.kind = DetectScheme
      /\ AllBut(None) /\ Right /\ \A e \in Sc.kids : Sc.held[e] = disk[e]
  BY QuietIs
<1>3. /\ Cur # 0 /\ Cur \in 1..Len(schemes) /\ Sc.kids \subseteq Dirs /\ Sc.kids = Sc.open
      /\ Sc.kind \in 0..3 /\ Sc \in SchemeType(Len(insts))
      /\ (Sc.top <=> Sc.kind # 0) /\ (\A e \in Sc.kids : Depth[e] = Sc.kind) /\ (Sc.kind = 0 => Root \in Sc.kids)
  BY <1>2, CurIs DEF Watching, Live
<1>4. act \in Acts /\ d # None /\ None \notin Dirs
  BY PRAssumption DEF Acts
<1>5. events' = TopEvents(Cur, d, act) \o KidEvents(Cur, d, act) \o RootEvents(Cur, d, act)
  BY <1>2, <1>3, <1>4, ChangeEvents DEF OneAtATime, EventsOf
<1>6. Cur' = Cur /\ Sc' = Sc
  BY <1>1, ScSame
<1>7. /\ disk'[d] = p /\ \A e \in Dirs : e # d => disk'[e] = disk[e]
      /\ act = "add" <=> disk[d] = None
      /\ act = "delete" <=> disk[d] # None /\ p = None
      /\ act = "change" <=> disk[d] # None /\ p # None
  <2>1. disk'[d] = p /\ \A e \in Dirs : e # d => disk'[e] = disk[e]
    BY <1>1 DEF Types
  <2>2. QED
    BY <1>1, <2>1
<1>8. NoneBusy' /\ pluginPath' # 0 /\ Live' /\ Sc'.kids = Sc'.open
  BY <1>1, <1>2, <1>3, <1>6 DEF NoneBusy, Live
<1>9. ShownBut(None)'
  <2>1. ShownBut(None)
    BY <1>2 DEF Watching
  <2>2. QED
    BY <1>1, <1>6, <2>1 DEF ShownBut, Shown
<1>10. FreshBut(d)'
  <2>1. \A e \in Sc.kids : e # d => Sc'.held[e] = disk'[e]
    BY <1>2, <1>3, <1>6, <1>7
  <2>2. QED
    BY <1>6, <2>1 DEF FreshBut, Fresh
<1>11. AllBut(d)'
  BY <1>2, <1>4, <1>6, <1>7 DEF AllBut
<1>12. d \in Sc.kids => Edited(d, act)'
  BY <1>1, <1>2, <1>3, <1>6, <1>7 DEF Edited
<1>13. \A k : Depth[k] = 0 /\ k \in Dirs <=> k = Root
  BY PRAssumption
<1> DEFINE E == EventType(Len(schemes))
           top == Event("top", d, act)
           kid == Event("kid", d, act)
           other == Event("kid", Root, "other")
<1>14. top \in E /\ kid \in E /\ other \in E
  BY <1>3, <1>4, <1>13, EventTyped DEF Acts
<1>15. /\ TopEvents(Cur, d, act) = IF Sc.kind # 0 THEN <<top>> ELSE <<>>
       /\ KidEvents(Cur, d, act) = IF d \in Sc.kids /\ ~(d = Root /\ act = "delete") THEN <<kid>> ELSE <<>>
       /\ RootEvents(Cur, d, act) =
            IF Root \in Sc.kids /\ (d = Root => act = "delete") /\ Depth[d] < 2 THEN <<other>> ELSE <<>>
  BY <1>3 DEF TopEvents, KidEvents, RootEvents, Sc, Event
<1>16. /\ \A e \in E : <<>> \o <<>> \o <<e>> = Cons(e, <<>>) /\ <<>> \o <<e>> \o <<>> = Cons(e, <<>>)
                       /\ <<e>> \o <<>> \o <<>> = Cons(e, <<>>)
       /\ \A e, f \in E : <<e>> \o <<f>> \o <<>> = Cons(e, Cons(f, <<>>))
       /\ <<>> \o <<>> \o <<>> = <<>>
  <2>1. <<>> \in Seq(E) /\ \A e \in E : <<e>> \in Seq(E)
    BY EmptySeq
  <2> HIDE DEF E
  <2>2. \A e \in E : <<>> \o <<e>> = <<e>> /\ <<e>> \o <<>> = <<e>>
    BY <2>1, ConcatEmptySeq
  <2>3. <<>> \o <<>> = <<>>
    BY <2>1, ConcatEmptySeq
  <2>4. \A e, f \in E : <<e>> \o <<f>> \in Seq(E)
    BY <2>1, ConcatProperties
  <2>5. \A e, f \in E : (<<e>> \o <<f>>) \o <<>> = <<e>> \o <<f>>
    BY <2>4, ConcatEmptySeq
  <2>6. QED
    BY <2>2, <2>3, <2>5 DEF Cons
<1>17. \A at, e, a : Event(at, e, a)' = Event(at, e, a)
  BY <1>6 DEF Event
<1> HIDE DEF top, kid, other, E
<1>18. CASE Sc.kind # 0
  <2>1. d \in Sc.kids => d # Root
    BY <1>3, <1>13, <1>18
  <2>2. Root \notin Sc.kids
    BY <1>3, <1>13, <1>18
  <2>3. events' = IF d \in Sc.kids THEN Cons(top, Cons(kid, <<>>)) ELSE Cons(top, <<>>)
    BY <1>5, <1>14, <1>15, <1>16, <1>18, <2>1, <2>2
  <2>4. d \notin Sc.kids /\ Depth[d] = Sc.kind => act = "add" /\ p # None
    BY <1>1, <1>2, <1>4, <1>7 DEF AllBut
  <2>5. TopPending(d, act)'
    BY <1>6, <1>7, <1>10, <1>11, <1>12, <1>17, <1>18, <2>3, <2>4 DEF TopPending, top, kid
  <2>6. Watching'
    BY <1>8, <1>9, <2>5 DEF Watching
  <2>7. QED
    BY <1>8, <2>6 DEF Resting
<1>19. CASE Sc.kind = 0
  <2>1. Sc.kids = {Root}
    BY <1>3, <1>13, <1>19
  <2>2. AllBut(None)'
    BY <1>6, <1>13, <1>19, <2>1 DEF AllBut
  <2>3. disk[Root] # None
    <3>1. PICK e \in Dirs : Depth[e] = 0 /\ disk[e] # None
      BY <1>2, <1>19, SchemeDetected DEF Covers
    <3>2. QED
      BY <1>13, <3>1
  <2>4. disk'[Root] # None => Right'
    <3> SUFFICES ASSUME disk'[Root] # None PROVE Right'
      OBVIOUS
    <3>1. DetectScheme' = 0
      BY <1>13, DetectedRoot
    <3>2. QED
      BY <1>6, <1>19, <3>1 DEF Right
  <2>5. CASE d = Root /\ act # "delete"
    <3>1. events' = Cons(kid, <<>>)
      BY <1>5, <1>14, <1>15, <1>16, <1>19, <2>1, <2>5
    <3>2. Right'
      BY <1>1, <1>7, <2>3, <2>4, <2>5
    <3>3. KidPending(d, act)'
      BY <1>6, <1>10, <1>12, <1>17, <2>1, <2>2, <2>5, <3>1, <3>2 DEF KidPending, kid
    <3>4. QED
      BY <1>4, <1>8, <1>9, <3>3 DEF Resting, Watching
  <2>6. CASE (d = Root => act = "delete") /\ Depth[d] < 2
    <3>1. events' = Cons(other, <<>>)
      BY <1>5, <1>14, <1>15, <1>16, <1>19, <2>1, <2>6
    <3>2. Sc.held[Root] # None
      BY <1>2, <2>1, <2>3
    <3>3. Fresh(Root)'
      <4>1. CASE d = Root
        BY <1>6, <1>7, <1>19, <2>6, <4>1 DEF Fresh
      <4>2. CASE d # Root
        BY <1>2, <1>6, <1>7, <1>13, <2>1, <4>2 DEF Fresh
      <4>3. QED
        BY <4>1, <4>2
    <3>4. FreshBut(Root)'
      BY <1>6, <2>1 DEF FreshBut
    <3>5. KidPending(Root, "other")'
      BY <1>6, <1>17, <1>19, <2>1, <2>2, <3>1, <3>2, <3>3, <3>4 DEF KidPending, other
    <3>6. QED
      BY <1>8, <1>9, <1>13, <3>5 DEF Resting, Watching, Acts
  <2>7. CASE d # Root /\ ~(Depth[d] < 2)
    <3>1. events' = <<>>
      BY <1>5, <1>14, <1>15, <1>16, <1>19, <2>1, <2>7
    <3>2. Right'
      BY <1>7, <1>13, <2>3, <2>4, <2>7
    <3>3. FreshBut(None)'
      BY <1>6, <1>10, <2>1, <2>7 DEF FreshBut
    <3>4. OldEvents'
      BY <3>1 DEF OldEvents
    <3>5. QED
      BY <1>8, <1>9, <2>2, <3>2, <3>3, <3>4 DEF Resting, Watching
  <2>8. QED
    BY <1>13, <2>5, <2>6, <2>7
<1>20. QED
  BY <1>18, <1>19

LEMMA ChangeStep ==
    ASSUME Types, OneAtATime, Quiet, NEW d \in Dirs, NEW p \in Held,
           NEW act \in {"add", "change", "delete"}, Change(d, p, act)
    PROVE  OneAtATime'
<1>1. /\ \A e \in Dirs : p # None => disk[e] # p
      /\ disk' = [disk EXCEPT ![d] = p]
      /\ UNCHANGED <<pluginPath, insts, schemes, tasks, mgr, running>>
  BY DEF Change
<1>2. Each(mgr) /\ ListedOnce(mgr) /\ RunningNamed /\ OthersDead
  BY DEF OneAtATime, MgrGood
<1>3. Resting /\ NoneBusy
  BY QuietIs
\* What is listed for a directory is on disk there.
<1>4. \A e \in Dirs, q \in Plugins : mgr.registered[e] = <<q>> => disk[e] = q
  <2> SUFFICES ASSUME NEW e \in Dirs, NEW q \in Plugins, mgr.registered[e] = <<q>> PROVE disk[e] = q
    OBVIOUS
  <2>1. <<q>> # <<>>
    BY OneListed
  <2>2. ~Out(mgr, e)
    BY <2>1 DEF Out, Has, List
  <2>3. pluginPath # 0
    BY <1>3, <2>2 DEF Resting
  <2>4. e \in Sc.kids /\ In(mgr, e, Sc.held[e]) /\ Sc.held[e] = disk[e]
    BY <2>2, <2>3, QuietIs, WatchedHas
  <2>5. List(disk[e]) = <<q>>
    BY <2>4 DEF In, Has
  <2>6. disk[e] # None /\ <<disk[e]>> = <<q>>
    BY <2>1, <2>5 DEF List
  <2>7. QED
    BY <2>6
<1>5. ListedOnce(mgr)'
  <2> SUFFICES ASSUME NEW f \in Dirs, NEW e \in Dirs, NEW q \in Plugins, mgr.registered[f] = <<q>>, f # e
               PROVE  disk'[e] # q /\ mgr.registered[e] # <<q>>
    BY <1>1 DEF ListedOnce
  <2>1. disk[e] # q /\ mgr.registered[e] # <<q>>
    BY <1>2 DEF ListedOnce
  <2>2. p # q
    BY <1>1, <1>4, NameOf
  <2>3. disk'[e] = p \/ disk'[e] = disk[e]
    BY <1>1 DEF Types
  <2>4. QED
    BY <2>1, <2>2, <2>3
<1>6. MgrGood' /\ OthersDead'
  BY <1>1, <1>2, <1>5, ScSame DEF MgrGood, RunningNamed
<1>7. Resting'
  <2>1. CASE pluginPath = 0
    BY <1>1, <1>3, <2>1 DEF Resting, NoneBusy
  <2>2. CASE pluginPath # 0
    BY <2>2, ChangePending
  <2>3. QED
    BY <2>1, <2>2
<1>8. QED
  BY <1>6, <1>7 DEF OneAtATime, Phase

-------------------------------------------------------------------------------
(* The inductive invariant *)

Strong == OnDiskOnce /\ (~refused => OwnUp) /\ (races = 0 /\ ~refused => OneAtATime)

LEMMA InitStrong == Init => Strong
<1> SUFFICES ASSUME Init PROVE Strong
  OBVIOUS
<1>1. /\ pluginPath = 0 /\ schemes = <<>> /\ running = {} /\ OnDiskOnce
      /\ tasks = [t \in TaskIds |-> Idle]
      /\ mgr = [registry |-> [d \in Dirs |-> None], registered |-> [d \in Dirs |-> <<>>],
                versions |-> [n \in Names |-> {}], routes |-> [n \in Names |-> 0]]
  BY DEF Init, OnDiskOnce
<1>2. /\ \A d \in Dirs : mgr.registry[d] = None /\ mgr.registered[d] = <<>>
      /\ \A n \in Names : mgr.versions[n] = {}
  BY <1>1
<1>3. \A d \in Dirs : Out(mgr, d)
  BY <1>2 DEF Out, Has, List, NamedAs
<1>4. Each(mgr)
  <2>1. None \in Held
    BY DEF Held
  <2>2. QED
    BY <1>3, <2>1 DEF Each, Out
<1>5. ListedOnce(mgr) /\ RunningNamed
  <2>1. \A q \in Plugins : <<q>> # <<>>
    BY OneListed
  <2>2. QED
    BY <1>1, <1>2, <2>1 DEF ListedOnce, RunningNamed
<1>6. OthersDead
  <2>1. Len(schemes) = 0
    BY <1>1
  <2>2. QED
    BY <2>1 DEF OthersDead
<1>7. Resting
  <2>1. NoneBusy
    BY <1>1 DEF NoneBusy, Idle, Strands
  <2>2. QED
    BY <1>1, <1>3, <2>1 DEF Resting
<1>8. OwnUp
  <2>1. Len(schemes) = 0
    BY <1>1
  <2>2. QED
    BY <2>1 DEF OwnUp
<1>9. QED
  BY <1>1, <1>4, <1>5, <1>6, <1>7, <1>8 DEF Strong, OneAtATime, MgrGood, Phase

LEMMA PhaseSame ==
    ASSUME Phase, UNCHANGED vars, Cur' = Cur, Sc' = Sc, DetectScheme' = DetectScheme
    PROVE  Phase'
<1>1. /\ NoneBusy' = NoneBusy /\ Live' = Live /\ OldEvents' = OldEvents /\ Right' = Right
      /\ \A t : Busy(t)' = Busy(t)
      /\ \A d : FreshBut(d)' = FreshBut(d) /\ AllBut(d)' = AllBut(d) /\ ShownBut(d)' = ShownBut(d)
      /\ \A d, act : Edited(d, act)' = Edited(d, act)
      /\ \A at, d, act : Event(at, d, act)' = Event(at, d, act)
      /\ \A d : Fresh(d)' = Fresh(d)
  BY DEF NoneBusy, Live, OldEvents, Right, Busy, FreshBut, Fresh, AllBut, ShownBut, Shown, Edited,
         Event, vars
<1>2. \A d, act : TopPending(d, act)' = TopPending(d, act) /\ KidPending(d, act)' = KidPending(d, act)
  BY <1>1 DEF TopPending, KidPending, vars
<1>3. Resting' = Resting
  <2>1. Watching' = Watching
    BY <1>1, <1>2 DEF Watching
  <2>2. QED
    BY <1>1, <2>1 DEF Resting, vars
<1>4. \A w, d : Work(w, d)' = Work(w, d)
  <2>1. \A d : Redo(d)' = Redo(d) /\ Readd(d)' = Readd(d)
    BY DEF Redo, Readd, vars
  <2>2. \A w, d : NewKid(w, d)' = NewKid(w, d) /\ KidFound(w, d)' = KidFound(w, d)
    BY <1>1, <2>1 DEF NewKid, KidFound, vars
  <2>3. \A w, d : KidLost(w, d)' = KidLost(w, d)
    BY <1>1, <2>1 DEF KidLost, vars
  <2>4. \A w, d : KidReplaced(w, d)' = KidReplaced(w, d) /\ Redetects(w, d)' = Redetects(w, d)
    BY <1>1, <2>1 DEF KidReplaced, Redetects, vars
  <2>5. QED
    BY <2>2, <2>3, <2>4 DEF Work
<1>5. ASSUME NEW t, NEW d, Handling(t, d) PROVE Handling(t, d)'
  <2>1. Around(t, d)'
    BY <1>1, <1>5 DEF Handling, Around, vars
  <2>2. PICK w : w = tasks[t][d] /\ tasks'[t][d] = w
    BY DEF vars
  <2>3. Work(w, d)'
    BY <1>4, <1>5, <2>2 DEF Handling
  <2>4. QED
    BY <2>1, <2>2, <2>3 DEF Handling
<1>6. \A w : Then(w)' = Then(w) /\ Unwatched(w)' = Unwatched(w)
  BY DEF Then, Unwatched, vars
<1>7. ASSUME NEW t, Destroying(t) PROVE Destroying(t)'
  BY <1>1, <1>6, <1>7 DEF Destroying, Dead, vars
<1>8. ASSUME NEW t, Destroyed(t) PROVE Destroyed(t)'
  BY <1>1, <1>8 DEF Destroyed, Then, vars
<1>9. ASSUME NEW t, Creating(t) PROVE Creating(t)'
  BY <1>1, <1>6, <1>9 DEF Creating, Unwatched, vars
<1>10. QED
  BY <1>3, <1>5, <1>7, <1>8, <1>9 DEF Phase

\* A scheme asks for its own redetection, as long as none was left over by a failed 'added'.
LEMMA DestroyUp ==
    ASSUME Types, NEW i, NEW t, NEW then, NEW known \in Seq(SchemeType(Len(insts))),
           Len(known) = Len(schemes), \A x \in 1..Len(schemes) : known[x].up = x,
           Destroy(i, t, then, known)
    PROVE  OwnUp'
<1> DEFINE s == insts[i].scheme
           Cancelled(x) == [known[x] EXCEPT !.timer = @ /\ x # insts[i].redetect]
           After(x) == IF x = s THEN [Cancelled(x) EXCEPT !.top = FALSE, !.open = @ \ known[x].kids]
                       ELSE Cancelled(x)
<1>1. ASSUME NEW x \in 1..Len(schemes) PROVE After(x).up = x
  <2>1. known[x] \in SchemeType(Len(insts)) /\ known[x].up = x
    BY ElementOfSeq
  <2>2. "up" \in DOMAIN known[x]
    BY <2>1 DEF SchemeType
  <2>3. "up" \in DOMAIN Cancelled(x) /\ Cancelled(x).up = x
    BY <2>1, <2>2
  <2> HIDE DEF Cancelled
  <2>4. QED
    BY <2>3
<1>2. schemes' = [x \in 1..Len(schemes) |-> After(x)]
  BY DEF Destroy
<1> HIDE DEF After
<1>3. Len(schemes') = Len(schemes)
  BY <1>2, Lengths
<1>4. QED
  BY <1>1, <1>2, <1>3 DEF OwnUp

LEMMA UpSet ==
    ASSUME Types, OwnUp, NEW s \in 1..Len(schemes), NEW sc, sc.up = schemes[s].up,
           schemes' = [schemes EXCEPT ![s] = sc]
    PROVE  OwnUp'
<1>1. schemes \in Seq(SchemeType(Len(insts))) /\ DOMAIN schemes = 1..Len(schemes) /\ Len(schemes) \in Nat
  BY Lengths DEF Types
<1>2. DOMAIN schemes' = 1..Len(schemes) /\ \A x \in 1..Len(schemes) : schemes'[x] = IF x = s THEN sc ELSE schemes[x]
  BY <1>1
<1>3. Len(schemes') = Len(schemes)
  BY <1>1, <1>2
<1>4. QED
  BY <1>2, <1>3 DEF OwnUp

LEMMA UpAppended ==
    ASSUME Types, OwnUp, NEW sc, sc.up = Len(schemes) + 1, schemes' = Append(schemes, sc)
    PROVE  OwnUp'
<1>1. schemes \in Seq(SchemeType(Len(insts))) /\ Len(schemes) \in Nat
  BY Lengths DEF Types
<1>2. /\ Len(schemes') = Len(schemes) + 1 /\ schemes'[Len(schemes) + 1] = sc
      /\ \A x \in 1..Len(schemes) : schemes'[x] = schemes[x]
  <2> DEFINE X == SchemeType(Len(insts)) \cup {sc}
  <2>1. schemes \in Seq(X) /\ sc \in X
    BY <1>1, SeqMonotonic
  <2> HIDE DEF X
  <2>2. QED
    BY <2>1, AppendProperties
<1>3. QED
  BY <1>1, <1>2 DEF OwnUp

LEMMA NextOwnUp ==
    ASSUME Types, OwnUp, [Next]_vars, ~refused'
    PROVE  OwnUp'
<1> DEFINE n == Len(insts)
           m == Len(schemes)
<1>1. \A s \in 1..m : schemes[s] \in SchemeType(n)
  BY SchemeHas
<1>2. CASE UNCHANGED schemes
  BY <1>2 DEF OwnUp
<1>3. CASE UnregisterPluginPath
  BY <1>3, DestroyUp DEF UnregisterPluginPath, OwnUp, Types
<1>4. CASE Deliver
  <2> DEFINE e == Head(events)
             sc == schemes[e.s]
             due == [sc EXCEPT !.timer = TRUE]
  <2>1. e \in EventType(m)
    BY <1>4, HeadTailProperties DEF Deliver, Types
  <2>2. e.s \in 1..m
    BY <2>1 DEF EventType
  <2>3. sc \in SchemeType(n)
    BY <1>1, <2>2
  <2>4. "up" \in DOMAIN sc /\ "up" \in DOMAIN due /\ due.up = sc.up
    BY <2>3 DEF SchemeType
  <2>5. UNCHANGED schemes \/ \E x : schemes' = [schemes EXCEPT ![e.s] = x] /\ x.up = sc.up
    <3>1. CASE TopEvent(e)
      <4>1. \/ schemes' = [schemes EXCEPT ![e.s] = due]
            \/ schemes' = [schemes EXCEPT ![e.s] = [due EXCEPT !.open = @ \cup {e.d}, !.held[e.d] = disk[e.d]]]
            \/ schemes' = [schemes EXCEPT ![e.s] = [due EXCEPT !.open = @ \ {e.d}]]
        BY <3>1 DEF TopEvent
      <4> HIDE DEF due, sc, e
      <4>2. /\ [due EXCEPT !.open = @ \cup {e.d}, !.held[e.d] = disk[e.d]].up = sc.up
            /\ [due EXCEPT !.open = @ \ {e.d}].up = sc.up
        BY <2>4
      <4>3. QED
        BY <2>4, <4>1, <4>2
    <3>2. CASE KidEvent(e)
      <4>1. UNCHANGED schemes \/ schemes' = [schemes EXCEPT ![e.s] = [sc EXCEPT !.held[e.d] = disk[e.d]]]
        BY <3>2 DEF KidEvent
      <4> HIDE DEF sc, e
      <4>2. [sc EXCEPT !.held[e.d] = disk[e.d]].up = sc.up
        BY <2>4
      <4>3. QED
        BY <4>1, <4>2
    <3>3. QED
      BY <1>4, <3>1, <3>2 DEF Deliver, NestedEvent
  <2>6. QED
    BY <1>2, <2>2, <2>5, UpSet
<1>5. CASE Step
  <2>1. PICK t \in TaskIds, x \in Strands :
          \/ AnyStep(t, x)
          \/ StepRefused(t, x) /\ refused' = (refused \/ IsRefused(t, x))
    BY <1>5 DEF Step, AnyStep, Strands
  <2>2. AnyStep(t, x)
    BY <2>1 DEF StepRefused
  <2> DEFINE h == Now(t, x)
             sc == schemes[h.s]
  <2>3. CASE StepHold(t, x) \/ StepKeepOrDrop(t, x) \/ StepWatch(t, x) \/ StepRedetect(t, x)
    <3>1. h.s \in 1..m
      BY <2>3, NowFields DEF StepHold, StepKeepOrDrop, StepWatch, StepRedetect
    <3>2. sc \in SchemeType(n) /\ sc.up = h.s
      BY <1>1, <3>1 DEF OwnUp
    <3>3. "up" \in DOMAIN sc
      BY <3>2 DEF SchemeType
    <3>4. \/ schemes' = [schemes EXCEPT ![h.s] = [sc EXCEPT !.held[h.d] = h.p]]
          \/ schemes' = [schemes EXCEPT ![h.s] = [sc EXCEPT !.kids = @ \cup {h.d}]]
          \/ schemes' = [schemes EXCEPT ![h.s] = [sc EXCEPT !.kids = @ \ {h.d}]]
          \/ schemes' = [schemes EXCEPT ![h.s] = [sc EXCEPT !.open = @ \cup {h.d}]]
          \/ schemes' = [schemes EXCEPT ![h.s] = [sc EXCEPT !.timer = TRUE]]
      <4>1. CASE StepHold(t, x)
        BY <4>1 DEF StepHold
      <4>2. CASE StepKeepOrDrop(t, x)
        BY <4>2 DEF StepKeepOrDrop
      <4>3. CASE StepWatch(t, x)
        BY <4>3 DEF StepWatch
      <4>4. CASE StepRedetect(t, x)
        BY <3>2, <4>4 DEF StepRedetect
      <4>5. QED
        BY <2>3, <4>1, <4>2, <4>3, <4>4
    <3> HIDE DEF h, sc
    <3>5. /\ [sc EXCEPT !.held[h.d] = h.p].up = sc.up
          /\ [sc EXCEPT !.kids = @ \cup {h.d}].up = sc.up
          /\ [sc EXCEPT !.kids = @ \ {h.d}].up = sc.up
          /\ [sc EXCEPT !.open = @ \cup {h.d}].up = sc.up
          /\ [sc EXCEPT !.timer = TRUE].up = sc.up
      BY <3>3
    <3>6. QED
      BY <3>1, <3>4, <3>5, UpSet DEF sc
  <2>4. CASE StepCreate(t, x)
    <3>1. \E y : schemes' = Append(schemes, y) /\ y.up = m + 1
      BY <2>4 DEF StepCreate
    <3>2. QED
      BY <3>1, UpAppended
  <2>5. QED
    BY <1>2, <2>2, <2>3, <2>4 DEF AnyStep, StepStop, StepRemoved, StepUnloaded, StepAdded, StepLoaded,
       StepDestroyed, StepForget
<1>6. ASSUME NEW s \in 1..m, Redetect(s) PROVE OwnUp'
  <2> DEFINE fired == [schemes EXCEPT ![s].timer = FALSE]
             i == schemes[s].owner
  <2>1. fired = [schemes EXCEPT ![s] = [schemes[s] EXCEPT !.timer = FALSE]]
    OBVIOUS
  <2>2. [schemes[s] EXCEPT !.timer = FALSE] \in SchemeType(n) /\ [schemes[s] EXCEPT !.timer = FALSE].up = s
    BY <1>1 DEF SchemeType, OwnUp
  <2>3. fired \in Seq(SchemeType(n)) /\ Len(fired) = m
    BY <2>1, <2>2, ExceptSeq DEF Types
  <2>4. \A x \in 1..m : fired[x].up = x
    <3>1. DOMAIN schemes = 1..m
      BY DEF Types
    <3>2. \A x \in 1..m : fired[x] = IF x = s THEN [schemes[s] EXCEPT !.timer = FALSE] ELSE schemes[x]
      BY <2>1, <3>1
    <3> HIDE DEF fired
    <3>3. QED
      BY <2>2, <3>2 DEF OwnUp
  <2>5. schemes' = fired \/ Destroy(i, FreeTask, <<[do |-> "create", i |-> i, kind |-> DetectScheme]>>, fired)
    BY <1>6 DEF Redetect
  <2> HIDE DEF fired, i
  <2>6. CASE schemes' = fired
    BY <2>3, <2>4, <2>6 DEF OwnUp
  <2>7. QED
    BY <2>3, <2>4, <2>5, <2>6, DestroyUp
<1>7. QED
  BY <1>2, <1>3, <1>4, <1>5, <1>6 DEF Next, vars, RegisterPluginPath, AutoStart, Dispatch, StopPlugins, Change

LEMMA NextStrong ==
    ASSUME Types, Types', OneOfAVersion, ~Slow, Strong, [Next]_vars
    PROVE  Strong'
<1>1. OnDiskOnce'
  <2>1. CASE UNCHANGED disk
    BY <2>1 DEF Strong, OnDiskOnce
  <2>2. ASSUME NEW d \in Dirs, NEW p \in Held, NEW act, Change(d, p, act) PROVE OnDiskOnce'
    <3>1. (\A e \in Dirs : p # None => disk[e] # p) /\ disk' = [disk EXCEPT ![d] = p]
      BY <2>2 DEF Change
    <3>2. \A e \in Dirs : disk'[e] = IF e = d THEN p ELSE disk[e]
      BY <3>1 DEF Types
    <3>3. QED
      BY <3>1, <3>2 DEF Strong, OnDiskOnce
  <2>3. QED
    BY <2>1, <2>2 DEF Next, vars, RegisterPluginPath, UnregisterPluginPath, AutoStart, Dispatch,
                      StopPlugins, Deliver, Step, Redetect, Held
<1>a. ~refused' => ~refused /\ OwnUp'
  <2>1. refused => refused'
    BY DEF Next, vars, RegisterPluginPath, UnregisterPluginPath, AutoStart, Dispatch,
           StopPlugins, Change, Deliver, Step, Redetect
  <2>2. QED
    BY <2>1, NextOwnUp DEF Strong
<1>2. ASSUME races' = 0, ~refused' PROVE OneAtATime'
  <2>0. ~refused
    BY <1>2, <1>a
  <2>1. ASSUME Race PROVE Quiet /\ races = 0
    BY <1>2, <2>1 DEF Race, Types
  <2>2. CASE UNCHANGED vars
    <3>1. OneAtATime /\ Cur' = Cur /\ Sc' = Sc /\ OthersDead' /\ DetectScheme' = DetectScheme
      BY <2>0, <1>2, <2>2, ScSame, DetectSame DEF Strong, OneAtATime, vars
    <3>2. MgrGood'
      BY <2>2, <3>1 DEF OneAtATime, MgrGood, RunningNamed, ListedOnce, vars
    <3>3. Phase'
      BY <2>2, <3>1, PhaseSame DEF OneAtATime, vars
    <3>4. QED
      BY <3>1, <3>2, <3>3 DEF OneAtATime
  <2>3. CASE RegisterPluginPath
    BY <2>0, <2>1, <2>3, RegisterStep DEF RegisterPluginPath, Strong
  <2>4. CASE UnregisterPluginPath
    BY <2>0, <2>1, <2>4, UnregisterStep DEF UnregisterPluginPath, Strong
  <2>5. CASE AutoStart \/ \E n \in Names : Dispatch(n) \/ StopPlugins(n)
    <3>1. Race
      BY <2>5 DEF AutoStart, Dispatch, StopPlugins
    <3>2. QED
      BY <2>0, <2>1, <2>5, <3>1, RunStep DEF Strong
  <2>6. ASSUME NEW d \in Dirs, NEW p \in Held, NEW act \in {"add", "change", "delete"}, Change(d, p, act)
        PROVE  OneAtATime'
    <3>1. Race
      BY <2>6 DEF Change
    <3>2. QED
      BY <2>0, <2>1, <2>6, <3>1, ChangeStep DEF Strong
  <2>7. CASE Deliver
    <3>1. races' = races
      BY <2>7 DEF Deliver
    <3>2. QED
      BY <2>0, <1>2, <2>7, <3>1, DeliverStep DEF Strong
  <2>8. CASE Step
    <3>1. races' = races /\ UNCHANGED <<disk, events>>
      BY <2>8 DEF Step
    <3>a. PICK t \in TaskIds, x \in Strands :
            \/ AnyStep(t, x)
            \/ StepRefused(t, x) /\ refused' = (refused \/ IsRefused(t, x))
      BY <2>8 DEF Step, AnyStep, Strands
    <3>b. AnyStep(t, x)
      BY <1>2, <3>a DEF StepRefused
    <3>2. Good /\ Phase
      BY <1>2, <2>0, <3>1 DEF Strong, OneAtATime, Good
    <3>3. QED
      BY <3>1, <3>2, <3>b, PhaseStep
  <2>9. ASSUME NEW s \in 1..Len(schemes), Redetect(s) PROVE OneAtATime'
    <3>1. races' = races
      BY <2>9 DEF Redetect
    <3>2. QED
      BY <2>0, <1>2, <2>9, <3>1, RedetectStep DEF Strong
  <2>10. QED
    BY <2>2, <2>3, <2>4, <2>5, <2>6, <2>7, <2>8, <2>9 DEF Next, Held
<1>3. QED
  BY <1>1, <1>a, <1>2 DEF Strong

\* What the invariant says of a registry that is at rest.
LEMMA StrongMirrors ==
    ASSUME Types, Kept(mgr), Strong
    PROVE  RegistryMirrorsDisk
<1>1. TypeOK
  BY TypesSaid
<1>2. SUFFICES ASSUME Quiet, races = 0, ~refused
      PROVE  /\ mgr.registry = [d \in Dirs |-> Expected(d)]
             /\ \A d \in Dirs : mgr.registered[d] = IF Expected(d) = None THEN <<>> ELSE <<Expected(d)>>
             /\ UNION {mgr.versions[n] : n \in Names} =
                  {[dir |-> d, plugin |-> disk[d]] :
                     d \in {e \in Dirs : Expected(e) # None /\ Expected(e).supported}}
             /\ running \subseteq UNION {mgr.versions[n] : n \in Names}
  BY <1>1 DEF RegistryMirrorsDisk
<1>3. OneAtATime /\ Each(mgr) /\ RunningNamed
  BY <1>2 DEF Strong, OneAtATime, MgrGood
<1>4. Resting
  BY <1>2, <1>3, QuietIs
<1>5. ASSUME NEW d \in Dirs
      PROVE  In(mgr, d, Expected(d)) /\ (Expected(d) # None => Expected(d) = disk[d] /\ disk[d] \in Plugins)
  <2>1. CASE pluginPath = 0
    BY <1>4, <2>1 DEF Resting, Expected, In, Out, Sup
  <2>2. CASE pluginPath # 0
    <3>1. Watching /\ Live /\ Sc.kind = DetectScheme /\ AllBut(None)
          /\ \A e \in Sc.kids : Sc.held[e] = disk[e]
      BY <1>2, <1>3, <2>2, QuietIs
    <3>2. CASE d \in Sc.kids
      <4>1. Expected(d) = disk[d]
        BY <2>2, <3>1, <3>2 DEF Expected, Live
      <4>2. In(mgr, d, disk[d])
        BY <3>1, <3>2, WatchedHas
      <4>3. QED
        BY <4>1, <4>2 DEF Types, Held
    <3>3. CASE d \notin Sc.kids
      <4>1. Expected(d) = None
        BY <3>1, <3>3, PRAssumption DEF Expected, AllBut
      <4>2. Out(mgr, d)
        BY <3>1, <3>3, WatchedHas
      <4>3. QED
        BY <4>1, <4>2 DEF In, Out, Sup
    <3>4. QED
      BY <3>2, <3>3
  <2>3. QED
    BY <2>1, <2>2
<1>6. mgr.registry = [d \in Dirs |-> Expected(d)]
  <2>1. mgr.registry \in [Dirs -> Held]
    BY DEF Types, MgrType
  <2>2. \A d \in Dirs : mgr.registry[d] = Expected(d)
    BY <1>5 DEF In, Has
  <2>3. QED
    BY <2>1, <2>2
<1>7. \A d \in Dirs : mgr.registered[d] = IF Expected(d) = None THEN <<>> ELSE <<Expected(d)>>
  BY <1>5 DEF In, Has, List
<1>8. ASSUME NEW n \in Names, NEW v \in mgr.versions[n]
      PROVE  v \in {[dir |-> d, plugin |-> disk[d]] :
                       d \in {e \in Dirs : Expected(e) # None /\ Expected(e).supported}}
  <2>1. v \in Instances
    BY <1>3, NamedRight
  <2>2. v.dir \in Dirs /\ v = [dir |-> v.dir, plugin |-> v.plugin]
    BY <2>1 DEF Instances
  <2>3. /\ Expected(v.dir) # None /\ Expected(v.dir).supported
        /\ v.plugin = Expected(v.dir) /\ Expected(v.dir) = disk[v.dir]
    BY <1>5, <2>1, <2>2 DEF In, Has, NamedAs, Sup
  <2>4. QED
    BY <2>2, <2>3
<1>9. ASSUME NEW d \in Dirs, Expected(d) # None, Expected(d).supported
      PROVE  [dir |-> d, plugin |-> disk[d]] \in UNION {mgr.versions[n] : n \in Names}
  <2>1. Expected(d) = disk[d] /\ disk[d] \in Plugins /\ In(mgr, d, disk[d])
    BY <1>5, <1>9
  <2>2. PICK v \in Instances : v = [dir |-> d, plugin |-> disk[d]]
    BY <2>1, NameOf
  <2>3. v \in mgr.versions[disk[d].name] /\ disk[d].name \in Names
    BY <1>9, <2>1, <2>2, NameOf DEF In, Has, NamedAs, Sup
  <2>4. QED
    BY <2>2, <2>3
<1>10. running \subseteq UNION {mgr.versions[n] : n \in Names}
  <2> SUFFICES ASSUME NEW r \in running PROVE r \in UNION {mgr.versions[n] : n \in Names}
    OBVIOUS
  <2>1. r \in mgr.versions[r.plugin.name] /\ r \in Instances
    BY <1>3 DEF RunningNamed, Types
  <2>2. r.plugin.name \in Names
    BY <2>1 DEF Instances, Names
  <2>3. QED
    BY <2>1, <2>2
<1>11. QED
  BY <1>6, <1>7, <1>8, <1>9, <1>10

\* As long as the config service has refused no plugin's file, and when the stop of a
\* plugin is done within the 200 ms of a redetection, the registry comes to hold exactly
\* the plugins on disk: for every set of directories and of plugins, with no two of a
\* name and a version, every order of changes and calls and every number of them
\* (plugin-path.js:61-115, schemes.js:130-610, plugin-manager.js:266-415).  After a
\* refusal the plugin is registered in no namespace and what was to be watched after it
\* is not (plugin-manager.js:277); when a stop may take longer, or two plugins have a
\* name and a version in common, the property does not hold either.
THEOREM RegistryCorrect ==
    ASSUME ~Slow, OneOfAVersion
    PROVE  Spec => []RegistryMirrorsDisk
<1>1. Init => Types /\ Kept(mgr) /\ Strong
  BY InitTypes, InitKeeps, InitStrong
<1>2. Types /\ Kept(mgr) /\ Strong /\ [Next]_vars => (Types /\ Kept(mgr) /\ Strong)'
  BY NextTypes, NextKeeps, NextStrong
<1>3. Types /\ Kept(mgr) /\ Strong => RegistryMirrorsDisk
  BY StrongMirrors
<1>4. QED
  BY <1>1, <1>2, <1>3, PTL DEF Spec

\* Every variable has its type, however long the stop of a plugin takes and whatever the
\* config service refuses.
THEOREM RegistryTyped == Spec => []TypeOK
<1>1. Types /\ Kept(mgr) => TypeOK
  BY TypesSaid
<1>2. QED
  BY InitTypes, NextTypes, InitKeeps, NextKeeps, <1>1, PTL DEF Spec
===============================================================================
