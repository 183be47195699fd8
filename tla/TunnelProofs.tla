------------------------------- MODULE TunnelProofs -------------------------------
(***************************************************************************)
(* Theorems of the tunnel: what both its ends remember of a request agrees *)
(* with what is on its way between them.                                   *)
(***************************************************************************)
EXTENDS Tunnel, FiniteSetTheorems, SequenceTheorems, TLAPS

-------------------------------------------------------------------------------
(* The invariant *)

\* The streams that may still emit, and the requests that the host has not answered.
Emits == {"live", "unsubscribed", "ending"}
Emitting(r) == source[r] \in Emits
Waiting(id) == id \in running \/ \E i \in 1..Len(toHost) : toHost[i] = id
Replied(id) == \E i \in 1..Len(toParent) : toParent[i].id = id

\* What the parent knows of a request before its first message has come in.  The
\* unsubscribe request of dispatch() is sent once, when the response closes.
ParentInv ==
    \A r \in Requests :
      /\ call[r] = "none" => IdOf(r) \notin requests /\ source[r] = "none"
      /\ call[r] \in {"none", "sent"} => response[r] = "none"
      /\ AutoId(r) \in requests => response[r] = "closed"
      /\ Emitting(r) => IdOf(r) \in requests

\* A request that waits in the host does so at one place, pending in the parent, and
\* nothing has been sent back for it.
WaitingInv ==
    /\ \A i, j \in 1..Len(toHost) : toHost[i] = toHost[j] => i = j
    /\ \A i \in 1..Len(toHost) : toHost[i] \notin running
    /\ \A id \in Ids :
         Waiting(id) => /\ id \in requests /\ ~Replied(id)
                        /\ ~id.auto => source[id.req] = "none" /\ call[id.req] = "sent"

\* Streams have the ids of their requests.  Nothing follows the last message, and
\* nothing comes before 'subscribe', for which the call waits.
MessageInv ==
    \A i \in 1..Len(toParent) :
      LET m == toParent[i]
      IN  /\ m.id \in requests
          /\ m.id.auto => m.type \in {"value", "error"}
          /\ m.type \in Final =>
               /\ ~m.id.auto => ~Emitting(m.id.req)
               /\ \A j \in (i + 1)..Len(toParent) : toParent[j].id # m.id
          /\ m.type = "subscribe" =>
               /\ call[m.id.req] = "sent"
               /\ \A j \in 1..(i - 1) : toParent[j].id # m.id

\* A subscription that looks open can be unsubscribed.
ExitInv ==
    /\ ~tunnel => ~up /\ toParent = <<>>
    /\ \A r \in Requests :
         (\E i \in 1..Len(got[r]) : got[r][i] = "subscribe") /\ response[r] \in {"none", "open"}
           => r \in streams

TunnelInv == TypeOK /\ RelaysExactly /\ ParentInv /\ WaitingInv /\ MessageInv /\ ExitInv

-------------------------------------------------------------------------------
(* Channels *)

Message == [id : Ids, type : Messages \cup {"value", "error"}]

\* The counts of the messages of a stream are bounded by their number.
LEMMA AmongBounds ==
    ASSUME NEW c \in Seq(Message), NEW r
    PROVE  /\ \A n \in 0..Len(c) :
                Among(c, r, n) \in Nat /\ Among(c, r, n) <= Among(c, r, Len(c))
           /\ \A n \in 1..Len(c) : Mine(r, c[n]) => Among(c, r, n) > 0
<1> DEFINE mine(n) == {i \in 1..n : Mine(r, c[i])}
<1>1. \A n \in 0..Len(c) : IsFiniteSet(mine(n))
  <2> SUFFICES ASSUME NEW n \in 0..Len(c) PROVE IsFiniteSet(mine(n))
    OBVIOUS
  <2>1. IsFiniteSet(1..n) /\ mine(n) \subseteq 1..n
    BY FS_Interval
  <2>2. QED
    BY <2>1, FS_Subset
<1>2. \A n \in 0..Len(c) : Cardinality(mine(n)) \in Nat
  BY <1>1, FS_CardinalityType
<1>3. \A n \in 0..Len(c) : Cardinality(mine(n)) <= Cardinality(mine(Len(c)))
  <2> SUFFICES ASSUME NEW n \in 0..Len(c)
               PROVE  Cardinality(mine(n)) <= Cardinality(mine(Len(c)))
    OBVIOUS
  <2>1. mine(n) \subseteq mine(Len(c)) /\ Len(c) \in 0..Len(c)
    OBVIOUS
  <2>2. QED
    BY <1>1, <2>1, FS_Subset
<1>4. ASSUME NEW n \in 1..Len(c), Mine(r, c[n]) PROVE Cardinality(mine(n)) > 0
  <2>1. n \in mine(n) /\ n \in 0..Len(c)
    BY <1>4
  <2>2. Cardinality(mine(n)) # 0
    BY <1>1, <2>1, FS_EmptySet
  <2>3. QED
    BY <1>2, <2>1, <2>2
<1>5. QED
  BY <1>2, <1>3, <1>4 DEF Among

\* What a message that is sent adds to the counts.
LEMMA AmongAppend ==
    ASSUME NEW c \in Seq(Message), NEW m \in Message, NEW r
    PROVE  /\ \A n \in 0..Len(c) : Among(Append(c, m), r, n) = Among(c, r, n)
           /\ Among(Append(c, m), r, Len(c) + 1)
                = Among(c, r, Len(c)) + (IF Mine(r, m) THEN 1 ELSE 0)
<1> DEFINE d == Append(c, m)
           k == Len(c)
           old == {i \in 1..k : Mine(r, c[i])}
<1>1. k \in Nat /\ d[k + 1] = m /\ \A i \in 1..k : d[i] = c[i]
  OBVIOUS
<1> HIDE DEF d, k
<1>2. \A n \in 0..k : {i \in 1..n : Mine(r, d[i])} = {i \in 1..n : Mine(r, c[i])}
  BY <1>1
<1>3. IsFiniteSet(old) /\ k + 1 \notin old
  <2>1. IsFiniteSet(1..k) /\ old \subseteq 1..k
    BY <1>1, FS_Interval
  <2>2. QED
    BY <1>1, <2>1, FS_Subset
<1>4. {i \in 1..(k + 1) : Mine(r, d[i])} = IF Mine(r, m) THEN old \cup {k + 1} ELSE old
  <2>1. 1..(k + 1) = (1..k) \cup {k + 1}
    BY <1>1
  <2>2. QED
    BY <1>1, <2>1
<1>5. Cardinality(old \cup {k + 1}) = Cardinality(old) + 1
  BY <1>3, FS_AddElement
<1>6. Cardinality(old) \in Nat
  BY <1>3, FS_CardinalityType
<1> HIDE DEF old
<1>7. Among(d, r, k + 1) = Cardinality(old) + (IF Mine(r, m) THEN 1 ELSE 0)
  <2>1. Among(d, r, k + 1) = Cardinality({i \in 1..(k + 1) : Mine(r, d[i])})
    BY DEF Among
  <2>2. CASE Mine(r, m)
    BY <1>4, <1>5, <2>1, <2>2
  <2>3. CASE ~Mine(r, m)
    <3>1. Among(d, r, k + 1) = Cardinality(old)
      BY <1>4, <2>1, <2>3
    <3>2. QED
      BY <1>6, <2>3, <3>1
  <2>4. QED
    BY <2>2, <2>3
<1>8. Among(c, r, k) = Cardinality(old)
  BY DEF Among, old
<1>9. \A n \in 0..k : Among(d, r, n) = Among(c, r, n)
  BY <1>2 DEF Among
<1>10. QED
  BY <1>7, <1>8, <1>9 DEF d, k

\* What a message that is received takes from them.
LEMMA AmongTail ==
    ASSUME NEW c \in Seq(Message), c # <<>>, NEW r, NEW n \in 0..(Len(c) - 1)
    PROVE  Among(c, r, n + 1) = Among(Tail(c), r, n) + (IF Mine(r, Head(c)) THEN 1 ELSE 0)
<1> DEFINE t == Tail(c)
           k == Len(c)
           new == {i \in 1..n : Mine(r, t[i])}
           old == {i \in 2..(n + 1) : Mine(r, c[i])}
<1>1. k \in Nat /\ n \in Nat /\ n < k /\ Head(c) = c[1] /\ \A i \in 1..(k - 1) : t[i] = c[i + 1]
  BY EmptySeq
<1>2. IsFiniteSet(new) /\ IsFiniteSet(old) /\ 1 \notin old
  <2>1. IsFiniteSet(1..n) /\ IsFiniteSet(2..(n + 1))
    BY <1>1, FS_Interval
  <2>2. new \subseteq 1..n /\ old \subseteq 2..(n + 1) /\ 1 \notin 2..(n + 1)
    BY <1>1
  <2>3. QED
    BY <2>1, <2>2, FS_Subset
<1> HIDE DEF t, k
<1>3. Cardinality(new) = Cardinality(old)
  <2> DEFINE f == [i \in new |-> i + 1]
  <2>1. \A i \in new : i + 1 \in old
    BY <1>1
  <2>2. \A i \in old : i - 1 \in new /\ (i - 1) + 1 = i
    BY <1>1
  <2>3. f \in Bijection(new, old)
    <3>1. f \in Injection(new, old)
      BY <2>1 DEF Injection, IsInjective
    <3>2. f \in Surjection(new, old)
      BY <2>1, <2>2 DEF Surjection
    <3>3. QED
      BY <3>1, <3>2 DEF Bijection
  <2>4. QED
    BY <1>2, <2>3, FS_Bijection DEF ExistsBijection
<1>4. {i \in 1..(n + 1) : Mine(r, c[i])} = IF Mine(r, c[1]) THEN old \cup {1} ELSE old
  <2>1. 1..(n + 1) = (2..(n + 1)) \cup {1}
    BY <1>1
  <2>2. QED
    BY <2>1
<1>5. Cardinality(old \cup {1}) = Cardinality(old) + 1 /\ Cardinality(old) \in Nat
  BY <1>2, FS_AddElement, FS_CardinalityType
<1> HIDE DEF old
<1>6. Among(c, r, n + 1) = Cardinality(old) + (IF Mine(r, c[1]) THEN 1 ELSE 0)
  <2>1. Among(c, r, n + 1) = Cardinality({i \in 1..(n + 1) : Mine(r, c[i])})
    BY DEF Among
  <2>2. CASE Mine(r, c[1])
    BY <1>4, <1>5, <2>1, <2>2
  <2>3. CASE ~Mine(r, c[1])
    <3>1. Among(c, r, n + 1) = Cardinality(old)
      BY <1>4, <2>1, <2>3
    <3>2. QED
      BY <1>5, <2>3, <3>1
  <2>4. QED
    BY <2>2, <2>3
<1>7. Among(t, r, n) = Cardinality(new)
  BY DEF Among
<1>8. QED
  BY <1>1, <1>3, <1>6, <1>7 DEF t

-------------------------------------------------------------------------------
(* Relaying *)

\* What the invariant says of one stream.
Relayed(r) ==
    /\ response[r] \in {"none", "open"} =>
         /\ Len(made[r]) = Len(got[r]) + Among(toParent, r, Len(toParent))
         /\ \A i \in 1..Len(toParent) :
              Mine(r, toParent[i]) =>
                made[r][Len(got[r]) + Among(toParent, r, i)] = toParent[i].type
    /\ Len(got[r]) <= Len(made[r]) /\ got[r] = SubSeq(made[r], 1, Len(got[r]))

LEMMA PrefixGrows ==
    ASSUME NEW S, NEW s \in Seq(S), NEW t \in Seq(S), NEW x \in S,
           Len(s) <= Len(t), s = SubSeq(t, 1, Len(s))
    PROVE  Len(s) <= Len(Append(t, x)) /\ s = SubSeq(Append(t, x), 1, Len(s))
  OBVIOUS

LEMMA PrefixCatchesUp ==
    ASSUME NEW S, NEW s \in Seq(S), NEW t \in Seq(S),
           Len(s) < Len(t), s = SubSeq(t, 1, Len(s))
    PROVE  LET u == Append(s, t[Len(s) + 1])
           IN  Len(u) <= Len(t) /\ u = SubSeq(t, 1, Len(u))
<1> DEFINE u == Append(s, t[Len(s) + 1])
<1>1. u \in Seq(S) /\ Len(u) = Len(s) + 1
  OBVIOUS
<1>2. \A i \in 1..Len(u) : u[i] = t[i]
  OBVIOUS
<1>3. SubSeq(t, 1, Len(u)) \in Seq(S) /\ Len(SubSeq(t, 1, Len(u))) = Len(u)
  BY <1>1
<1>4. \A i \in 1..Len(u) : SubSeq(t, 1, Len(u))[i] = t[i]
  BY <1>1
<1> HIDE DEF u
<1>5. u = SubSeq(t, 1, Len(u))
  BY <1>1, <1>2, <1>3, <1>4, SeqEqual
<1>6. QED
  BY <1>1, <1>5 DEF u

\* A message that is sent is what its stream emitted last.
LEMMA SendRelays ==
    ASSUME TypeOK, NEW r \in Requests, Relayed(r), NEW m \in Message,
           toParent' = Append(toParent, m), got' = got, response' = response,
           made'[r] = IF Mine(r, m) THEN Append(made[r], m.type) ELSE made[r]
    PROVE  Relayed(r)'
<1> DEFINE k == Len(toParent)
<1>1. /\ toParent \in Seq(Message) /\ k \in Nat /\ Len(toParent') = k + 1 /\ toParent'[k + 1] = m
      /\ \A i \in 1..k : toParent'[i] = toParent[i]
  BY DEF TypeOK, Message
<1>2. got[r] \in Seq(Messages) /\ made[r] \in Seq(Messages) /\ got'[r] = got[r]
  BY DEF TypeOK
<1>3. Mine(r, m) => m.type \in Messages
  BY DEF Mine
<1>4. Len(got'[r]) <= Len(made'[r]) /\ got'[r] = SubSeq(made'[r], 1, Len(got'[r]))
  <2>1. CASE Mine(r, m)
    BY <1>2, <1>3, <2>1, PrefixGrows DEF Relayed
  <2>2. CASE ~Mine(r, m)
    BY <1>2, <2>2 DEF Relayed
  <2>3. QED
    BY <2>1, <2>2
<1>5. ASSUME response[r] \in {"none", "open"}
      PROVE  /\ Len(made'[r]) = Len(got'[r]) + Among(toParent', r, Len(toParent'))
             /\ \A i \in 1..Len(toParent') :
                  Mine(r, toParent'[i]) =>
                    made'[r][Len(got'[r]) + Among(toParent', r, i)] = toParent'[i].type
  <2> DEFINE n == Among(toParent, r, k)
             g == Len(got[r])
  <2>1. n \in Nat /\ g \in Nat /\ Len(made[r]) = g + n
    BY <1>1, <1>2, <1>5, AmongBounds DEF Relayed
  <2>2. Among(toParent', r, k + 1) = n + (IF Mine(r, m) THEN 1 ELSE 0)
    BY <1>1, AmongAppend
  <2>3. ASSUME NEW i \in 1..k
        PROVE  /\ Among(toParent', r, i) = Among(toParent, r, i)
               /\ Among(toParent, r, i) \in Nat /\ Among(toParent, r, i) <= n
               /\ Mine(r, toParent[i]) => Among(toParent, r, i) > 0
    <3>1. i \in 0..k
      BY <1>1
    <3>2. QED
      BY <1>1, <3>1, AmongAppend, AmongBounds
  <2>4. ASSUME NEW i \in 1..k, Mine(r, toParent[i])
        PROVE  made[r][g + Among(toParent, r, i)] = toParent[i].type
    BY <1>5, <2>4 DEF Relayed
  <2> HIDE DEF n, g
  <2>5. CASE Mine(r, m)
    <3>1. /\ Len(made'[r]) = g + n + 1 /\ made'[r][g + n + 1] = m.type
          /\ \A i \in 1..(g + n) : made'[r][i] = made[r][i]
      BY <1>2, <1>3, <2>1, <2>5
    <3>2. Among(toParent', r, k + 1) = n + 1
      BY <2>1, <2>2, <2>5
    <3>3. ASSUME NEW i \in 1..k, Mine(r, toParent[i])
          PROVE  made'[r][g + Among(toParent', r, i)] = toParent'[i].type
      <4>1. g + Among(toParent, r, i) \in 1..(g + n)
        BY <2>1, <2>3, <3>3
      <4>2. QED
        BY <1>1, <2>3, <2>4, <3>1, <3>3, <4>1
    <3>4. Len(made'[r]) = g + Among(toParent', r, k + 1)
      BY <2>1, <3>1, <3>2
    <3>5. made'[r][g + Among(toParent', r, k + 1)] = toParent'[k + 1].type
      <4>1. g + (n + 1) = g + n + 1
        BY <2>1
      <4>2. QED
        BY <1>1, <3>1, <3>2, <4>1
    <3>6. \A i \in 1..(k + 1) : i \in 1..k \/ i = k + 1
      BY <1>1
    <3>7. QED
      BY <1>1, <1>2, <3>3, <3>4, <3>5, <3>6 DEF g
  <2>6. CASE ~Mine(r, m)
    <3>1. Among(toParent', r, k + 1) = n
      BY <2>1, <2>2, <2>6
    <3>2. \A i \in 1..(k + 1) : i \in 1..k \/ i = k + 1
      BY <1>1
    <3>3. QED
      BY <1>1, <1>2, <2>1, <2>3, <2>4, <2>6, <3>1, <3>2 DEF g
  <2>7. QED
    BY <2>5, <2>6
<1>6. QED
  BY <1>4, <1>5 DEF Relayed

\* A message that is received is the next one that its consumer was to be given.
LEMMA ReceiveRelays ==
    ASSUME TypeOK, NEW r \in Requests, Relayed(r), toParent # <<>>,
           toParent' = Tail(toParent), made' = made,
           \/ got'[r] = got[r] /\ ~Mine(r, Head(toParent))
           \/ got'[r] = got[r] /\ response'[r] \notin {"none", "open"}
           \/ /\ Mine(r, Head(toParent)) /\ response[r] \in {"none", "open"}
              /\ got'[r] = Append(got[r], Head(toParent).type),
           response'[r] \in {"none", "open"} => response[r] \in {"none", "open"}
    PROVE  Relayed(r)'
<1> DEFINE k == Len(toParent)
           m == Head(toParent)
           g == Len(got[r])
           n == Among(toParent, r, k)
<1>1. /\ toParent \in Seq(Message) /\ k \in Nat \ {0} /\ Len(toParent') = k - 1 /\ m = toParent[1]
      /\ m \in Message /\ \A i \in 1..(k - 1) : toParent'[i] = toParent[i + 1]
  <2>1. toParent \in Seq(Message)
    BY DEF TypeOK, Message
  <2>2. k \in Nat \ {0}
    BY <2>1, EmptySeq
  <2>3. m = toParent[1] /\ m \in Message
    BY <2>1, <2>2
  <2>4. Len(toParent') = k - 1 /\ \A i \in 1..(k - 1) : toParent'[i] = toParent[i + 1]
    BY <2>1, HeadTailProperties
  <2>5. QED
    BY <2>1, <2>2, <2>3, <2>4
<1>2. got[r] \in Seq(Messages) /\ made[r] \in Seq(Messages) /\ made'[r] = made[r] /\ g \in Nat
  BY DEF TypeOK
<1>3. Mine(r, m) => m.type \in Messages
  BY DEF Mine
<1>4. \A i \in 0..(k - 1) :
        Among(toParent, r, i + 1) = Among(toParent', r, i) + (IF Mine(r, m) THEN 1 ELSE 0)
  BY <1>1, AmongTail
<1>5. toParent' \in Seq(Message)
  BY <1>1
<1>6. \A i \in 0..(k - 1) : Among(toParent', r, i) \in Nat
  BY <1>1, <1>5, AmongBounds
<1>7. /\ n \in Nat
      /\ Mine(r, m) => Among(toParent, r, 1) > 0
      /\ \A i \in 1..k : Among(toParent, r, i) <= n /\ Among(toParent, r, i) \in Nat
  <2>1. \A i \in 1..k : i \in 0..k
    BY <1>1
  <2>2. k \in 0..k /\ 1 \in 1..k
    BY <1>1
  <2>3. QED
    BY <1>1, <2>1, <2>2, AmongBounds
<1>8. ASSUME response[r] \in {"none", "open"}
      PROVE  /\ Len(made[r]) = g + n
             /\ \A i \in 1..k : Mine(r, toParent[i]) =>
                  made[r][g + Among(toParent, r, i)] = toParent[i].type
  BY <1>8 DEF Relayed
<1>9. g <= Len(made[r]) /\ got[r] = SubSeq(made[r], 1, g)
  BY DEF Relayed
<1> HIDE DEF g, n, m, k
<1>10. CASE got'[r] = got[r] /\ ~Mine(r, m)
  <2>1. ASSUME response'[r] \in {"none", "open"}
        PROVE  /\ Len(made[r]) = g + Among(toParent', r, k - 1)
               /\ \A i \in 1..(k - 1) : Mine(r, toParent'[i]) =>
                    made[r][g + Among(toParent', r, i)] = toParent'[i].type
    <3>1. \A i \in 0..(k - 1) : Among(toParent, r, i + 1) = Among(toParent', r, i)
      BY <1>4, <1>6, <1>10
    <3>2. (k - 1) + 1 = k /\ k - 1 \in 0..(k - 1)
      BY <1>1
    <3>3. \A i \in 1..(k - 1) : i + 1 \in 1..k /\ i \in 0..(k - 1)
      BY <1>1
    <3>4. Among(toParent', r, k - 1) = n
      BY <3>1, <3>2 DEF n
    <3>5. QED
      BY <1>1, <1>8, <2>1, <3>1, <3>3, <3>4
  <2>2. QED
    BY <1>1, <1>2, <1>9, <1>10, <2>1 DEF Relayed, g
<1>11. CASE got'[r] = got[r] /\ response'[r] \notin {"none", "open"}
  BY <1>2, <1>9, <1>11 DEF Relayed, g
<1>12. CASE /\ Mine(r, m) /\ response[r] \in {"none", "open"}
            /\ got'[r] = Append(got[r], m.type)
  <2>1. \A i \in 0..(k - 1) : Among(toParent, r, i + 1) = Among(toParent', r, i) + 1
    BY <1>4, <1>6, <1>12
  <2>2. (k - 1) + 1 = k /\ k - 1 \in 0..(k - 1) /\ 0 \in 0..(k - 1) /\ 0 + 1 = 1 /\ 1 \in 1..k
    BY <1>1
  <2>3. Among(toParent', r, 0) = 0
    <3>1. 1..0 = {}
      OBVIOUS
    <3>2. {i \in 1..0 : Mine(r, toParent'[i])} = {}
      BY <3>1
    <3>3. QED
      BY <3>2, FS_EmptySet DEF Among
  <2>4. Among(toParent, r, 1) = 1 /\ n = Among(toParent', r, k - 1) + 1
    BY <2>1, <2>2, <2>3 DEF n
  <2>5. m.type = made[r][g + 1] /\ Len(made[r]) = g + n
    BY <1>1, <1>8, <1>12, <2>2, <2>4
  <2>6. Len(got'[r]) = g + 1
    BY <1>2, <1>3, <1>12 DEF g
  <2>7. Len(got'[r]) <= Len(made'[r]) /\ got'[r] = SubSeq(made'[r], 1, Len(got'[r]))
    <3>1. g < Len(made[r])
      BY <1>2, <1>6, <1>7, <2>2, <2>4, <2>5
    <3>2. QED
      BY <1>2, <1>9, <1>12, <2>5, <3>1, PrefixCatchesUp DEF g
  <2>8. Len(made[r]) = (g + 1) + Among(toParent', r, k - 1)
    BY <1>2, <1>6, <2>2, <2>4, <2>5
  <2>9. ASSUME NEW i \in 1..(k - 1), Mine(r, toParent'[i])
        PROVE  made[r][(g + 1) + Among(toParent', r, i)] = toParent'[i].type
    <3>1. i + 1 \in 1..k /\ i \in 0..(k - 1)
      BY <1>1
    <3>2. (g + 1) + Among(toParent', r, i) = g + Among(toParent, r, i + 1)
      <4> DEFINE a == Among(toParent', r, i)
      <4>1. a \in Nat /\ Among(toParent, r, i + 1) = a + 1
        BY <1>6, <2>1, <3>1
      <4> HIDE DEF a
      <4>2. (g + 1) + a = g + (a + 1)
        BY <1>2, <4>1
      <4>3. QED
        BY <4>1, <4>2 DEF a
    <3>3. toParent'[i] = toParent[i + 1]
      BY <1>1
    <3>4. made[r][g + Among(toParent, r, i + 1)] = toParent[i + 1].type
      BY <1>8, <1>12, <2>9, <3>1, <3>3
    <3>5. QED
      BY <3>2, <3>3, <3>4
  <2>10. QED
    BY <1>1, <1>2, <2>6, <2>7, <2>8, <2>9 DEF Relayed
<1>13. QED
  BY <1>10, <1>11, <1>12 DEF m

\* Nothing is sent, received or emitted.
LEMMA RelayedStays ==
    ASSUME NEW r \in Requests, Relayed(r), UNCHANGED <<toParent, made, got>>,
           response'[r] \in {"none", "open"} => response[r] \in {"none", "open"}
    PROVE  Relayed(r)'
  BY DEF Relayed

-------------------------------------------------------------------------------
(* The steps *)

\* The ids of a request and of its unsubscribe request.
LEMMA IdFacts ==
    /\ \A r \in Requests : /\ IdOf(r) \in Ids /\ IdOf(r).req = r /\ ~IdOf(r).auto
                           /\ AutoId(r) \in Ids /\ AutoId(r).req = r /\ AutoId(r).auto
    /\ \A id \in Ids : /\ id.req \in Requests /\ id.auto \in BOOLEAN
                       /\ ~id.auto => id = IdOf(id.req)
                       /\ id.auto => id = AutoId(id.req)
    /\ \A r, q \in Requests : /\ IdOf(r) = IdOf(q) => r = q
                              /\ AutoId(r) = AutoId(q) => r = q
                              /\ IdOf(r) # AutoId(q)
<1>1. ASSUME NEW id \in Ids
      PROVE  /\ id.req \in Requests /\ id.auto \in BOOLEAN
             /\ ~id.auto => id = IdOf(id.req)
             /\ id.auto => id = AutoId(id.req)
  <2>1. id = [req |-> id.req, auto |-> id.auto] /\ id.req \in Requests /\ id.auto \in BOOLEAN
    BY DEF Ids
  <2>2. QED
    BY <2>1 DEF IdOf, AutoId
<1>2. QED
  BY <1>1 DEF Ids, IdOf, AutoId

\* What is in the channels.
LEMMA ChannelTypes ==
    ASSUME TypeOK
    PROVE  /\ toHost \in Seq(Ids) /\ Len(toHost) \in Nat
           /\ \A i \in 1..Len(toHost) : toHost[i] \in Ids
           /\ toParent \in Seq(Message) /\ Len(toParent) \in Nat
           /\ \A i \in 1..Len(toParent) :
                toParent[i] \in Message /\ toParent[i].id \in Ids
<1>1. toHost \in Seq(Ids) /\ toParent \in Seq(Message)
  BY DEF TypeOK, Message
<1>2. \A m \in Message : m.id \in Ids
  BY DEF Message
<1>3. QED
  BY <1>1, <1>2

\* A request is sent to the host.
LEMMA RequestInv ==
    ASSUME TunnelInv, NEW id \in Ids, id \notin requests,
           requests' = requests \cup {id}, SendToHost(id),
           ~id.auto => source[id.req] = "none" /\ call'[id.req] = "sent",
           \A r \in Requests \ {id.req} : call'[r] = call[r],
           id.auto => call' = call,
           UNCHANGED <<running, source, toParent, up>>
    PROVE  WaitingInv' /\ MessageInv'
<1> DEFINE k == Len(toHost)
<1>1. toHost \in Seq(Ids) /\ k \in Nat /\ \A i \in 1..k : toHost[i] \in Ids
  BY DEF TunnelInv, TypeOK
<1>2. \A o \in Ids : Waiting(o) => o # id
  BY DEF TunnelInv, WaitingInv
<1>3. \A o \in Ids : Waiting(o)' => Waiting(o) \/ o = id
  BY <1>1 DEF SendToHost, Waiting
<1>4. ~Replied(id)
  BY DEF TunnelInv, MessageInv, Replied
<1>5. ASSUME NEW o \in Ids, o # id, ~o.auto, call[o.req] = "sent" PROVE call'[o.req] = "sent"
  <2>1. id.auto \/ o.req # id.req
    BY <1>5, IdFacts
  <2>2. QED
    BY <1>5, <2>1, IdFacts
<1>6. \A i, j \in 1..Len(toHost') : toHost'[i] = toHost'[j] => i = j
  BY <1>1, <1>2 DEF TunnelInv, WaitingInv, Waiting, SendToHost
<1>7. \A i \in 1..Len(toHost') : toHost'[i] \notin running'
  BY <1>1, <1>2 DEF TunnelInv, WaitingInv, Waiting, SendToHost
<1>8. ASSUME NEW o \in Ids, Waiting(o)'
      PROVE  /\ o \in requests' /\ ~Replied(o)'
             /\ ~o.auto => source'[o.req] = "none" /\ call'[o.req] = "sent"
  <2>1. CASE o = id
    BY <1>4, <2>1 DEF Replied
  <2>2. CASE o # id /\ Waiting(o)
    BY <1>5, <2>2 DEF TunnelInv, WaitingInv, Replied
  <2>3. QED
    BY <1>3, <1>8, <2>1, <2>2
<1>9. WaitingInv'
  BY <1>6, <1>7, <1>8 DEF WaitingInv
<1>10. MessageInv'
  <2>1. \A i \in 1..Len(toParent) : toParent[i] \in Message /\ toParent[i].id # id
    BY <1>4, ChannelTypes DEF TunnelInv, Replied
  <2>2. \A i \in 1..Len(toParent) :
          toParent[i].type = "subscribe" => call'[toParent[i].id.req] = "sent"
    <3> SUFFICES ASSUME NEW i \in 1..Len(toParent), toParent[i].type = "subscribe"
                 PROVE  call'[toParent[i].id.req] = "sent"
      OBVIOUS
    <3>1. call[toParent[i].id.req] = "sent" /\ ~toParent[i].id.auto
      BY DEF TunnelInv, MessageInv
    <3>2. toParent[i].id \in Ids
      BY <2>1 DEF Message
    <3>3. QED
      BY <1>5, <2>1, <3>1, <3>2
  <2>3. QED
    BY <2>2 DEF TunnelInv, MessageInv, Emitting
<1>11. QED
  BY <1>9, <1>10

LEMMA DispatchStep ==
    ASSUME TunnelInv, NEW r \in Requests, Dispatch(r)
    PROVE  TunnelInv'
<1> USE DEF TunnelInv
<1>1. /\ call[r] = "none" /\ tunnel /\ call' = [call EXCEPT ![r] = "sent"]
      /\ requests' = requests \cup {IdOf(r)} /\ SendToHost(IdOf(r))
      /\ UNCHANGED <<response, got, streams, tunnel, up, running, source, made, toParent>>
  BY DEF Dispatch, hostVars
<1>2. IdOf(r) \in Ids /\ IdOf(r).req = r /\ ~IdOf(r).auto
  BY IdFacts
<1>3. IdOf(r) \notin requests /\ source[r] = "none"
  BY <1>1 DEF ParentInv
<1>4. call'[r] = "sent" /\ \A q \in Requests \ {r} : call'[q] = call[q]
  BY <1>1 DEF TypeOK
<1>5. TypeOK'
  <2>1. kind' \in [Requests -> Kinds \cup {"none"}] /\ target' \in [Requests -> Requests]
    BY DEF Dispatch, TypeOK
  <2>2. toHost' \in Seq(Ids)
    BY <1>1, <1>2 DEF TypeOK, SendToHost
  <2>3. call' \in [Requests -> {"none", "sent", "resolved", "rejected"}] /\ requests' \subseteq Ids
    BY <1>1, <1>2 DEF TypeOK
  <2>4. QED
    BY <1>1, <2>1, <2>2, <2>3 DEF TypeOK
<1>6. WaitingInv' /\ MessageInv'
  BY <1>1, <1>2, <1>3, <1>4, RequestInv
<1>7. ParentInv'
  <2>1. response[r] = "none"
    BY <1>1 DEF ParentInv
  <2>2. \A q \in Requests : /\ IdOf(q) \in requests' => IdOf(q) \in requests \/ q = r
                            /\ AutoId(q) \in requests' <=> AutoId(q) \in requests
    BY <1>1, IdFacts
  <2>3. QED
    BY <1>1, <1>4, <2>1, <2>2 DEF ParentInv, Emitting
<1>8. ExitInv'
  BY <1>1 DEF ExitInv
<1>9. RelaysExactly'
  BY <1>1, RelayedStays DEF RelaysExactly, Relayed
<1>10. QED
  BY <1>5, <1>6, <1>7, <1>8, <1>9

LEMMA ResponseEndStep ==
    ASSUME TunnelInv, NEW r \in Requests, ResponseEnd(r)
    PROVE  TunnelInv'
<1> USE DEF TunnelInv
<1>1. /\ response[r] = "ended" /\ response' = [response EXCEPT ![r] = "closed"]
      /\ streams' = streams \ {r}
      /\ UNCHANGED <<kind, target, call, got, tunnel, up, running, source, made, toParent>>
      /\ \/ requests' = requests \cup {AutoId(r)} /\ SendToHost(AutoId(r))
         \/ UNCHANGED <<requests, toHost>>
  BY DEF ResponseEnd, hostVars
<1>2. AutoId(r) \in Ids /\ AutoId(r).req = r /\ AutoId(r).auto
  BY IdFacts
<1>3. AutoId(r) \notin requests
  BY <1>1 DEF ParentInv
<1>4. response'[r] = "closed" /\ \A q \in Requests \ {r} : response'[q] = response[q]
  BY <1>1 DEF TypeOK
<1>5. TypeOK'
  <2>1. toHost' \in Seq(Ids)
    <3>1. toHost' = toHost \/ toHost' = Append(toHost, AutoId(r))
      BY <1>1 DEF SendToHost
    <3>2. QED
      BY <1>2, <3>1, ChannelTypes
  <2>2. \A q \in streams' : response'[q] \in {"open", "ended"} /\ tunnel'
    BY <1>1, <1>4 DEF TypeOK
  <2>3. /\ response' \in [Requests -> {"none", "open", "ended", "closed"}]
        /\ requests' \subseteq Ids /\ streams' \subseteq Requests
    BY <1>1, <1>2 DEF TypeOK
  <2>4. QED
    BY <1>1, <2>1, <2>2, <2>3 DEF TypeOK
<1>6. WaitingInv' /\ MessageInv'
  <2>1. CASE requests' = requests \cup {AutoId(r)} /\ SendToHost(AutoId(r))
    BY <1>1, <1>2, <1>3, <2>1, RequestInv
  <2>2. CASE UNCHANGED <<requests, toHost>>
    BY <1>1, <2>2 DEF WaitingInv, MessageInv, Waiting, Replied, Emitting
  <2>3. QED
    BY <1>1, <2>1, <2>2
<1>7. ParentInv'
  <2>1. \A q \in Requests : /\ IdOf(q) \in requests' <=> IdOf(q) \in requests
                            /\ AutoId(q) \in requests' => AutoId(q) \in requests \/ q = r
    BY <1>1, IdFacts
  <2>2. call[r] \notin {"none", "sent"}
    BY <1>1 DEF ParentInv
  <2>3. QED
    BY <1>1, <1>4, <2>1, <2>2 DEF ParentInv, Emitting
<1>8. ExitInv'
  BY <1>1, <1>4 DEF ExitInv
<1>9. RelaysExactly'
  <2>1. \A q \in Requests : response'[q] \in {"none", "open"} => response[q] \in {"none", "open"}
    BY <1>4
  <2>2. QED
    BY <1>1, <2>1, RelayedStays DEF RelaysExactly, Relayed
<1>10. QED
  BY <1>5, <1>6, <1>7, <1>8, <1>9

LEMMA HostTakesStep ==
    ASSUME TunnelInv, HostTakes
    PROVE  TunnelInv'
<1> USE DEF TunnelInv
<1> DEFINE id == Head(toHost)
           k == Len(toHost)
<1>1. /\ toHost # <<>> /\ toHost' = Tail(toHost) /\ running' = running \cup {id}
      /\ UNCHANGED <<kind, target, call, requests, response, got, streams, tunnel, up, made,
                     toParent>>
      /\ \/ source' = source
         \/ \E r \in Requests : /\ source[r] = "live"
                                /\ source' = [source EXCEPT ![r] = "unsubscribed"]
  <2>1. toHost # <<>> => id \in Ids
    BY DEF TypeOK
  <2>2. Unsubscribes(id) \in Requests \/ toHost = <<>>
    BY <2>1, IdFacts DEF TypeOK, Unsubscribes
  <2>3. QED
    BY <2>2 DEF HostTakes, parentVars
<1>2. /\ toHost \in Seq(Ids) /\ k \in Nat \ {0} /\ id = toHost[1] /\ id \in Ids
      /\ Len(toHost') = k - 1 /\ \A i \in 1..(k - 1) : toHost'[i] = toHost[i + 1]
  <2>1. toHost \in Seq(Ids)
    BY DEF TypeOK
  <2>2. k \in Nat \ {0}
    BY <1>1, <2>1, EmptySeq
  <2>3. QED
    BY <1>1, <2>1, <2>2, HeadTailProperties
<1>3. /\ source' \in [Requests -> {"none", "live", "unsubscribed", "ending", "ended", "failed"}]
      /\ \A r \in Requests : /\ Emitting(r)' <=> Emitting(r)
                             /\ source'[r] = "none" <=> source[r] = "none"
  BY <1>1 DEF TypeOK, Emitting, Emits
<1>4. TypeOK'
  <2>1. toHost' \in Seq(Ids) /\ running' \subseteq Ids
    BY <1>1, <1>2 DEF TypeOK
  <2>2. QED
    BY <1>1, <1>3, <2>1 DEF TypeOK
<1> HIDE DEF id, k
<1>5. WaitingInv'
  <2>1. \A o \in Ids : Waiting(o)' => Waiting(o)
    BY <1>1, <1>2 DEF Waiting
  <2>2. \A i \in 1..(k - 1) : toHost[i + 1] # toHost[1] /\ toHost[i + 1] \notin running
    BY <1>2 DEF WaitingInv, k
  <2>3. \A i \in 1..Len(toHost') : toHost'[i] \notin running'
    BY <1>1, <1>2, <2>2
  <2>4. \A i, j \in 1..Len(toHost') : toHost'[i] = toHost'[j] => i = j
    <3> SUFFICES ASSUME NEW i \in 1..(k - 1), NEW j \in 1..(k - 1), toHost[i + 1] = toHost[j + 1]
                 PROVE  i = j
      BY <1>2
    <3>1. i + 1 \in 1..k /\ j + 1 \in 1..k
      BY <1>2
    <3>2. i + 1 = j + 1
      BY <3>1 DEF WaitingInv, k
    <3>3. QED
      BY <3>2
  <2>5. \A o \in Ids : Replied(o)' <=> Replied(o)
    BY <1>1 DEF Replied
  <2>6. \A o \in Ids : o.req \in Requests
    BY IdFacts
  <2>7. QED
    BY <1>1, <1>3, <2>1, <2>3, <2>4, <2>5, <2>6 DEF WaitingInv
<1>6. ParentInv'
  BY <1>1, <1>3 DEF ParentInv
<1>7. MessageInv'
  <2>1. \A i \in 1..Len(toParent) : toParent[i].id.req \in Requests
    BY ChannelTypes, IdFacts
  <2>2. QED
    BY <1>1, <1>3, <2>1 DEF MessageInv
<1>8. ExitInv' /\ RelaysExactly'
  BY <1>1 DEF ExitInv, RelaysExactly
<1>9. QED
  BY <1>4, <1>5, <1>6, <1>7, <1>8

\* A message is sent to the parent.
LEMMA MessageSent ==
    ASSUME TunnelInv, NEW id \in Ids, NEW type \in Messages \cup {"value", "error"},
           Reply(id, type), id \in requests,
           \A i \in 1..Len(toParent) : toParent[i].id = id => toParent[i].type \notin Final,
           id.auto => type \in {"value", "error"},
           type = "subscribe" => ~Replied(id) /\ call[id.req] = "sent",
           type \in Final /\ ~id.auto => source'[id.req] \notin Emits,
           \A r \in Requests \ {id.req} : source'[r] = source[r],
           id.auto => source' = source,
           UNCHANGED <<requests, call>>
    PROVE  MessageInv' /\ toParent' \in Seq(Message)
<1> USE DEF TunnelInv
<1> DEFINE k == Len(toParent)
           m == [id |-> id, type |-> type]
<1>1. /\ toParent' \in Seq(Message) /\ Len(toParent') = k + 1 /\ k \in Nat /\ toParent'[k + 1] = m
      /\ \A i \in 1..k : toParent'[i] = toParent[i]
  <2>1. toParent \in Seq(Message) /\ m \in Message
    BY ChannelTypes DEF Message
  <2>2. QED
    BY <2>1 DEF Reply
<1>2. m.id = id /\ m.type = type
  OBVIOUS
<1>3. \A i \in 1..k : toParent[i].id \in Ids
  BY ChannelTypes
<1> HIDE DEF k, m
<1>4. ASSUME NEW i \in 1..k, toParent[i].type \in Final
      PROVE  /\ ~toParent[i].id.auto => source'[toParent[i].id.req] \notin Emits
             /\ \A j \in (i + 1)..(k + 1) : toParent'[j].id # toParent[i].id
  <2>1. /\ ~toParent[i].id.auto => source[toParent[i].id.req] \notin Emits
        /\ \A j \in (i + 1)..k : toParent[j].id # toParent[i].id
    BY <1>4 DEF MessageInv, Emitting, k
  <2>2. toParent[i].id # id
    BY <1>4 DEF k
  <2>3. \A j \in (i + 1)..(k + 1) : j \in (i + 1)..k \/ j = k + 1
    BY <1>1
  <2>4. \A j \in (i + 1)..k : j \in 1..k
    BY <1>1
  <2>5. ASSUME ~toParent[i].id.auto PROVE source'[toParent[i].id.req] \notin Emits
    <3>1. toParent[i].id.req \in Requests /\ (id.auto \/ toParent[i].id.req # id.req)
      BY <1>3, <2>2, <2>5, IdFacts
    <3>2. source'[toParent[i].id.req] = source[toParent[i].id.req]
      BY <3>1, IdFacts
    <3>3. QED
      BY <2>1, <2>5, <3>2
  <2>6. QED
    BY <1>1, <1>2, <2>1, <2>2, <2>3, <2>4, <2>5
<1>5. ASSUME NEW i \in 1..k, toParent[i].type = "subscribe"
      PROVE  /\ call'[toParent[i].id.req] = "sent"
             /\ \A j \in 1..(i - 1) : toParent'[j].id # toParent[i].id
  <2>1. \A j \in 1..(i - 1) : j \in 1..k
    BY <1>1
  <2>2. QED
    BY <1>1, <1>5, <2>1 DEF MessageInv, k
<1>6. ASSUME type = "subscribe"
      PROVE  call'[id.req] = "sent" /\ \A j \in 1..k : toParent'[j].id # id
  BY <1>1, <1>6 DEF Replied, k
<1>7. ASSUME type \in Final, ~id.auto PROVE source'[id.req] \notin Emits
  BY <1>7
<1>8. \A i \in 1..k : /\ toParent[i].id \in requests'
                      /\ toParent[i].id.auto => toParent[i].type \in {"value", "error"}
  BY DEF MessageInv, k
<1>9. ASSUME NEW i \in 1..Len(toParent')
      PROVE  /\ toParent'[i].id \in requests'
             /\ toParent'[i].id.auto => toParent'[i].type \in {"value", "error"}
             /\ toParent'[i].type \in Final =>
                  /\ ~toParent'[i].id.auto => source'[toParent'[i].id.req] \notin Emits
                  /\ \A j \in (i + 1)..Len(toParent') : toParent'[j].id # toParent'[i].id
             /\ toParent'[i].type = "subscribe" =>
                  /\ call'[toParent'[i].id.req] = "sent"
                  /\ \A j \in 1..(i - 1) : toParent'[j].id # toParent'[i].id
  <2>1. CASE i \in 1..k
    BY <1>1, <1>4, <1>5, <1>8, <2>1
  <2>2. CASE i = k + 1
    <3>1. (i + 1)..Len(toParent') = {} /\ 1..(i - 1) = 1..k
      BY <1>1, <2>2
    <3>2. QED
      BY <1>1, <1>2, <1>6, <1>7, <2>2, <3>1
  <2>3. QED
    BY <1>1, <1>9, <2>1, <2>2
<1>10. MessageInv'
  BY <1>9 DEF MessageInv, Emitting
<1>11. QED
  BY <1>1, <1>10

LEMMA HostAnswersStep ==
    ASSUME TunnelInv, NEW id \in Ids, HostAnswers(id)
    PROVE  TunnelInv'
<1> USE DEF TunnelInv
<1>1. /\ id \in running /\ running' = running \ {id}
      /\ UNCHANGED <<kind, target, call, requests, response, got, streams, tunnel, up, source, made,
                     toHost>>
  BY DEF HostAnswers, parentVars
<1>2. PICK type \in {"value", "error"} : Reply(id, type)
  BY DEF HostAnswers
<1>3. id \in requests /\ ~Replied(id) /\ (~id.auto => source[id.req] = "none")
  BY <1>1 DEF WaitingInv, Waiting
<1>4. MessageInv' /\ toParent' \in Seq(Message)
  BY <1>1, <1>2, <1>3, MessageSent DEF Replied, Emits
<1>5. TypeOK'
  BY <1>1, <1>4 DEF TypeOK, Message
<1>6. WaitingInv'
  <2>1. \A o \in Ids : Waiting(o)' => Waiting(o) /\ o # id
    BY <1>1 DEF Waiting, WaitingInv
  <2>2. \A o \in Ids \ {id} : Replied(o)' => Replied(o)
    BY <1>2, ChannelTypes DEF Reply, Replied
  <2>3. QED
    BY <1>1, <2>1, <2>2 DEF WaitingInv
<1>7. ParentInv'
  BY <1>1 DEF ParentInv, Emitting
<1>8. ExitInv'
  <2>1. tunnel
    BY <1>1 DEF HostAnswers, ExitInv
  <2>2. QED
    BY <1>1, <2>1 DEF ExitInv
<1>9. RelaysExactly'
  <2> DEFINE m == [id |-> id, type |-> type]
  <2>1. m \in Message /\ toParent' = Append(toParent, m) /\ m.type \notin Messages
    BY <1>2 DEF Message, Reply, Messages
  <2>2. \A r \in Requests : ~Mine(r, m)
    BY <2>1 DEF Mine
  <2> HIDE DEF m
  <2>3. ASSUME NEW r \in Requests PROVE Relayed(r)'
    BY <1>1, <2>1, <2>2, SendRelays DEF RelaysExactly, Relayed
  <2>4. QED
    BY <2>3 DEF RelaysExactly, Relayed
<1>10. QED
  BY <1>4, <1>5, <1>6, <1>7, <1>8, <1>9

\* A stream emits what it does.
LEMMA EmitRelays ==
    ASSUME TypeOK, RelaysExactly, NEW r \in Requests, NEW type \in Messages, Emit(r, type),
           UNCHANGED <<got, response>>
    PROVE  RelaysExactly' /\ made' \in [Requests -> Seq(Messages)]
<1> DEFINE m == [id |-> IdOf(r), type |-> type]
<1>1. m \in Message /\ toParent' = Append(toParent, m) /\ m.type = type
  BY IdFacts DEF Message, Emit, Reply
<1>2. made \in [Requests -> Seq(Messages)] /\ made' = [made EXCEPT ![r] = Append(made[r], type)]
  BY DEF TypeOK, Emit
<1>3. \A q \in Requests : Mine(q, m) <=> q = r
  BY <1>1, IdFacts DEF Mine
<1>4. \A q \in Requests : made'[q] = IF Mine(q, m) THEN Append(made[q], m.type) ELSE made[q]
  BY <1>1, <1>2, <1>3
<1> HIDE DEF m
<1>5. ASSUME NEW q \in Requests PROVE Relayed(q)'
  <2>1. Relayed(q)
    BY DEF RelaysExactly, Relayed
  <2>2. made'[q] = IF Mine(q, m) THEN Append(made[q], m.type) ELSE made[q]
    BY <1>4
  <2>3. QED
    BY <1>1, <2>1, <2>2, SendRelays
<1>6. RelaysExactly'
  BY <1>5 DEF RelaysExactly, Relayed
<1>7. Append(made[r], type) \in Seq(Messages)
  BY <1>2
<1>8. QED
  BY <1>2, <1>6, <1>7

LEMMA StreamStartsStep ==
    ASSUME TunnelInv, NEW r \in Requests, StreamStarts(r)
    PROVE  TunnelInv'
<1> USE DEF TunnelInv
<1>1. /\ IdOf(r) \in running /\ running' = running \ {IdOf(r)}
      /\ source' = [source EXCEPT ![r] = "live"] /\ up
      /\ UNCHANGED <<kind, target, call, requests, response, got, streams, tunnel, up, toHost>>
      /\ Emit(r, "subscribe") \/ UNCHANGED <<made, toParent>>
  BY DEF StreamStarts, parentVars
<1>2. IdOf(r) \in Ids /\ IdOf(r).req = r /\ ~IdOf(r).auto
  BY IdFacts
<1>3. IdOf(r) \in requests /\ ~Replied(IdOf(r)) /\ call[r] = "sent" /\ tunnel
  BY <1>1, <1>2 DEF WaitingInv, Waiting, ExitInv
<1>4. /\ source' \in [Requests -> {"none", "live", "unsubscribed", "ending", "ended", "failed"}]
      /\ \A q \in Requests \ {r} : source'[q] = source[q]
      /\ source'[r] = "live"
  BY <1>1 DEF TypeOK
<1>5. MessageInv' /\ toParent' \in Seq(Message)
  <2>1. CASE Emit(r, "subscribe")
    <3>1. Reply(IdOf(r), "subscribe")
      BY <2>1 DEF Emit
    <3>2. QED
      BY <1>1, <1>2, <1>3, <1>4, <3>1, MessageSent DEF Replied, Final, Messages
  <2>2. CASE UNCHANGED <<made, toParent>>
    <3>1. \A i \in 1..Len(toParent) : /\ toParent[i].id \in Ids /\ toParent[i].id # IdOf(r)
      BY <1>3, ChannelTypes DEF Replied
    <3>2. \A i \in 1..Len(toParent) : ~toParent[i].id.auto =>
            toParent[i].id.req \in Requests \ {r}
      BY <3>1, IdFacts
    <3>3. QED
      BY <1>1, <1>4, <2>2, <3>2, ChannelTypes DEF MessageInv, Emitting
  <2>3. QED
    BY <1>1, <2>1, <2>2
<1>6. RelaysExactly' /\ made' \in [Requests -> Seq(Messages)]
  <2>1. CASE Emit(r, "subscribe")
    BY <1>1, <2>1, EmitRelays DEF Messages
  <2>2. CASE UNCHANGED <<made, toParent>>
    BY <1>1, <2>2 DEF RelaysExactly, TypeOK
  <2>3. QED
    BY <1>1, <2>1, <2>2
<1>7. TypeOK'
  BY <1>1, <1>4, <1>5, <1>6 DEF TypeOK, Message
<1>8. WaitingInv'
  <2>1. \A o \in Ids : Waiting(o)' => Waiting(o) /\ o # IdOf(r)
    BY <1>1 DEF Waiting, WaitingInv
  <2>2. \A o \in Ids \ {IdOf(r)} : Replied(o)' => Replied(o)
    <3>1. CASE Emit(r, "subscribe")
      BY <3>1, ChannelTypes DEF Emit, Reply, Replied
    <3>2. CASE UNCHANGED <<made, toParent>>
      BY <3>2 DEF Replied
    <3>3. QED
      BY <1>1, <3>1, <3>2
  <2>3. \A o \in Ids \ {IdOf(r)} : ~o.auto => o.req \in Requests \ {r}
    BY IdFacts
  <2>4. QED
    BY <1>1, <1>4, <2>1, <2>2, <2>3 DEF WaitingInv
<1>9. ParentInv'
  BY <1>1, <1>3, <1>4 DEF ParentInv, Emitting
<1>10. ExitInv'
  BY <1>1, <1>3 DEF ExitInv
<1>11. QED
  BY <1>5, <1>6, <1>7, <1>8, <1>9, <1>10

\* A stream that runs goes on, or ends.
LEMMA StreamGoesOnStep ==
    ASSUME TunnelInv, NEW r \in Requests,
           StreamEvent(r) \/ StreamUnsubscribed(r) \/ StreamFinishes(r) \/ StreamFails(r)
    PROVE  TunnelInv'
<1> USE DEF TunnelInv
<1>1. PICK type \in {"event", "unsubscribe", "fin", "streamError"},
           s \in {"live", "unsubscribed", "ending", "ended", "failed"} :
        /\ Emitting(r) /\ up /\ source' = [source EXCEPT ![r] = s]
        /\ type = "fin" => s \notin Emits
        /\ Emit(r, type)
        /\ UNCHANGED <<kind, target, call, requests, response, got, streams, tunnel, up, running,
                       toHost>>
  <2>1. CASE StreamEvent(r)
    <3>1. source' = [source EXCEPT ![r] = "live"]
      BY <2>1 DEF StreamEvent, TypeOK
    <3>2. QED
      BY <2>1, <3>1 DEF StreamEvent, Emitting, Emits, parentVars
  <2>2. CASE StreamUnsubscribed(r)
    BY <2>2 DEF StreamUnsubscribed, Emitting, Emits, parentVars
  <2>3. CASE StreamFinishes(r)
    BY <2>3 DEF StreamFinishes, Emitting, Emits, parentVars
  <2>4. CASE StreamFails(r)
    BY <2>4 DEF StreamFails, Emitting, Emits, parentVars
  <2>5. QED
    BY <2>1, <2>2, <2>3, <2>4
<1>2. IdOf(r) \in Ids /\ IdOf(r).req = r /\ ~IdOf(r).auto
  BY IdFacts
<1>3. IdOf(r) \in requests /\ tunnel /\ source[r] # "none"
  BY <1>1 DEF ParentInv, ExitInv, Emitting, Emits
<1>4. /\ source' \in [Requests -> {"none", "live", "unsubscribed", "ending", "ended", "failed"}]
      /\ \A q \in Requests \ {r} : source'[q] = source[q]
      /\ source'[r] = s
  BY <1>1 DEF TypeOK
<1>5. MessageInv' /\ toParent' \in Seq(Message)
  <2>1. Reply(IdOf(r), type)
    BY <1>1 DEF Emit
  <2>2. \A i \in 1..Len(toParent) : toParent[i].id = IdOf(r) => toParent[i].type \notin Final
    BY <1>1, <1>2 DEF MessageInv
  <2>3. type \in Messages /\ (type \in Final => type = "fin") /\ type # "subscribe"
    BY DEF Messages, Final
  <2>4. QED
    BY <1>1, <1>2, <1>3, <1>4, <2>1, <2>2, <2>3, MessageSent
<1>6. RelaysExactly' /\ made' \in [Requests -> Seq(Messages)]
  BY <1>1, EmitRelays DEF Messages
<1>7. TypeOK'
  BY <1>1, <1>4, <1>5, <1>6 DEF TypeOK, Message
<1>8. WaitingInv'
  <2>1. \A o \in Ids : (Waiting(o)' => Waiting(o)) /\ (Waiting(o) => o # IdOf(r))
    BY <1>1, <1>2, <1>3 DEF Waiting, WaitingInv
  <2>2. \A o \in Ids \ {IdOf(r)} : Replied(o)' => Replied(o)
    BY <1>1, ChannelTypes DEF Emit, Reply, Replied
  <2>3. \A o \in Ids \ {IdOf(r)} : ~o.auto => o.req \in Requests \ {r}
    BY IdFacts
  <2>4. QED
    BY <1>1, <1>4, <2>1, <2>2, <2>3 DEF WaitingInv
<1>9. ParentInv'
  <2>1. call[r] # "none"
    BY <1>3 DEF ParentInv
  <2>2. QED
    BY <1>1, <1>3, <1>4, <2>1 DEF ParentInv, Emitting
<1>10. ExitInv'
  BY <1>1, <1>3 DEF ExitInv
<1>11. QED
  BY <1>5, <1>6, <1>7, <1>8, <1>9, <1>10

\* The first message of the channel is received.
LEMMA MessageReceived ==
    ASSUME TunnelInv, toParent # <<>>, toParent' = Tail(toParent)
    PROVE  LET m == Head(toParent)
           IN  /\ m \in Message /\ m.id \in requests /\ ~Waiting(m.id)
               /\ m.id.auto => m.type \in {"value", "error"}
               /\ m.type \in Final /\ ~m.id.auto => ~Emitting(m.id.req)
               /\ m.type \in Final => \A i \in 1..Len(toParent') : toParent'[i].id # m.id
               /\ m.type = "subscribe" => call[m.id.req] = "sent"
               /\ toParent' \in Seq(Message)
               /\ \A id \in Ids : Replied(id)' => Replied(id)
               /\ \A i \in 1..Len(toParent') :
                    toParent'[i].type = "subscribe" => toParent'[i].id # m.id
<1> USE DEF TunnelInv
<1> DEFINE k == Len(toParent)
           m == Head(toParent)
<1>1. toParent \in Seq(Message) /\ k \in Nat \ {0}
  BY ChannelTypes, EmptySeq
<1>2. m = toParent[1] /\ m \in Message /\ toParent' \in Seq(Message) /\ 1 \in 1..k
  BY <1>1
<1>3. Len(toParent') = k - 1 /\ \A i \in 1..(k - 1) : toParent'[i] = toParent[i + 1]
  BY <1>1, HeadTailProperties
<1>4. \A i \in 1..(k - 1) : i + 1 \in 2..k /\ i + 1 \in 1..k /\ 1 \in 1..((i + 1) - 1)
  BY <1>1
<1>5. m.id \in Ids
  BY <1>2 DEF Message
<1>6. ~Waiting(m.id)
  BY <1>2, <1>5 DEF WaitingInv, Replied
<1>7. /\ m.id \in requests
      /\ m.id.auto => m.type \in {"value", "error"}
      /\ m.type \in Final /\ ~m.id.auto => ~Emitting(m.id.req)
      /\ m.type \in Final => \A j \in (1 + 1)..k : toParent[j].id # m.id
      /\ m.type = "subscribe" => call[m.id.req] = "sent"
  BY <1>2 DEF MessageInv
<1>8. \A i \in 1..k : toParent[i].type = "subscribe" =>
        \A j \in 1..(i - 1) : toParent[j].id # toParent[i].id
  BY DEF MessageInv
<1>9. \A id \in Ids : Replied(id)' => Replied(id)
  BY <1>3, <1>4 DEF Replied
<1> HIDE DEF m, k
<1>10. \A i \in 1..(k - 1) : toParent'[i].type = "subscribe" => toParent'[i].id # m.id
  BY <1>2, <1>3, <1>4, <1>8
<1>11. m.type \in Final => \A i \in 1..(k - 1) : toParent'[i].id # m.id
  BY <1>3, <1>4, <1>7
<1>12. QED
  BY <1>2, <1>3, <1>6, <1>7, <1>9, <1>10, <1>11 DEF m

LEMMA MessagesRemain ==
    ASSUME TunnelInv, toParent # <<>>, toParent' = Tail(toParent), source' = source,
           \A i \in 1..Len(toParent') : toParent'[i].id \in requests',
           Head(toParent).id.auto => call' = call,
           \A r \in Requests \ {Head(toParent).id.req} : call'[r] = call[r]
    PROVE  MessageInv'
<1> USE DEF TunnelInv
<1> DEFINE k == Len(toParent)
           m == Head(toParent)
<1>1. toParent \in Seq(Message) /\ k \in Nat \ {0}
  BY ChannelTypes, EmptySeq
<1>2. Len(toParent') = k - 1 /\ \A i \in 1..(k - 1) : toParent'[i] = toParent[i + 1]
  BY <1>1, HeadTailProperties
<1>3. m.id \in Ids /\ \A i \in 1..(k - 1) : toParent'[i].type = "subscribe" => toParent'[i].id # m.id
  BY <1>2, MessageReceived DEF Message
<1>4. ASSUME NEW i \in 1..k
      PROVE  /\ toParent[i].id \in Ids
             /\ toParent[i].id.auto => toParent[i].type \in {"value", "error"}
             /\ toParent[i].type \in Final =>
                  /\ ~toParent[i].id.auto => source[toParent[i].id.req] \notin Emits
                  /\ \A j \in (i + 1)..k : toParent[j].id # toParent[i].id
             /\ toParent[i].type = "subscribe" =>
                  /\ call[toParent[i].id.req] = "sent"
                  /\ \A j \in 1..(i - 1) : toParent[j].id # toParent[i].id
  BY ChannelTypes DEF MessageInv, Emitting
<1> HIDE DEF k, m
<1>5. ASSUME NEW i \in 1..(k - 1)
      PROVE  /\ toParent'[i].id.auto => toParent'[i].type \in {"value", "error"}
             /\ toParent'[i].type \in Final =>
                  /\ ~toParent'[i].id.auto => source'[toParent'[i].id.req] \notin Emits
                  /\ \A j \in (i + 1)..(k - 1) : toParent'[j].id # toParent'[i].id
             /\ toParent'[i].type = "subscribe" =>
                  /\ call'[toParent'[i].id.req] = "sent"
                  /\ \A j \in 1..(i - 1) : toParent'[j].id # toParent'[i].id
  <2>1. i + 1 \in 1..k /\ toParent'[i] = toParent[i + 1]
    BY <1>1, <1>2
  <2>2. \A j \in (i + 1)..(k - 1) : j \in 1..(k - 1) /\ j + 1 \in ((i + 1) + 1)..k
    BY <1>1
  <2>3. \A j \in 1..(i - 1) : j \in 1..(k - 1) /\ j + 1 \in 1..((i + 1) - 1)
    BY <1>1
  <2>4. ASSUME toParent'[i].type = "subscribe" PROVE call'[toParent'[i].id.req] = "sent"
    <3> DEFINE e == toParent[i + 1]
    <3>a. /\ e.id \in Ids
          /\ e.id.auto => e.type \in {"value", "error"}
          /\ e.type = "subscribe" => call[e.id.req] = "sent"
      BY <1>4, <2>1
    <3>b. e.type = "subscribe" /\ e.id # m.id
      BY <1>3, <2>1, <2>4
    <3>1. ~e.id.auto /\ e.id \in Ids /\ call[e.id.req] = "sent"
      BY <3>a, <3>b
    <3> HIDE DEF e
    <3>2. e.id.req \in Requests /\ (m.id.auto \/ e.id.req # m.id.req)
      BY <1>3, <3>b, <3>1, IdFacts
    <3>3. call'[e.id.req] = "sent"
      BY <3>1, <3>2 DEF m
    <3>4. QED
      BY <2>1, <3>3 DEF e
  <2>5. toParent'[i].type \in Final =>
          \A j \in (i + 1)..(k - 1) : toParent'[j].id # toParent'[i].id
    <3>1. toParent[i + 1].type \in Final =>
            \A j \in ((i + 1) + 1)..k : toParent[j].id # toParent[i + 1].id
      BY <1>4, <2>1
    <3>2. QED
      BY <1>2, <2>1, <2>2, <3>1
  <2>6. toParent'[i].type = "subscribe" =>
          \A j \in 1..(i - 1) : toParent'[j].id # toParent'[i].id
    <3>1. toParent[i + 1].type = "subscribe" =>
            \A j \in 1..((i + 1) - 1) : toParent[j].id # toParent[i + 1].id
      BY <1>4, <2>1
    <3>2. QED
      BY <1>2, <2>1, <2>3, <3>1
  <2>7. QED
    BY <1>4, <2>1, <2>4, <2>5, <2>6
<1>6. QED
  BY <1>2, <1>5 DEF MessageInv, Emitting

LEMMA ReceiveReplyStep ==
    ASSUME TunnelInv, ReceiveReply
    PROVE  TunnelInv'
<1> USE DEF TunnelInv
<1> DEFINE m == Head(toParent)
           id == m.id
<1>1. /\ toParent # <<>> /\ toParent' = Tail(toParent) /\ m.type \in {"value", "error"}
      /\ requests' = requests \ {id}
      /\ \/ id.auto /\ call' = call
         \/ \E o \in {"resolved", "rejected"} : ~id.auto /\ call' = [call EXCEPT ![id.req] = o]
      /\ UNCHANGED <<kind, target, response, got, streams, tunnel, up, running, source, made, toHost>>
  BY DEF ReceiveReply, Settles, hostVars
<1>2. /\ m \in Message /\ id \in requests /\ ~Waiting(id) /\ toParent' \in Seq(Message)
      /\ ~id.auto => ~Emitting(id.req)
      /\ \A i \in 1..Len(toParent') : toParent'[i].id # id
      /\ \A o \in Ids : Replied(o)' => Replied(o)
  BY <1>1, MessageReceived DEF Final
<1>3. id \in Ids /\ id.req \in Requests
  BY <1>2, IdFacts DEF Message
<1> HIDE DEF m, id
<1>4. /\ call' \in [Requests -> {"none", "sent", "resolved", "rejected"}]
      /\ \A r \in Requests \ {id.req} : call'[r] = call[r]
      /\ ~id.auto => call'[id.req] \in {"resolved", "rejected"}
      /\ id.auto => call' = call
  <2>1. CASE id.auto /\ call' = call
    BY <2>1 DEF TypeOK
  <2>2. ASSUME NEW o \in {"resolved", "rejected"}, ~id.auto, call' = [call EXCEPT ![id.req] = o]
        PROVE  /\ call' \in [Requests -> {"none", "sent", "resolved", "rejected"}]
               /\ \A r \in Requests \ {id.req} : call'[r] = call[r]
               /\ call'[id.req] = o
    BY <1>3, <2>2 DEF TypeOK
  <2>3. QED
    BY <1>1, <2>1, <2>2
<1>5. TypeOK'
  BY <1>1, <1>2, <1>4 DEF TypeOK, Message
<1>6. MessageInv'
  <2>1. \A i \in 1..Len(toParent) : toParent[i].id \in requests
    BY DEF MessageInv
  <2>2. toParent \in Seq(Message)
    BY ChannelTypes
  <2>3. \A i \in 1..Len(toParent') : toParent'[i].id \in requests
    BY <1>1, <2>1, <2>2
  <2>4. \A i \in 1..Len(toParent') : toParent'[i].id \in requests'
    BY <1>1, <1>2, <2>3
  <2>5. QED
    BY <1>1, <1>4, <2>4, MessagesRemain DEF m, id
<1>7. WaitingInv'
  <2>1. \A o \in Ids : Waiting(o)' <=> Waiting(o)
    BY <1>1 DEF Waiting
  <2>2. \A o \in Ids : Waiting(o) => o # id
    BY <1>2
  <2>3. \A o \in Ids : ~o.auto /\ o # id /\ call[o.req] = "sent" => call'[o.req] = "sent"
    BY <1>3, <1>4, IdFacts
  <2>4. QED
    BY <1>1, <1>2, <2>1, <2>2, <2>3 DEF WaitingInv
<1>8. ParentInv'
  <2>1. ~id.auto => id = IdOf(id.req)
    BY <1>3, IdFacts
  <2>2. \A r \in Requests : Emitting(r) => IdOf(r) # id
    BY <1>2, IdFacts
  <2>3. \A r \in Requests : call'[r] \in {"none", "sent"} => call'[r] = call[r]
    BY <1>3, <1>4
  <2>4. QED
    BY <1>1, <2>2, <2>3 DEF ParentInv, Emitting
<1>9. ExitInv'
  <2>1. tunnel
    BY <1>1 DEF ExitInv
  <2>2. QED
    BY <1>1, <2>1 DEF ExitInv
<1>10. RelaysExactly'
  <2>1. m.type \notin Messages
    BY <1>1 DEF Messages
  <2>2. ASSUME NEW r \in Requests PROVE Relayed(r)'
    <3>1. Relayed(r)
      BY DEF RelaysExactly, Relayed
    <3>2. got'[r] = got[r] /\ ~Mine(r, m) /\ response'[r] = response[r]
      BY <1>1, <2>1 DEF Mine
    <3>3. QED
      BY <1>1, <3>1, <3>2, ReceiveRelays DEF m
  <2>3. QED
    BY <2>2 DEF RelaysExactly, Relayed
<1>11. QED
  BY <1>5, <1>6, <1>7, <1>8, <1>9, <1>10

LEMMA ReceiveStreamStep ==
    ASSUME TunnelInv, ReceiveStream
    PROVE  TunnelInv'
<1> USE DEF TunnelInv
<1> DEFINE m == Head(toParent)
           r == m.id.req
<1>1. /\ toParent # <<>> /\ toParent' = Tail(toParent) /\ m.type \notin {"value", "error"}
      /\ call' = [call EXCEPT ![r] = "resolved"]
      /\ streams' = IF Tracked(r, m.type) THEN streams \cup {r} ELSE streams
      /\ response' = [response EXCEPT ![r] = AfterMessage(response[r], m.type)]
      /\ requests' = IF m.type = "fin" THEN requests \ {IdOf(r)} ELSE requests
      /\ got' = [got EXCEPT ![r] = IF m.type = "fin" THEN got[r] ELSE Given(r, m.type)]
      /\ UNCHANGED <<kind, target, tunnel, up, running, source, made, toHost>>
  BY DEF ReceiveStream, Settles, hostVars
<1>2. /\ m \in Message /\ m.id \in requests /\ ~Waiting(m.id) /\ toParent' \in Seq(Message)
      /\ ~m.id.auto
      /\ m.type = "fin" => ~Emitting(r)
      /\ m.type = "fin" => \A i \in 1..Len(toParent') : toParent'[i].id # m.id
      /\ m.type = "subscribe" => call[r] = "sent"
      /\ \A o \in Ids : Replied(o)' => Replied(o)
  BY <1>1, MessageReceived DEF Final
<1>3. m.id \in Ids /\ r \in Requests /\ m.id = IdOf(r) /\ m.type \in Messages
  BY <1>1, <1>2, IdFacts DEF Message
<1>4. Mine(r, m) /\ \A q \in Requests \ {r} : ~Mine(q, m)
  BY <1>3, IdFacts DEF Mine
<1>5. tunnel
  BY <1>1 DEF ExitInv
<1> HIDE DEF m, r
<1>6. /\ call' \in [Requests -> {"none", "sent", "resolved", "rejected"}]
      /\ call'[r] = "resolved" /\ \A q \in Requests \ {r} : call'[q] = call[q]
  BY <1>1, <1>3 DEF TypeOK
<1>7. /\ response' \in [Requests -> {"none", "open", "ended", "closed"}]
      /\ \A q \in Requests \ {r} : response'[q] = response[q]
      /\ response'[r] = IF response[r] \notin {"none", "open"} THEN response[r]
                        ELSE IF m.type = "fin" THEN "ended" ELSE "open"
  <2>1. AfterMessage(response[r], m.type) \in {"none", "open", "ended", "closed"}
    BY <1>3 DEF AfterMessage, TypeOK
  <2>2. response \in [Requests -> {"none", "open", "ended", "closed"}]
    BY DEF TypeOK
  <2>3. QED
    BY <1>1, <1>3, <2>1, <2>2 DEF AfterMessage
<1>8. /\ got' \in [Requests -> Seq(Messages)]
      /\ \A q \in Requests \ {r} : got'[q] = got[q]
      /\ \/ got'[r] = got[r] /\ response'[r] \notin {"none", "open"}
         \/ /\ response[r] \in {"none", "open"} /\ m.type # "fin"
            /\ got'[r] = Append(got[r], m.type)
  <2> DEFINE g == IF m.type = "fin" THEN got[r] ELSE Given(r, m.type)
  <2>1. got \in [Requests -> Seq(Messages)] /\ got' = [got EXCEPT ![r] = g]
    BY <1>1 DEF TypeOK
  <2>2. g \in Seq(Messages)
    BY <1>3, <2>1 DEF Given
  <2>3. \/ g = got[r] /\ response'[r] \notin {"none", "open"}
        \/ response[r] \in {"none", "open"} /\ m.type # "fin" /\ g = Append(got[r], m.type)
    BY <1>7 DEF Given
  <2> HIDE DEF g
  <2>4. QED
    BY <1>3, <2>1, <2>2, <2>3
<1>9. Tracked(r, m.type) <=> m.type = "subscribe"
  BY <1>2 DEF Tracked, r
<1>10. m.type = "subscribe" => response[r] = "none"
  BY <1>2, <1>3 DEF ParentInv, r
<1>11. /\ streams' \subseteq Requests /\ requests' \subseteq Ids
       /\ \A q \in streams' : response'[q] \in {"open", "ended"} /\ tunnel'
  <2>1. \A q \in streams : response[q] \in {"open", "ended"}
    BY DEF TypeOK
  <2>2. \A q \in streams' : q \in streams \/ (q = r /\ m.type = "subscribe")
    BY <1>1, <1>9
  <2>3. \A q \in streams' : response'[q] \in {"open", "ended"}
    BY <1>3, <1>7, <1>10, <2>1, <2>2 DEF TypeOK
  <2>4. QED
    BY <1>1, <1>3, <1>5, <2>3 DEF TypeOK
<1>12. TypeOK'
  BY <1>1, <1>2, <1>6, <1>7, <1>8, <1>11 DEF TypeOK, Message
<1>13. MessageInv'
  <2>1. \A i \in 1..Len(toParent) : toParent[i].id \in requests
    BY DEF MessageInv
  <2>2. toParent \in Seq(Message)
    BY ChannelTypes
  <2>3. \A i \in 1..Len(toParent') : toParent'[i].id \in requests
    BY <1>1, <2>1, <2>2
  <2>4. \A i \in 1..Len(toParent') : toParent'[i].id \in requests'
    BY <1>1, <1>2, <1>3, <2>3
  <2>5. QED
    BY <1>1, <1>2, <1>6, <2>4, MessagesRemain DEF m, r
<1>14. WaitingInv'
  <2>1. \A o \in Ids : Waiting(o)' <=> Waiting(o)
    BY <1>1 DEF Waiting
  <2>2. \A o \in Ids : Waiting(o) => o # IdOf(r)
    BY <1>2, <1>3
  <2>3. \A o \in Ids : ~o.auto /\ o # IdOf(r) /\ call[o.req] = "sent" => call'[o.req] = "sent"
    BY <1>3, <1>6, IdFacts
  <2>4. QED
    BY <1>1, <1>2, <2>1, <2>2, <2>3 DEF WaitingInv
<1>15. ParentInv'
  <2>1. \A q \in Requests : /\ AutoId(q) \in requests' => AutoId(q) \in requests
                            /\ IdOf(q) \in requests' => IdOf(q) \in requests
                            /\ Emitting(q) /\ IdOf(q) \in requests => IdOf(q) \in requests'
    BY <1>1, <1>2, <1>3, IdFacts DEF r
  <2>2. \A q \in Requests : response[q] = "closed" => response'[q] = "closed"
    BY <1>3, <1>7
  <2>3. \A q \in Requests : call'[q] \in {"none", "sent"} => q # r
    BY <1>6
  <2>4. QED
    BY <1>1, <1>6, <1>7, <2>1, <2>2, <2>3 DEF ParentInv, Emitting
<1>16. ExitInv'
  <2>1. ASSUME NEW q \in Requests, NEW i \in 1..Len(got'[q]), got'[q][i] = "subscribe",
               response'[q] \in {"none", "open"}
        PROVE  q \in streams'
    <3>1. CASE q # r
      BY <1>1, <1>7, <1>8, <2>1, <3>1 DEF ExitInv
    <3>2. CASE q = r /\ m.type = "subscribe"
      BY <1>1, <1>9, <3>2
    <3>3. CASE q = r /\ m.type # "subscribe"
      <4>1. response[r] \in {"none", "open"} /\ got'[r] = Append(got[r], m.type)
        BY <1>8, <2>1, <3>3
      <4>2. got[r] \in Seq(Messages)
        BY <1>3 DEF TypeOK
      <4>3. i \in 1..Len(got[r]) /\ got[r][i] = "subscribe"
        BY <1>3, <2>1, <3>3, <4>1, <4>2
      <4>4. QED
        BY <1>1, <1>3, <3>3, <4>1, <4>3 DEF ExitInv
    <3>4. QED
      BY <3>1, <3>2, <3>3
  <2>2. QED
    BY <1>1, <1>5, <2>1 DEF ExitInv
<1>17. RelaysExactly'
  <2>1. ASSUME NEW q \in Requests PROVE Relayed(q)'
    <3>1. Relayed(q)
      BY DEF RelaysExactly, Relayed
    <3>2. response'[q] \in {"none", "open"} => response[q] \in {"none", "open"}
      BY <1>3, <1>7
    <3>3. \/ got'[q] = got[q] /\ ~Mine(q, m)
          \/ got'[q] = got[q] /\ response'[q] \notin {"none", "open"}
          \/ /\ Mine(q, m) /\ response[q] \in {"none", "open"}
             /\ got'[q] = Append(got[q], m.type)
      BY <1>4, <1>8
    <3>4. QED
      BY <1>1, <3>1, <3>2, <3>3, ReceiveRelays DEF m
  <2>2. QED
    BY <2>1 DEF RelaysExactly, Relayed
<1>18. QED
  BY <1>12, <1>13, <1>14, <1>15, <1>16, <1>17

LEMMA OtherSteps ==
    ASSUME TunnelInv,
           \/ \E r \in Requests : ConsumerEnds(r) \/ StreamEnds(r)
           \/ HostExits \/ HostExited \/ UNCHANGED vars
    PROVE  TunnelInv'
<1> USE DEF TunnelInv
<1>1. CASE UNCHANGED vars
  <2>1. UNCHANGED <<call, requests, response, got, streams, tunnel, up, running, source, made, toHost,
                    toParent>>
    BY <1>1 DEF vars, parentVars, hostVars
  <2>2. TypeOK'
    BY <1>1 DEF vars, parentVars, hostVars, TypeOK
  <2>3. WaitingInv' /\ MessageInv'
    BY <2>1 DEF WaitingInv, MessageInv, Waiting, Replied, Emitting
  <2>4. ParentInv' /\ ExitInv' /\ RelaysExactly'
    BY <2>1 DEF ParentInv, ExitInv, RelaysExactly, Emitting
  <2>5. QED
    BY <2>2, <2>3, <2>4
<1>2. ASSUME NEW r \in Requests, ConsumerEnds(r) PROVE TunnelInv'
  <2>1. /\ response[r] = "open" /\ response' = [response EXCEPT ![r] = "ended"]
        /\ UNCHANGED <<kind, target, call, requests, got, streams, tunnel, hostVars, toHost, toParent>>
    BY <1>2 DEF ConsumerEnds
  <2>2. response'[r] = "ended" /\ \A q \in Requests \ {r} : response'[q] = response[q]
    BY <2>1 DEF TypeOK
  <2>3. TypeOK'
    BY <2>1, <2>2 DEF hostVars, TypeOK
  <2>4. WaitingInv' /\ MessageInv'
    BY <2>1 DEF hostVars, WaitingInv, MessageInv, Waiting, Replied, Emitting
  <2>5. ParentInv' /\ ExitInv'
    BY <2>1, <2>2 DEF hostVars, ParentInv, ExitInv, Emitting
  <2>6. RelaysExactly'
    BY <2>1, <2>2 DEF hostVars, RelaysExactly
  <2>7. QED
    BY <2>3, <2>4, <2>5, <2>6
<1>3. ASSUME NEW r \in Requests, StreamEnds(r) PROVE TunnelInv'
  <2>1. /\ source[r] = "live" /\ source' = [source EXCEPT ![r] = "ending"]
        /\ UNCHANGED <<parentVars, up, running, made, toHost, toParent>>
    BY <1>3 DEF StreamEnds
  <2>2. /\ source' \in [Requests -> {"none", "live", "unsubscribed", "ending", "ended", "failed"}]
        /\ \A q \in Requests : /\ Emitting(q)' <=> Emitting(q)
                               /\ source'[q] = "none" <=> source[q] = "none"
    BY <2>1 DEF TypeOK, Emitting, Emits
  <2>3. TypeOK'
    BY <2>1, <2>2 DEF parentVars, TypeOK
  <2>4. WaitingInv'
    BY <2>1, <2>2, IdFacts DEF parentVars, WaitingInv, Waiting, Replied
  <2>5. MessageInv'
    <3>1. \A i \in 1..Len(toParent) : toParent[i].id.req \in Requests
      BY ChannelTypes, IdFacts
    <3>2. QED
      BY <2>1, <2>2, <3>1 DEF parentVars, MessageInv
  <2>6. ParentInv' /\ ExitInv' /\ RelaysExactly'
    BY <2>1, <2>2 DEF parentVars, ParentInv, ExitInv, RelaysExactly
  <2>7. QED
    BY <2>3, <2>4, <2>5, <2>6
<1>4. CASE HostExits
  <2>1. /\ up' = FALSE /\ running' = {} /\ toHost' = <<>>
        /\ UNCHANGED <<parentVars, source, made, toParent>>
    BY <1>4 DEF HostExits
  <2>2. toHost' \in Seq(Ids) /\ Len(toHost') = 0 /\ \A o \in Ids : ~Waiting(o)'
    BY <2>1 DEF Waiting
  <2>3. TypeOK'
    BY <2>1, <2>2 DEF parentVars, TypeOK
  <2>4. WaitingInv'
    BY <2>1, <2>2 DEF WaitingInv
  <2>5. MessageInv' /\ ParentInv' /\ ExitInv' /\ RelaysExactly'
    BY <2>1 DEF parentVars, MessageInv, ParentInv, ExitInv, RelaysExactly, Emitting
  <2>6. QED
    BY <2>3, <2>4, <2>5
<1>5. CASE HostExited
  <2>1. /\ ~up /\ toParent = <<>> /\ tunnel' = FALSE /\ streams' = {}
        /\ response' = [r \in Requests |-> IF r \in streams /\ response[r] = "open"
                                           THEN "ended" ELSE response[r]]
        /\ UNCHANGED <<kind, target, call, requests, got, hostVars, toHost, toParent>>
    BY <1>5 DEF HostExited
  <2>2. /\ response' \in [Requests -> {"none", "open", "ended", "closed"}]
        /\ \A r \in Requests : /\ response'[r] = "open" => response[r] = "open" /\ r \notin streams
                               /\ response'[r] = "none" <=> response[r] = "none"
                               /\ response'[r] = "closed" <=> response[r] = "closed"
    BY <2>1 DEF TypeOK
  <2>3. TypeOK'
    BY <2>1, <2>2 DEF hostVars, TypeOK
  <2>4. WaitingInv' /\ MessageInv'
    BY <2>1 DEF hostVars, WaitingInv, MessageInv, Waiting, Replied, Emitting
  <2>5. ParentInv'
    BY <2>1, <2>2 DEF hostVars, ParentInv, Emitting
  <2>6. ExitInv'
    <3>1. \A r \in Requests :
            response'[r] \in {"none", "open"} => response[r] \in {"none", "open"} /\ r \notin streams
      BY <2>1, <2>2 DEF TypeOK
    <3>2. \A r \in Requests : (\E i \in 1..Len(got'[r]) : got'[r][i] = "subscribe") =>
            response'[r] \notin {"none", "open"}
      BY <2>1, <3>1 DEF ExitInv
    <3>3. ~tunnel' => ~up' /\ toParent' = <<>>
      BY <2>1 DEF hostVars
    <3>4. QED
      BY <3>2, <3>3 DEF ExitInv
  <2>7. RelaysExactly'
    BY <2>1, <2>2 DEF hostVars, RelaysExactly
  <2>8. QED
    BY <2>3, <2>4, <2>5, <2>6, <2>7
<1>6. QED
  BY <1>1, <1>2, <1>3, <1>4, <1>5

-------------------------------------------------------------------------------
\* What the two ends of the tunnel remember of a request agrees with what is on its way:
\* every event of a stream reaches the consumer once and in order, every message finds
\* its request, and the exit of the host leaves no subscription that looks alive; for
\* any number of requests, whoever ends a stream, and whenever the host exits.
THEOREM TunnelCorrect ==
    Spec => []TunnelIsFaithful
<1>1. Init => TunnelInv
  <2> SUFFICES ASSUME Init PROVE TunnelInv
    OBVIOUS
  <2>1. TypeOK
    BY DEF Init, TypeOK
  <2>2. \A r \in Requests : Among(toParent, r, Len(toParent)) = 0
    <3>1. Len(toParent) = 0 /\ 1..0 = {}
      BY DEF Init
    <3>2. \A r \in Requests : {i \in 1..Len(toParent) : Mine(r, toParent[i])} = {}
      BY <3>1
    <3>3. QED
      BY <3>2, FS_EmptySet DEF Among
  <2>3. RelaysExactly
    BY <2>2 DEF Init, RelaysExactly
  <2>4. ParentInv /\ WaitingInv /\ MessageInv /\ ExitInv
    BY DEF Init, ParentInv, WaitingInv, MessageInv, ExitInv, Waiting, Emitting, Emits
  <2>5. QED
    BY <2>1, <2>3, <2>4 DEF TunnelInv
<1>2. TunnelInv /\ [Next]_vars => TunnelInv'
  <2> SUFFICES ASSUME TunnelInv, [Next]_vars PROVE TunnelInv'
    OBVIOUS
  <2>1. ASSUME NEW r \in Requests, HostStep(r) PROVE TunnelInv'
    BY <2>1, IdFacts, HostAnswersStep, StreamStartsStep, StreamGoesOnStep, OtherSteps DEF HostStep
  <2>2. ASSUME NEW r \in Requests, Dispatch(r) \/ ConsumerEnds(r) \/ ResponseEnd(r)
        PROVE  TunnelInv'
    BY <2>2, DispatchStep, ResponseEndStep, OtherSteps
  <2>3. CASE HostTakes \/ HostExits \/ ParentReceives \/ UNCHANGED vars
    BY <2>3, HostTakesStep, ReceiveReplyStep, ReceiveStreamStep, OtherSteps DEF ParentReceives
  <2>4. QED
    BY <2>1, <2>2, <2>3 DEF Next
<1>3. TunnelInv => TunnelIsFaithful
  <2> SUFFICES ASSUME TunnelInv PROVE TunnelIsFaithful
    OBVIOUS
  <2>1. RepliesFindRequests
    BY DEF TunnelInv, MessageInv, RepliesFindRequests
  <2>2. ExitClosesSubscriptions
    BY DEF TunnelInv, TypeOK, ExitInv, ExitClosesSubscriptions, Types
  <2>3. QED
    BY <2>1, <2>2 DEF TunnelInv, TunnelIsFaithful
<1>4. QED
  BY <1>1, <1>2, <1>3, PTL DEF Spec
=============================================================================
