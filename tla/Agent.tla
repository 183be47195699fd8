---------------------------------- MODULE Agent ----------------------------------
(***************************************************************************)
(* The agent that polls statistics of the process: Agent and Collection    *)
(* (packages/appcd-agent/src/agent.js, collection.js).  Time is counted in *)
(* steps shorter than the poll interval, and a timer may be late.          *)
(***************************************************************************)
EXTENDS Integers, Sequences, SequencesExt

CONSTANTS
    Own,          \* a statistic that the agent always has, such as cpu
    Collectors,   \* what the collectors may add: sets of names, or {"throws"}
    Values,       \* what they are measured in
    PollInterval,
    Size,         \* how many values a collection keeps (900 in the code)
    MaxLate,      \* bound: how late a timer fires
    MaxTime       \* bound

AGAssumption ==
    /\ PollInterval \in Nat \ {0} /\ Size \in Nat \ {0} /\ MaxLate \in Nat /\ MaxTime \in Nat \ {0}
    /\ Values \subseteq Nat

VARIABLES
    now,
    timer,      \* when it fires, or 0
    polls,      \* how many polls await the collectors
    collectors, \* what the collectors return, or "throws"
    asked,      \* the collectors that the poll under way has called
    stamp,      \* lastTimestamp, 0 before the first poll
    buckets,    \* name -> its collection, and its last value
    calls       \* "started" and "stopped" after start() and stop(), "failed" after an error

agVars == <<now, timer, polls, collectors, asked, stamp, buckets, calls>>

Empty == [values |-> <<>>, at |-> <<>>, min |-> 0, max |-> 0, sum |-> 0]
SumOf(s) == FoldLeft(LAMBDA a, b : a + b, 0, s)
Least(a, b) == IF a < b THEN a ELSE b
Greatest(a, b) == IF a > b THEN a ELSE b
LastOf(s, n) == SubSeq(s, Greatest(1, Len(s) - n + 1), Len(s))

AGTypeOK ==
    /\ now \in 1..MaxTime /\ timer \in Nat
    /\ polls \in 0..1 /\ stamp \in 0..MaxTime
    /\ collectors \in Collectors /\ asked \in Collectors \cup {{}}
    /\ Own \in DOMAIN buckets \/ buckets = <<>>
    /\ calls \in {"none", "started", "stopped", "failed"}

Init ==
    /\ now = 1 /\ timer = 0 /\ polls = 0 /\ stamp = 0
    /\ collectors \in Collectors /\ asked = {}
    /\ buckets = <<>> /\ calls = "none"
-------------------------------------------------------------------------------
\* Mutant of Add: the average is taken over all that was ever added.
AddToAll(c, v, t) ==
    [values |-> LastOf(Append(c.values, v), Size), at |-> LastOf(Append(c.at, t), Size),
     sum |-> c.sum + v,
     min |-> IF c.values = <<>> THEN v ELSE Least(c.min, v),
     max |-> IF c.values = <<>> THEN v ELSE Greatest(c.max, v)]

\* Collection.add(), with the time that the value stands for: the ring forgets its
\* oldest value, min and max do not.
Add(c, v, t) ==
    LET values == LastOf(Append(c.values, v), Size)
    IN [values |-> values, at |-> LastOf(Append(c.at, t), Size), sum |-> SumOf(values),
        min |-> IF Len(values) = 1 THEN v ELSE Least(c.min, v),
        max |-> IF Len(values) = 1 THEN v ELSE Greatest(c.max, v)]

\* Mutant of Missed: the interval that is due does not count.
MissedBefore(delta) == (delta - PollInterval) \div PollInterval

\* The intervals since the last poll, the one that is due included.
Missed(delta) == (delta - PollInterval) \div PollInterval + 1

\* The intervals that were missed get values on the line from the last one to v.
Filled(b, v, delta) ==
    LET last   == IF b.values = <<>> THEN 0 ELSE Last(b.values)
        missed == Greatest(1, Missed(delta))
        fill[i \in 0..missed] ==
            IF i = 0 THEN b
            ELSE Add(fill[i-1], ((v - last) * i) \div missed + last,
                                now - delta + (delta * i) \div missed)
    IN fill[missed]

\* With no collectors to wait for, a poll is over before anything else happens.
Waits == polls > 0 => asked # {}

\* poll() calls the collectors there are; what is added or removed while it awaits
\* them does not count.
Begin == polls' = polls + 1 /\ asked' = collectors

\* start()
Start ==
    /\ calls = "none" /\ calls' = "started"
    /\ Begin
    /\ UNCHANGED <<now, timer, collectors, stamp, buckets>>

\* stop()
Stop ==
    /\ Waits
    /\ calls = "started" /\ calls' = "stopped" /\ timer' = 0
    /\ UNCHANGED <<now, polls, collectors, asked, stamp, buckets>>

Fire ==
    /\ Waits /\ timer # 0 /\ now >= timer
    /\ timer' = 0 /\ Begin
    /\ UNCHANGED <<now, collectors, stamp, buckets, calls>>

\* How long until the next poll
NextPoll(delta) == PollInterval - (delta % PollInterval)

\* poll(), once the collectors have answered; they agree on a value, for collections
\* do not depend on each other.
Poll ==
    LET delta  == IF stamp = 0 THEN 0 ELSE now - stamp
        names  == asked \cup {Own}
    IN /\ polls > 0 /\ asked # {"throws"}
       /\ polls' = polls - 1 /\ asked' = {}
       /\ stamp' = now
       /\ timer' = now + NextPoll(delta)
       /\ \E v \in Values :
            buckets' = [n \in names |->
              Filled(IF n \in DOMAIN buckets THEN buckets[n] ELSE Empty, v, delta)]
       /\ UNCHANGED <<now, collectors, calls>>

\* A collector throws: the error is emitted, and no timer is set.
PollFails ==
    /\ polls > 0 /\ asked = {"throws"}
    /\ polls' = polls - 1 /\ asked' = {}
    /\ calls' = IF calls = "started" THEN "failed" ELSE calls
    /\ UNCHANGED <<now, timer, collectors, stamp, buckets>>

\* addCollector(), removeCollector(), also while a poll awaits those before
SetCollectors(c) ==
    /\ Waits
    /\ collectors' = c
    /\ UNCHANGED <<now, timer, polls, asked, stamp, buckets, calls>>

Tick ==
    /\ now < MaxTime /\ now' = now + 1 /\ Waits
    /\ timer # 0 => now < timer + MaxLate
    /\ UNCHANGED <<timer, polls, collectors, asked, stamp, buckets, calls>>

\* The agent of the next process
Reset ==
    /\ now' = 1 /\ timer' = 0 /\ polls' = 0 /\ asked' = {} /\ stamp' = 0
    /\ buckets' = <<>> /\ calls' = "none"
    /\ UNCHANGED collectors

Next ==
    \/ Start \/ Stop \/ Fire \/ Poll \/ PollFails \/ Tick
    \/ \E c \in Collectors : SetCollectors(c)

Spec == Init /\ [][Next]_agVars
-------------------------------------------------------------------------------
\* A collection does not outgrow its ring, and its statistics describe what it holds.
CollectionsTrue ==
    \A n \in DOMAIN buckets :
      LET b == buckets[n]
      IN /\ Len(b.values) <= Size
         /\ b.sum = SumOf(b.values)
         /\ \A i \in 1..Len(b.values) : b.min <= b.values[i] /\ b.values[i] <= b.max

\* From start() to stop(), or to an error, a poll is under way or planned.  (A poll that
\* awaits its collectors when the agent is stopped polls on.)
PollsUntilStopped ==
    calls = "started" => timer # 0 \/ polls > 0

\* However late a poll is, the values of a collection are less than two intervals
\* apart: what was missed is filled in.
NoGaps ==
    \A n \in DOMAIN buckets :
      LET at == buckets[n].at
      IN \A i \in 1..Len(at)-1 : at[i] <= at[i+1] /\ at[i+1] - at[i] < 2 * PollInterval
=============================================================================
