-------------------------------- MODULE PubSub --------------------------------
(***************************************************************************)
(* What a service dispatcher promises its services and its subscribers,    *)
(* free of sids, descriptors, streams and callbacks: a topic has members,  *)
(* its data source runs exactly while it has some, and an event of the     *)
(* source reaches every member that has not hung up, and nobody else.      *)
(* (docs/Development/appcd/Architecture/Dispatcher.md, "it will track      *)
(* active subscriptions using a topic name so that multiple subscribers    *)
(* reuse the same data source".)                                           *)
(***************************************************************************)
EXTENDS Naturals

CONSTANTS Members, Topics, NoTopic

VARIABLES member,   \* the topic each member belongs to, NoTopic when it is out
          left,     \* those that were members and are no longer
          hungUp,   \* members that stopped listening but have not left yet
          active,   \* the topics whose data source is running
          received   \* how many events each member was handed

vars == <<member, left, hungUp, active, received>>

MembersOf(t) == {m \in Members : member[m] = t}

Init ==
    /\ member = [m \in Members |-> NoTopic]
    /\ left = {}
    /\ hungUp = {}
    /\ active = {}
    /\ received = [m \in Members |-> 0]

\* A newcomer may be greeted with one event of its own (the current state).
Join(m, t) ==
    /\ member[m] = NoTopic /\ m \notin left
    /\ member' = [member EXCEPT ![m] = t]
    /\ active' = active \cup {t}
    /\ \E greeting \in 0..1 : received' = [received EXCEPT ![m] = @ + greeting]
    /\ UNCHANGED <<left, hungUp>>

HangUp(m) ==
    /\ m \notin hungUp
    /\ hungUp' = hungUp \cup {m}
    /\ UNCHANGED <<member, left, active, received>>

\* The last member to leave a topic stops its source, in the same step.
Leave(m) ==
    /\ member[m] # NoTopic
    /\ member' = [member EXCEPT ![m] = NoTopic]
    /\ left' = left \cup {m}
    /\ hungUp' = hungUp \cup {m}
    /\ active' = IF MembersOf(member[m]) = {m} THEN active \ {member[m]} ELSE active
    /\ UNCHANGED received

Publish(t) ==
    /\ t \in active
    /\ received' = [m \in Members |-> IF member[m] = t /\ m \notin hungUp
                                      THEN received[m] + 1 ELSE received[m]]
    /\ UNCHANGED <<member, left, hungUp, active>>

Next ==
    \/ \E m \in Members, t \in Topics : Join(m, t)
    \/ \E m \in Members : HangUp(m) \/ Leave(m)
    \/ \E t \in Topics : Publish(t)

Spec == Init /\ [][Next]_vars
===============================================================================
