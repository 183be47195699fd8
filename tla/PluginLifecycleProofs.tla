-------------------------- MODULE PluginLifecycleProofs --------------------------
(***************************************************************************)
(* What holds of an external plugin that one caller at a time starts, for  *)
(* any number of callers of stop(), of reloads and of hosts, whatever      *)
(* fails: there is one host at most, info.state is true to it, and it is   *)
(* gone when a stop() returns.  Then, what holds of a plugin of either     *)
(* type that any number of callers start and nobody stops: one of them     *)
(* activates it, and whoever waited for that finds a tunnel.               *)
(***************************************************************************)
EXTENDS PluginLifecycle, FiniteSetTheorems, SequenceTheorems, TLAPS

-------------------------------------------------------------------------------
(***************************************************************************)
(* The channels of one host.                                               *)
(***************************************************************************)

\* What a channel holds once a message is put at its end.
LEMMA OneMore ==
    ASSUME NEW out \in Seq(Message), NEW m \in Message
    PROVE  /\ out \o <<m>> \in Seq(Message) /\ Len(out \o <<m>>) = Len(out) + 1
           /\ \A i \in 1..Len(out) : (out \o <<m>>)[i] = out[i]
           /\ (out \o <<m>>)[Len(out) + 1] = m /\ Len(out) \in Nat
<1>1. <<m>> \in Seq(Message) /\ Len(<<m>>) = 1 /\ <<m>>[1] = m /\ Len(out) \in Nat
  BY LenProperties
<1>2. /\ out \o <<m>> \in Seq(Message) /\ Len(out \o <<m>>) = Len(out) + 1
      /\ \A i \in 1..Len(out) + 1 : (out \o <<m>>)[i] = IF i <= Len(out) THEN out[i] ELSE <<m>>[i - Len(out)]
  BY <1>1, ConcatProperties
<1>3. QED
  BY <1>1, <1>2

\* A host that has not exited has sent neither 'exit' nor "deactivated", and one
\* more message of another type changes nothing of that.
LEMMA ChannelSend ==
    ASSUME NEW in \in Seq(Closers), NEW out \in Seq(Message), NEW process, NEW after,
           Channel(in, out, process), process # "exited",
           NEW m \in Message, m.type \notin {"exit", "deactivated"}
    PROVE  Channel(in, out \o <<m>>, after) /\ out \o <<m>> \in Seq(Message)
<1> DEFINE next == out \o <<m>>
<1>1. /\ next \in Seq(Message) /\ Len(next) = Len(out) + 1 /\ next[Len(out) + 1] = m
      /\ \A i \in 1..Len(out) : next[i] = out[i]
  BY OneMore
<1>2. \A i \in 1..Len(next) : next[i].type \notin {"exit", "deactivated"}
  BY <1>1, LenProperties DEF Channel
<1>3. QED
  BY <1>1, <1>2 DEF Channel

\* The last words of a host: one message of another type at most, then 'exit'.
LEMMA ChannelExit ==
    ASSUME NEW in \in Seq(Closers), NEW out \in Seq(Message), NEW process,
           Channel(in, out, process), process # "exited", NEW code \in {0, 1, 6}
    PROVE  Channel(in, out \o <<Exit(code)>>, "exited") /\ out \o <<Exit(code)>> \in Seq(Message)
<1> DEFINE next == out \o <<Exit(code)>>
<1>0. Exit(code) \in Message /\ Exit(code).type = "exit"
  BY DEF Exit, Message
<1>1. /\ next \in Seq(Message) /\ Len(next) = Len(out) + 1
      /\ next[Len(out) + 1] = Exit(code) /\ Len(out) \in Nat
      /\ \A i \in 1..Len(out) : next[i] = out[i]
  BY <1>0, OneMore
<1>2. \A i \in 1..Len(out) : next[i].type \notin {"exit", "deactivated"}
  BY <1>1 DEF Channel
<1>3. QED
  BY <1>0, <1>1, <1>2 DEF Channel

\* The host answers the first deactivate request, and exits.
LEMMA ChannelDeactivate ==
    ASSUME NEW in \in Seq(Closers), NEW out \in Seq(Message), NEW process,
           Channel(in, out, process), process # "exited", in # <<>>,
           NEW words \in Seq(Message), Len(words) = 2, words[2] = Exit(0),
           words[1].type = "deactivated", words[1].call = Head(in)
    PROVE  /\ Channel(Tail(in), out \o words, "exited")
           /\ out \o words \in Seq(Message) /\ Tail(in) \in Seq(Closers)
           /\ Len(out \o words) = Len(out) + 2
           /\ \A i \in 1..Len(out) : (out \o words)[i] = out[i] /\ out[i].type # "deactivated"
           /\ (out \o words)[Len(out) + 1] = words[1]
           /\ (out \o words)[Len(out) + 2] = Exit(0)
<1> DEFINE next == out \o words
<1>0. /\ Head(in) \in Closers /\ Tail(in) \in Seq(Closers) /\ Len(Tail(in)) = Len(in) - 1
      /\ \A i \in 1..Len(Tail(in)) : Tail(in)[i] = in[i + 1]
      /\ Head(in) = in[1] /\ Len(in) \in Nat \ {0} /\ Len(out) \in Nat
  BY HeadTailProperties, LenProperties, EmptySeq
<1>1. /\ words \in Seq(Message) /\ Len(words) = 2 /\ words[2] = Exit(0)
      /\ words[1].type = "deactivated" /\ words[1].call = Head(in) /\ words[2].type = "exit"
  BY <1>0 DEF Exit, Message
<1>2. /\ next \in Seq(Message) /\ Len(next) = Len(out) + 2
      /\ \A i \in 1..Len(out) + 2 : next[i] = IF i <= Len(out) THEN out[i] ELSE words[i - Len(out)]
  <2>1. /\ next \in Seq(Message) /\ Len(next) = Len(out) + Len(words)
        /\ \A i \in 1..Len(out) + Len(words) : next[i] = IF i <= Len(out) THEN out[i] ELSE words[i - Len(out)]
    BY ConcatProperties
  <2> HIDE DEF next
  <2>2. QED
    BY <2>1
<1>3. \A i \in 1..Len(out) : next[i] = out[i] /\ out[i].type \notin {"exit", "deactivated"}
  BY <1>0, <1>2 DEF Channel
<1>4. next[Len(out) + 1] = words[1] /\ next[Len(out) + 2] = words[2]
  BY <1>0, <1>2
<1>5. \A j \in 1..Len(Tail(in)) : Tail(in)[j] # Head(in)
  BY <1>0 DEF Channel
<1>6. \A i, j \in 1..Len(Tail(in)) : Tail(in)[i] = Tail(in)[j] => i = j
  BY <1>0 DEF Channel
<1>7. \A i \in 1..Len(next) : next[i].type = "exit" => i = Len(next)
  <2>1. Len(next) = Len(out) + 2 /\ words[1].type # "exit"
    BY <1>1, <1>2
  <2>2. \A i \in 1..Len(next) : i \in 1..Len(out) \/ i = Len(out) + 1 \/ i = Len(next)
    BY <1>0, <2>1
  <2>3. QED
    BY <1>3, <1>4, <2>1, <2>2
<1>8. \A i \in 1..Len(next) : next[i].type = "deactivated" => i = Len(out) + 1
  <2>1. Len(next) = Len(out) + 2 /\ words[2].type # "deactivated"
    BY <1>1, <1>2
  <2>2. \A i \in 1..Len(next) : i \in 1..Len(out) \/ i = Len(out) + 1 \/ i = Len(out) + 2
    BY <1>0, <2>1
  <2>3. QED
    BY <1>3, <1>4, <2>1, <2>2
<1>9. Channel(Tail(in), next, "exited")
  <2> HIDE DEF next
  <2>1. \A i \in 1..Len(next) : next[i].type = "deactivated" => next[i].call = Head(in)
    BY <1>1, <1>4, <1>8
  <2>2. \A i, j \in 1..Len(next) :
           next[i].type = "deactivated" /\ next[j].type = "deactivated" => i = j
    BY <1>0, <1>8
  <2>3. QED
    BY <1>5, <1>6, <1>7, <2>1, <2>2 DEF Channel
<1>10. QED
  BY <1>0, <1>1, <1>2, <1>3, <1>4, <1>9

\* The parent takes the next message: nothing follows an 'exit', and the answer to
\* a stop() was the only message for it.
LEMMA ChannelReceive ==
    ASSUME NEW in \in Seq(Closers), NEW out \in Seq(Message), NEW process,
           Channel(in, out, process), out # <<>>
    PROVE  /\ Channel(in, Tail(out), process) /\ Tail(out) \in Seq(Message)
           /\ Len(Tail(out)) = Len(out) - 1 /\ Head(out) = out[1] /\ Len(out) \in Nat \ {0}
           /\ \A i \in 1..Len(Tail(out)) : Tail(out)[i] = out[i + 1]
           /\ Head(out).type = "exit" => Tail(out) = <<>> /\ process = "exited"
           /\ Head(out).type = "deactivated" =>
                /\ Head(out).call \in Closers /\ process = "exited"
                /\ \A i \in 1..Len(in) : in[i] # Head(out).call
                /\ \A i \in 1..Len(Tail(out)) : Tail(out)[i].type # "deactivated"
<1>1. /\ Tail(out) \in Seq(Message) /\ Len(Tail(out)) = Len(out) - 1 /\ Head(out) = out[1]
      /\ \A i \in 1..Len(Tail(out)) : Tail(out)[i] = out[i + 1]
      /\ Len(out) \in Nat \ {0} /\ Head(out) \in Message
  BY HeadTailProperties, LenProperties, EmptySeq
<1>2. Head(out).type = "exit" => Tail(out) = <<>> /\ process = "exited"
  <2>1. 1 \in 1..Len(out)
    BY <1>1
  <2>2. Head(out).type = "exit" => 1 = Len(out) /\ process = "exited"
    BY <1>1, <2>1 DEF Channel
  <2>3. QED
    BY <1>1, <2>2, EmptySeq
<1>3. Head(out).type = "deactivated" => Head(out).call \in Closers
  BY <1>1 DEF Message
<1> DEFINE rest == Tail(out)
<1>4. \A i \in 1..Len(rest) : i + 1 \in 1..Len(out) /\ rest[i] = out[i + 1]
  BY <1>1
<1>5. 1 \in 1..Len(out) /\ Len(rest) + 1 = Len(out) /\ Len(rest) \in Nat
  BY <1>1
<1> HIDE DEF rest
<1>6. Head(out).type = "deactivated" =>
        /\ process = "exited"
        /\ \A i \in 1..Len(in) : in[i] # Head(out).call
        /\ \A i \in 1..Len(rest) : rest[i].type # "deactivated"
  <2> SUFFICES ASSUME out[1].type = "deactivated"
               PROVE  /\ process = "exited"
                      /\ \A i \in 1..Len(in) : in[i] # out[1].call
                      /\ \A i \in 1..Len(rest) : rest[i].type # "deactivated"
    BY <1>1
  <2>1. \A i \in 1..Len(rest) : i + 1 # 1
    BY <1>5
  <2>2. \A j \in 1..Len(out) : out[j].type = "deactivated" => 1 = j
    BY <1>5 DEF Channel
  <2>3. process = "exited" /\ \A i \in 1..Len(in) : in[i] # out[1].call
    BY <1>5 DEF Channel
  <2>4. QED
    BY <1>4, <2>1, <2>2, <2>3
<1>7. Channel(in, rest, process)
  <2>1. \A i \in 1..Len(rest) : rest[i].type = "exit" => i = Len(rest) /\ process = "exited"
    BY <1>4, <1>5 DEF Channel
  <2>2. \A i \in 1..Len(rest) : rest[i].type = "deactivated" =>
           process = "exited" /\ \A j \in 1..Len(in) : in[j] # rest[i].call
    BY <1>4 DEF Channel
  <2>3. \A i, j \in 1..Len(rest) :
           rest[i].type = "deactivated" /\ rest[j].type = "deactivated" => i = j
    <3>1. \A i, j \in 1..Len(rest) :
             rest[i].type = "deactivated" /\ rest[j].type = "deactivated" => i + 1 = j + 1
      BY <1>4 DEF Channel
    <3>2. QED
      BY <1>5, <3>1
  <2>4. QED
    BY <2>1, <2>2, <2>3 DEF Channel
<1>8. QED
  BY <1>1, <1>2, <1>3, <1>6, <1>7 DEF rest

\* stop() sends its request to a host that has not exited.
LEMMA ChannelRequest ==
    ASSUME NEW in \in Seq(Closers), NEW out \in Seq(Message), NEW process,
           Channel(in, out, process), process # "exited", NEW c \in Closers,
           \A i \in 1..Len(in) : in[i] # c
    PROVE  /\ Channel(Append(in, c), out, process) /\ Append(in, c) \in Seq(Closers)
           /\ Len(Append(in, c)) = Len(in) + 1 /\ Append(in, c)[Len(in) + 1] = c
           /\ \A i \in 1..Len(in) : Append(in, c)[i] = in[i]
<1>1. /\ Append(in, c) \in Seq(Closers) /\ Len(Append(in, c)) = Len(in) + 1
      /\ Append(in, c)[Len(in) + 1] = c /\ Len(in) \in Nat
      /\ \A i \in 1..Len(in) : Append(in, c)[i] = in[i]
  BY AppendProperties, LenProperties
<1>2. \A i, j \in 1..Len(Append(in, c)) : Append(in, c)[i] = Append(in, c)[j] => i = j
  BY <1>1 DEF Channel
<1>3. QED
  BY <1>1, <1>2 DEF Channel

-------------------------------------------------------------------------------
Inv == TypeOK /\ SerialInv

\* The kinds of places a call can be at.
Places == Idle \cup Launching \cup Waiting \cup {"stopping"}

\* A step that leaves the host and its channels alone, and every stop() that waits
\* for an answer, keeps what relates them.
LEMMA HostUntouched ==
    ASSUME Inv, UNCHANGED <<hostVars, tunnel, type>>,
           pc' \in [Calls -> Places],
           \A c \in Calls : pc'[c] \in Launching \cup {"waitStarted", "waitStopped"} => c \in Starters,
           \A c \in Closers : pc[c] = "stopping" => pc'[c] = "stopping",
           \A h \in Hosts : owner[h] # None => pc'[owner[h]] = "activating",
           state' \in {"STOPPED", "STARTING", "STARTED", "STOPPING"},
           error' \in BOOLEAN, watchers' \in BOOLEAN, leaked' \in BOOLEAN, timer' \in BOOLEAN,
           StartMatchesState',
           state' = "STOPPED" => tunnel = None,
           state' \in {"STARTED", "STOPPING"} => tunnel # None
    PROVE  Inv'
<1> USE DEF Inv, SerialInv
<1>1. \A h \in Hosts : \A i \in 1..Len(inbox[h]) : pc'[inbox[h][i]] = "stopping"
  <2> SUFFICES ASSUME NEW h \in Hosts, NEW i \in 1..Len(inbox[h]) PROVE pc'[inbox[h][i]] = "stopping"
    OBVIOUS
  <2>1. inbox[h] \in Seq(Closers) /\ pc[inbox[h][i]] = "stopping"
    BY DEF TypeOK
  <2>2. inbox[h][i] \in Closers
    BY <2>1, ElementOfSeq
  <2>3. QED
    BY <2>1, <2>2
<1>2. \A h \in Hosts : \A i \in 1..Len(outbox[h]) :
         outbox[h][i].type = "deactivated" => pc'[outbox[h][i].call] = "stopping"
  <2> SUFFICES ASSUME NEW h \in Hosts, NEW i \in 1..Len(outbox[h]), outbox[h][i].type = "deactivated"
               PROVE  pc'[outbox[h][i].call] = "stopping"
    OBVIOUS
  <2>1. outbox[h] \in Seq(Message) /\ pc[outbox[h][i].call] = "stopping"
    BY DEF TypeOK
  <2>2. outbox[h][i] \in Message
    BY <2>1, ElementOfSeq
  <2>3. outbox[h][i].call \in Closers
    BY <2>2 DEF Message
  <2>4. QED
    BY <2>1, <2>3
<1>3. TypeOK'
  BY <1>1, <1>2 DEF TypeOK, hostVars, Places
<1>4. HostMatchesTunnel'
  BY DEF HostMatchesTunnel, hostVars
<1>5. ChannelsAgree'
  BY DEF ChannelsAgree, hostVars
<1>6. QED
  BY <1>3, <1>4, <1>5

\* start() keeps the invariant: only the one caller starts, and it does when no host
\* is left.
LEMMA StartStep ==
    ASSUME NEW s, Starters = {s}, Inv, Start(s)
    PROVE  Inv'
<1> USE DEF Inv, SerialInv
<1>1. /\ s \in Calls /\ s \notin Closers /\ type = "external" /\ pc \in [Calls -> Places]
      /\ OnStart = "configuring" /\ pc[s] \in Idle
  BY PLAssumption DEF PLAssumption, Calls, TypeOK, Places, Start, OnStart
<1>2. \A h \in Hosts : owner[h] = None
  <2>1. \A h \in Hosts : owner[h] = None \/ owner[h] = s
    BY DEF TypeOK
  <2>2. QED
    BY <1>1, <2>1 DEF TypeOK, Idle
<1>3. \A p \in Places : pc' = [pc EXCEPT ![s] = p] =>
        /\ pc' \in [Calls -> Places]
        /\ \A c \in Closers : pc'[c] = pc[c]
        /\ \A c \in Calls : pc'[c] \in Launching \cup {"waitStarted", "waitStopped"} => c \in Starters
        /\ pc'[s] = p
  BY <1>1 DEF TypeOK
<1>4. CASE state = "STARTED"
  <2>1. pc' = [pc EXCEPT ![s] = "returned"] /\ state' = state
    BY <1>4 DEF Start
  <2>2. "returned" \in Places
    BY DEF Places, Idle
  <2>3. StartMatchesState'
    BY <1>3, <1>4, <2>1, <2>2 DEF StartMatchesState, Idle, Launching
  <2>4. QED
    BY <1>2, <1>3, <1>4, <2>1, <2>2, <2>3, HostUntouched DEF Start, TypeOK, HostMatchesTunnel, hostVars
<1>5. CASE state = "STARTING"
  BY <1>1, <1>5 DEF StartMatchesState, Idle, Launching
<1>6. CASE state = "STOPPING"
  <2>1. pc' = [pc EXCEPT ![s] = "waitStopped"] /\ state' = state
    BY <1>6 DEF Start
  <2>2. "waitStopped" \in Places
    BY DEF Places, Waiting
  <2>3. StartMatchesState'
    BY <1>3, <1>6, <2>1, <2>2 DEF StartMatchesState, Idle, Launching
  <2>4. QED
    BY <1>2, <1>3, <1>6, <2>1, <2>2, <2>3, HostUntouched DEF Start, TypeOK, HostMatchesTunnel, hostVars
<1>7. CASE state = "STOPPED"
  <2>1. pc' = [pc EXCEPT ![s] = "configuring"] /\ state' = "STARTING"
    BY <1>1, <1>7 DEF Start
  <2>2. "configuring" \in Places
    BY DEF Places, Launching
  <2>3. tunnel' = None
    BY <1>7 DEF Start, HostMatchesTunnel
  <2>4. StartMatchesState'
    BY <1>3, <2>1, <2>2, <2>3 DEF StartMatchesState, Idle, Launching
  <2>5. QED
    BY <1>2, <1>3, <1>7, <2>1, <2>2, <2>4, HostUntouched DEF Start, TypeOK, HostMatchesTunnel, hostVars
<1>8. QED
  BY <1>4, <1>5, <1>6, <1>7 DEF TypeOK

\* The watchers are opened before there is a tunnel.
LEMMA WatchStep ==
    ASSUME NEW s, Starters = {s}, Inv, WatchSources(s)
    PROVE  Inv'
<1> USE DEF Inv, SerialInv
<1>1. s \in Calls /\ s \notin Closers /\ pc \in [Calls -> Places] /\ pc[s] = "configuring"
  BY PLAssumption DEF PLAssumption, Calls, TypeOK, Places, WatchSources
<1>2. pc' = [pc EXCEPT ![s] = "spawning"] /\ state' = state /\ tunnel' = tunnel
  BY DEF WatchSources
<1>3. "spawning" \in Places
  BY DEF Places, Launching
<1>4. /\ pc' \in [Calls -> Places] /\ \A c \in Closers : pc'[c] = pc[c] /\ pc'[s] = "spawning"
      /\ \A c \in Calls : pc'[c] \in Launching \cup {"waitStarted", "waitStopped"} => c \in Starters
  BY <1>1, <1>2, <1>3 DEF TypeOK
<1>5. \A h \in Hosts : owner[h] = None
  BY <1>1 DEF TypeOK
<1>6. StartMatchesState'
  BY <1>1, <1>2, <1>4 DEF StartMatchesState, Idle, Launching
<1>7. watchers' \in BOOLEAN /\ leaked' \in BOOLEAN
  BY PLAssumption DEF WatchSources, PLAssumption, TypeOK
<1>8. QED
  BY <1>2, <1>4, <1>5, <1>6, <1>7, HostUntouched DEF WatchSources, TypeOK, HostMatchesTunnel, hostVars

\* The start() that spawns finds no host: it owns the new one.
LEMMA SpawnStep ==
    ASSUME NEW s, Starters = {s}, Inv, Spawn(s)
    PROVE  Inv'
<1> USE DEF Inv, SerialInv
<1>1. PICK h \in Hosts :
        /\ host[h] = "none" /\ host' = [host EXCEPT ![h] = "activating"]
        /\ owner' = [owner EXCEPT ![h] = s] /\ tunnel' = h
  BY DEF Spawn
<1>2. /\ s \in Calls /\ s \notin Closers /\ pc \in [Calls -> Places] /\ pc[s] = "spawning"
      /\ h # None /\ None \notin Starters
  BY PLAssumption DEF PLAssumption, Calls, TypeOK, Places, Spawn
<1>3. state = "STARTING" /\ tunnel = None
  BY <1>2 DEF StartMatchesState, TypeOK, Idle
<1>4. \A g \in Hosts : host[g] = "none" /\ owner[g] = None /\ inbox[g] = <<>> /\ outbox[g] = <<>>
  BY <1>3, PLAssumption DEF HostMatchesTunnel, PLAssumption
<1>5. /\ pc' = [pc EXCEPT ![s] = "activating"]
      /\ state' = state /\ type' = type /\ inbox' = inbox /\ outbox' = outbox
      /\ error' = error /\ watchers' = watchers /\ leaked' = leaked /\ timer' = timer
  BY DEF Spawn
<1>6. "activating" \in Places
  BY DEF Places, Launching
<1>7. pc' \in [Calls -> Places] /\ pc'[s] = "activating"
  BY <1>2, <1>5, <1>6
<1>8. TypeOK'
  <2>1. \A g \in Hosts : owner'[g] # None => pc'[owner'[g]] = "activating"
    BY <1>1, <1>4, <1>7 DEF TypeOK
  <2>2. \A c \in Calls : pc'[c] \in Launching \cup {"waitStarted", "waitStopped"} => c \in Starters
    BY <1>2, <1>5 DEF TypeOK
  <2>3. /\ \A g \in Hosts : \A i \in 1..Len(inbox'[g]) : pc'[inbox'[g][i]] = "stopping"
        /\ \A g \in Hosts : \A i \in 1..Len(outbox'[g]) :
              outbox'[g][i].type = "deactivated" => pc'[outbox'[g][i].call] = "stopping"
    BY <1>4, <1>5
  <2>4. host' \in [Hosts -> {"none", "activating", "active", "exited"}]
        /\ owner' \in [Hosts -> Starters \cup {None}] /\ tunnel' \in Hosts \cup {None}
    BY <1>1 DEF TypeOK
  <2>5. QED
    BY <1>5, <1>7, <2>1, <2>2, <2>3, <2>4 DEF TypeOK, Places
<1>9. StartMatchesState'
  <2>1. owner'[tunnel'] = s
    BY <1>1 DEF TypeOK
  <2>2. QED
    BY <1>1, <1>2, <1>3, <1>5, <1>7, <2>1 DEF StartMatchesState, Idle, Launching
<1>10. HostMatchesTunnel'
  <2>1. \A g \in Hosts : host'[g] = IF g = h THEN "activating" ELSE "none"
    BY <1>1, <1>4 DEF TypeOK
  <2>2. \A g \in Hosts : g # h => owner'[g] = None
    BY <1>1, <1>4 DEF TypeOK
  <2>3. QED
    BY <1>1, <1>2, <1>3, <1>4, <1>5, <2>1, <2>2 DEF HostMatchesTunnel
<1>11. ChannelsAgree'
  BY <1>4, <1>5 DEF ChannelsAgree, Channel
<1>12. QED
  BY <1>5, <1>8, <1>9, <1>10, <1>11

\* A failed spawn leaves no tunnel, and rejects whoever waits.
LEMMA SpawnFailsStep ==
    ASSUME NEW s, Starters = {s}, Inv, SpawnFails(s)
    PROVE  Inv'
<1> USE DEF Inv, SerialInv
<1>1. /\ s \in Calls /\ s \notin Closers /\ pc \in [Calls -> Places] /\ pc[s] = "spawning"
      /\ type = "external"
  BY PLAssumption DEF PLAssumption, Calls, TypeOK, Places, SpawnFails
<1>2. state = "STARTING" /\ tunnel = None
  BY <1>1 DEF StartMatchesState, TypeOK, Idle
<1> DEFINE after == Emit("STOPPED", TRUE)
<1>3. /\ pc' = [c \in Calls |-> IF c \in {s} THEN "rejected" ELSE after[c]]
      /\ state' = IF \E c \in Calls : pc[c] = "waitStopped" /\ after[c] = OnStart
                  THEN "STARTING" ELSE "STOPPED"
  <2>1. SetState("STOPPED", TRUE, [x \in {s} |-> "rejected"])
    BY DEF SpawnFails
  <2>2. QED
    BY <1>2, <2>1 DEF SetState
<1>4. /\ after \in [Calls -> Places]
      /\ \A c \in Calls : pc[c] \notin Waiting => after[c] = pc[c]
      /\ \A c \in Calls : pc[c] \in Waiting => after[c] = "rejected"
  BY <1>1 DEF Emit, Waiting, OnStart, Places, Idle, Launching
<1> HIDE DEF after
<1>5. state' = "STOPPED"
  BY <1>1, <1>3, <1>4 DEF OnStart, Waiting
<1>6. "rejected" \in Places /\ "stopping" \notin Waiting
  BY DEF Places, Idle, Waiting
<1>7. pc' \in [Calls -> Places] /\ pc'[s] = "rejected"
  BY <1>1, <1>3, <1>4, <1>6
<1>8. \A c \in Closers : pc[c] = "stopping" => pc'[c] = "stopping"
  BY <1>1, <1>3, <1>4, <1>6 DEF Calls
<1>9. \A c \in Calls : pc'[c] \in Launching \cup {"waitStarted", "waitStopped"} => c \in Starters
  <2> SUFFICES ASSUME NEW c \in Calls, pc'[c] \in Launching \cup {"waitStarted", "waitStopped"}, c # s
               PROVE  c \in Starters
    OBVIOUS
  <2>1. pc'[c] = after[c]
    BY <1>3
  <2>2. CASE pc[c] \in Waiting
    BY <1>4, <2>1, <2>2 DEF Launching
  <2>3. CASE pc[c] \notin Waiting
    BY <1>4, <2>1, <2>3 DEF TypeOK
  <2>4. QED
    BY <2>2, <2>3
<1>10. \A h \in Hosts : owner[h] = None
  <2>1. \A h \in Hosts : owner[h] = None \/ owner[h] = s
    BY DEF TypeOK
  <2>2. QED
    BY <1>1, <2>1 DEF TypeOK
<1>11. StartMatchesState'
  BY <1>5, <1>7 DEF StartMatchesState, Idle, Launching
<1>12. error' \in BOOLEAN
  BY DEF SpawnFails, SetError
<1>13. UNCHANGED <<hostVars, tunnel, type>> /\ watchers' = watchers /\ leaked' = leaked /\ timer' = timer
  BY DEF SpawnFails, hostVars
<1>14. QED
  BY <1>2, <1>5, <1>7, <1>8, <1>9, <1>10, <1>11, <1>12, <1>13, HostUntouched DEF TypeOK

\* A change of a file only sets the timer.
LEMMA FileChangeStep ==
    ASSUME Inv, FileChange
    PROVE  Inv'
<1> USE DEF Inv, SerialInv
<1>1. UNCHANGED <<hostVars, tunnel, type, pc, state, error, watchers, leaked>> /\ timer' = TRUE
  BY DEF FileChange, hostVars
<1>2. StartMatchesState'
  BY <1>1 DEF StartMatchesState, hostVars
<1>3. QED
  BY <1>1, <1>2, HostUntouched DEF TypeOK, HostMatchesTunnel, Places

\* A host at work answers requests; its channels hold no answer yet.
LEMMA HostActs ==
    ASSUME Inv, NEW h \in Hosts, host[h] # "none",
           UNCHANGED <<type, tunnel, owner>>,
           NEW process \in {"activating", "active", "exited"}, host' = [host EXCEPT ![h] = process],
           NEW in \in Seq(Closers), inbox' = [inbox EXCEPT ![h] = in],
           NEW out \in Seq(Message), outbox' = [outbox EXCEPT ![h] = out],
           Channel(in, out, process),
           pc' \in [Calls -> Places],
           \A c \in Calls : pc'[c] \in Launching \cup {"waitStarted", "waitStopped"} => c \in Starters,
           \A g \in Hosts : owner[g] # None => pc'[owner[g]] = "activating",
           \A i \in 1..Len(in) : pc'[in[i]] = "stopping",
           \A i \in 1..Len(out) : out[i].type = "deactivated" => pc'[out[i].call] = "stopping",
           state' \in {"STOPPED", "STARTING", "STARTED", "STOPPING"},
           error' \in BOOLEAN, watchers' \in BOOLEAN, leaked' \in BOOLEAN, timer' \in BOOLEAN,
           StartMatchesState', state' # "STOPPED"
    PROVE  Inv'
<1> USE DEF Inv, SerialInv
<1>1. \A g \in Hosts : g # h => /\ host[g] = "none" /\ inbox[g] = <<>> /\ outbox[g] = <<>>
                                /\ owner[g] = None
  BY DEF HostMatchesTunnel
<1>2. h = tunnel
  BY DEF HostMatchesTunnel
<1>3. /\ host'[h] = process /\ inbox'[h] = in /\ outbox'[h] = out
      /\ \A g \in Hosts : g # h => host'[g] = "none" /\ inbox'[g] = <<>> /\ outbox'[g] = <<>>
  BY <1>1 DEF TypeOK
<1>4. /\ host' \in [Hosts -> {"none", "activating", "active", "exited"}]
      /\ inbox' \in [Hosts -> Seq(Closers)] /\ outbox' \in [Hosts -> Seq(Message)]
  BY DEF TypeOK
<1>5. \A g \in Hosts : \A i \in 1..Len(inbox'[g]) : pc'[inbox'[g][i]] = "stopping"
  BY <1>3
<1>6. \A g \in Hosts : \A i \in 1..Len(outbox'[g]) :
         outbox'[g][i].type = "deactivated" => pc'[outbox'[g][i].call] = "stopping"
  BY <1>3
<1>7. TypeOK'
  BY <1>4, <1>5, <1>6 DEF TypeOK, Places
<1>8. HostMatchesTunnel'
  BY <1>1, <1>2, <1>3, PLAssumption DEF HostMatchesTunnel, PLAssumption
<1>9. ChannelsAgree'
  <2>1. \A x : Channel(<<>>, <<>>, x)
    BY DEF Channel
  <2>2. \A g \in Hosts : Channel(inbox'[g], outbox'[g], host'[g])
    BY <1>3, <2>1
  <2>3. QED
    BY <2>2 DEF ChannelsAgree
<1>10. QED
  BY <1>7, <1>8, <1>9

\* stop() puts a request on the channel of the host behind the tunnel, once.
LEMMA StopStep ==
    ASSUME NEW s, Starters = {s}, Inv, NEW c \in Closers, Stop(c)
    PROVE  Inv'
<1> USE DEF Inv, SerialInv
<1>1. /\ c \in Calls /\ c # s /\ c \notin Starters /\ s \in Calls
      /\ pc \in [Calls -> Places] /\ pc[c] \in Idle /\ type = "external"
  BY PLAssumption DEF PLAssumption, Calls, TypeOK, Places, Stop
<1>2. \A p \in Places : p \notin Launching \cup {"waitStarted", "waitStopped"}
                           /\ pc' = [pc EXCEPT ![c] = p] =>
        /\ pc' \in [Calls -> Places] /\ pc'[s] = pc[s] /\ pc'[c] = p
        /\ \A x \in Closers : x # c => pc'[x] = pc[x]
        /\ \A x \in Calls : pc'[x] \in Launching \cup {"waitStarted", "waitStopped"} => x \in Starters
  BY <1>1 DEF TypeOK, Calls
<1>3. {"returned", "waitStop", "stopping"} \subseteq Places
         \ (Launching \cup {"waitStarted", "waitStopped"})
  BY DEF Places, Idle, Waiting, Launching
<1>4. \A h \in Hosts : owner[h] # None => owner[h] = s /\ pc[s] = "activating"
  BY DEF TypeOK
<1>5. \A x \in Closers : pc[x] = "stopping" => x # c
  BY <1>1 DEF Idle
<1>6. timer' \in BOOLEAN /\ UNCHANGED <<leaked, type, tunnel, host, owner, outbox>>
  BY DEF Stop, TypeOK
<1>7. CASE state = "STOPPED"
  <2>1. /\ pc' = [pc EXCEPT ![c] = "returned"] /\ state' = state /\ inbox' = inbox
        /\ watchers' \in BOOLEAN /\ error' \in BOOLEAN
    BY <1>7 DEF Stop, TypeOK
  <2>2. StartMatchesState'
    BY <1>2, <1>3, <1>6, <1>7, <2>1 DEF StartMatchesState
  <2>3. QED
    BY <1>2, <1>3, <1>4, <1>5, <1>6, <1>7, <2>1, <2>2, HostUntouched
    DEF TypeOK, HostMatchesTunnel, hostVars
<1>8. CASE state = "STOPPING"
  <2>1. /\ pc' = [pc EXCEPT ![c] = "waitStop"] /\ state' = state /\ inbox' = inbox
        /\ watchers' \in BOOLEAN /\ error' \in BOOLEAN
    BY <1>8 DEF Stop, TypeOK
  <2>2. StartMatchesState'
    BY <1>2, <1>3, <1>6, <1>8, <2>1 DEF StartMatchesState
  <2>3. QED
    BY <1>2, <1>3, <1>4, <1>5, <1>6, <1>8, <2>1, <2>2, HostUntouched
    DEF TypeOK, HostMatchesTunnel, hostVars
<1>9. CASE state \in {"STARTING", "STARTED"} /\ tunnel = None
  <2>1. state = "STARTING"
    BY <1>9 DEF HostMatchesTunnel
  <2>2. /\ pc' = [pc EXCEPT ![c] = "returned"] /\ state' = state /\ inbox' = inbox
        /\ watchers' \in BOOLEAN /\ error' \in BOOLEAN
    BY <1>1, <1>9, <2>1 DEF Stop, TypeOK
  <2>3. StartMatchesState'
    BY <1>2, <1>3, <1>6, <2>1, <2>2 DEF StartMatchesState
  <2>4. QED
    BY <1>2, <1>3, <1>4, <1>5, <1>6, <2>1, <2>2, <2>3, HostUntouched
    DEF TypeOK, HostMatchesTunnel, hostVars
<1>10. CASE state \in {"STARTING", "STARTED"} /\ tunnel # None
  <2>1. /\ pc' = [pc EXCEPT ![c] = "stopping"] /\ watchers' = watchers /\ error' = error
        /\ state' = IF state = "STARTED" THEN "STOPPING" ELSE state
        /\ inbox' = IF Alive(tunnel) THEN [inbox EXCEPT ![tunnel] = Append(@, c)] ELSE inbox
    BY <1>1, <1>10 DEF Stop
  <2>2. StartMatchesState'
    BY <1>2, <1>3, <1>6, <1>10, <2>1 DEF StartMatchesState
  <2>3. pc'[c] = "stopping" /\ \A x \in Closers : pc[x] = "stopping" => pc'[x] = "stopping"
    BY <1>2, <1>3, <2>1
  <2>4. CASE ~Alive(tunnel)
    BY <1>2, <1>3, <1>4, <1>6, <1>10, <2>1, <2>2, <2>3, <2>4, HostUntouched
    DEF TypeOK, HostMatchesTunnel, hostVars
  <2>5. CASE Alive(tunnel)
    <3> DEFINE h == tunnel
               in == Append(inbox[h], c)
    <3>1. h \in Hosts /\ host[h] \in {"activating", "active"}
          /\ inbox[h] \in Seq(Closers) /\ outbox[h] \in Seq(Message)
      BY <1>10, <2>5 DEF TypeOK, Alive
    <3>2. \A i \in 1..Len(inbox[h]) : inbox[h][i] \in Closers /\ pc[inbox[h][i]] = "stopping"
      BY <3>1, ElementOfSeq DEF TypeOK
    <3>3. /\ Channel(in, outbox[h], host[h]) /\ in \in Seq(Closers)
          /\ Len(in) = Len(inbox[h]) + 1 /\ in[Len(inbox[h]) + 1] = c
          /\ \A i \in 1..Len(inbox[h]) : in[i] = inbox[h][i]
      BY <1>5, <3>1, <3>2, ChannelRequest DEF ChannelsAgree
    <3>4. \A i \in 1..Len(in) : pc'[in[i]] = "stopping"
      BY <2>3, <3>1, <3>2, <3>3, LenProperties
    <3>5. \A i \in 1..Len(outbox[h]) : outbox[h][i].type = "deactivated" => pc'[outbox[h][i].call] = "stopping"
      BY <3>1 DEF ChannelsAgree, Channel
    <3>6. /\ host' = [host EXCEPT ![h] = host[h]] /\ outbox' = [outbox EXCEPT ![h] = outbox[h]]
          /\ inbox' = [inbox EXCEPT ![h] = in]
      BY <1>6, <2>1, <2>5, <3>1 DEF TypeOK
    <3> HIDE DEF h, in
    <3>7. /\ pc' \in [Calls -> Places] /\ pc'[s] = pc[s]
          /\ \A x \in Calls : pc'[x] \in Launching \cup {"waitStarted", "waitStopped"} => x \in Starters
      BY <1>2, <1>3, <2>1
    <3>8. \A g \in Hosts : owner[g] # None => pc'[owner[g]] = "activating"
      BY <1>4, <3>7
    <3>9. /\ state' \in {"STARTING", "STOPPING"} /\ error' \in BOOLEAN /\ watchers' \in BOOLEAN
          /\ leaked' \in BOOLEAN /\ timer' \in BOOLEAN
      BY <1>6, <1>10, <2>1 DEF TypeOK
    <3>10. /\ host[h] # "none" /\ host[h] \in {"activating", "active", "exited"}
           /\ UNCHANGED <<type, tunnel, owner>>
           /\ state' \in {"STOPPED", "STARTING", "STARTED", "STOPPING"} /\ state' # "STOPPED"
      BY <1>6, <3>1, <3>9
    <3> HIDE DEF Inv, SerialInv
    <3>11. QED
      BY <2>2, <3>1, <3>3, <3>4, <3>5, <3>6, <3>7, <3>8, <3>9, <3>10, HostActs
  <2>6. QED
    BY <2>4, <2>5
<1>11. QED
  BY <1>7, <1>8, <1>9, <1>10 DEF TypeOK

\* The steps of the host: it activates or fails, answers a request, or dies.
LEMMA HostSteps ==
    ASSUME Inv, NEW h \in Hosts,
           HostActivates(h) \/ HostFails(h) \/ HostDeactivates(h) \/ HostDies(h)
    PROVE  Inv'
<1>1. /\ TypeOK /\ StartMatchesState /\ HostMatchesTunnel /\ ChannelsAgree /\ type = "external"
  BY DEF Inv, SerialInv
<1>2. /\ UNCHANGED <<parentVars, owner>> /\ host[h] \in {"activating", "active"}
  BY DEF HostActivates, HostFails, HostDeactivates, HostDies, Alive
<1>3. /\ inbox[h] \in Seq(Closers) /\ outbox[h] \in Seq(Message)
      /\ Channel(inbox[h], outbox[h], host[h]) /\ host[h] # "exited" /\ host[h] # "none"
  BY <1>1, <1>2 DEF TypeOK, ChannelsAgree
<1>4. \A i \in 1..Len(outbox[h]) : outbox[h][i].type # "deactivated"
  BY <1>3 DEF Channel
<1>5. \A i \in 1..Len(inbox[h]) : pc'[inbox[h][i]] = "stopping"
  BY <1>1, <1>2 DEF TypeOK, parentVars
<1>6. /\ pc' \in [Calls -> Places]
      /\ \A c \in Calls : pc'[c] \in Launching \cup {"waitStarted", "waitStopped"} => c \in Starters
      /\ \A g \in Hosts : owner[g] # None => pc'[owner[g]] = "activating"
      /\ state' \in {"STOPPED", "STARTING", "STARTED", "STOPPING"}
      /\ error' \in BOOLEAN /\ watchers' \in BOOLEAN /\ leaked' \in BOOLEAN /\ timer' \in BOOLEAN
      /\ UNCHANGED <<type, tunnel, owner>>
  BY <1>1, <1>2 DEF TypeOK, parentVars, Places
<1>7. state' # "STOPPED"
  BY <1>1, <1>2, <1>3, PLAssumption DEF HostMatchesTunnel, parentVars, PLAssumption
<1>8. StartMatchesState'
  BY <1>1, <1>2 DEF StartMatchesState, parentVars
<1>9. inbox' = inbox => inbox' = [inbox EXCEPT ![h] = inbox[h]]
  BY <1>1 DEF TypeOK
<1>10. CASE HostActivates(h)
  <2> DEFINE m == [type |-> "activated"]
             out == outbox[h] \o <<m>>
  <2>1. m \in Message /\ m.type \notin {"exit", "deactivated"} /\ m.type # "deactivated"
    BY DEF Message
  <2>2. /\ host' = [host EXCEPT ![h] = "active"] /\ inbox' = inbox
        /\ outbox' = [outbox EXCEPT ![h] = out]
    BY <1>10 DEF HostActivates, Send
  <2> HIDE DEF m
  <2>3. Channel(inbox[h], out, "active") /\ out \in Seq(Message)
    BY <1>3, <2>1, ChannelSend
  <2>4. \A i \in 1..Len(out) : out[i].type # "deactivated"
    BY <1>3, <1>4, <2>1, OneMore
  <2> HIDE DEF out
  <2>5. QED
    BY <1>3, <1>5, <1>6, <1>7, <1>8, <1>9, <2>2, <2>3, <2>4, HostActs
<1>11. CASE HostFails(h)
  <2> DEFINE m == [type |-> "activation_error"]
             first == outbox[h] \o <<m>>
             out == first \o <<Exit(6)>>
  <2>1. m \in Message /\ m.type \notin {"exit", "deactivated"} /\ Exit(6) \in Message
        /\ Exit(6).type # "deactivated" /\ m.type # "deactivated"
    BY DEF Message, Exit
  <2>2. /\ host' = [host EXCEPT ![h] = "exited"] /\ inbox' = inbox
        /\ outbox' = [outbox EXCEPT ![h] = outbox[h] \o <<m, Exit(6)>>]
    BY <1>11 DEF HostFails, Send
  <2> HIDE DEF m
  <2>3. outbox[h] \o <<m, Exit(6)>> = out
    <3>1. <<m>> \in Seq(Message) /\ <<Exit(6)>> \in Seq(Message)
      BY <2>1
    <3>2. <<m, Exit(6)>> = <<m>> \o <<Exit(6)>>
      BY <2>1
    <3>3. QED
      BY <1>3, <3>1, <3>2, ConcatAssociative
  <2>4. Channel(inbox[h], first, host[h]) /\ first \in Seq(Message)
    BY <1>3, <2>1, ChannelSend
  <2>5. \A i \in 1..Len(first) : first[i].type # "deactivated"
    BY <1>3, <1>4, <2>1, OneMore
  <2> HIDE DEF first
  <2>6. Channel(inbox[h], out, "exited") /\ out \in Seq(Message)
    BY <1>3, <2>4, ChannelExit
  <2>7. \A i \in 1..Len(out) : out[i].type # "deactivated"
    BY <2>1, <2>4, <2>5, OneMore
  <2> HIDE DEF out
  <2>8. QED
    BY <1>3, <1>5, <1>6, <1>7, <1>8, <1>9, <2>2, <2>3, <2>6, <2>7, HostActs
<1>12. CASE HostDies(h)
  <2>1. PICK code \in {0, 1} : outbox' = [outbox EXCEPT ![h] = outbox[h] \o <<Exit(code)>>]
    BY <1>12 DEF HostDies, Send
  <2> DEFINE out == outbox[h] \o <<Exit(code)>>
  <2>2. host' = [host EXCEPT ![h] = "exited"] /\ inbox' = inbox
    BY <1>12 DEF HostDies
  <2>3. Exit(code) \in Message /\ Exit(code).type # "deactivated"
    BY DEF Message, Exit
  <2>4. Channel(inbox[h], out, "exited") /\ out \in Seq(Message)
    BY <1>3, ChannelExit
  <2>5. \A i \in 1..Len(out) : out[i].type # "deactivated"
    BY <1>3, <1>4, <2>3, OneMore
  <2> HIDE DEF out
  <2>6. outbox' = [outbox EXCEPT ![h] = out]
    BY <2>1 DEF out
  <2>7. QED
    BY <1>3, <1>5, <1>6, <1>7, <1>8, <1>9, <2>2, <2>4, <2>5, <2>6, HostActs
<1>13. CASE HostDeactivates(h)
  <2>1. PICK failed \in BOOLEAN :
          outbox' = [outbox EXCEPT ![h] = outbox[h] \o
            <<[type |-> "deactivated", call |-> Head(inbox[h]), failed |-> failed], Exit(0)>>]
    BY <1>13 DEF HostDeactivates, Send
  <2> DEFINE answer == [type |-> "deactivated", call |-> Head(inbox[h]), failed |-> failed]
             in == Tail(inbox[h])
             words == <<answer, Exit(0)>>
             out == outbox[h] \o words
  <2>2. /\ host' = [host EXCEPT ![h] = "exited"] /\ inbox' = [inbox EXCEPT ![h] = in]
        /\ inbox[h] # <<>> /\ outbox' = [outbox EXCEPT ![h] = out]
    BY <1>13, <2>1 DEF HostDeactivates
  <2>3. /\ words \in Seq(Message) /\ Len(words) = 2 /\ words[2] = Exit(0)
        /\ words[1].type = "deactivated" /\ words[1].call = Head(inbox[h])
        /\ Exit(0).type # "deactivated"
    <3>1. Head(inbox[h]) \in Closers
      BY <1>3, <2>2, HeadTailProperties
    <3>2. answer \in Message /\ Exit(0) \in Message
      BY <3>1 DEF Message, Exit
    <3>3. answer.type = "deactivated" /\ answer.call = Head(inbox[h]) /\ Exit(0).type # "deactivated"
      BY DEF Exit
    <3> HIDE DEF answer
    <3>4. QED
      BY <3>2, <3>3
  <2> HIDE DEF words
  <2>4. /\ Channel(in, out, "exited") /\ out \in Seq(Message) /\ in \in Seq(Closers)
        /\ Len(out) = Len(outbox[h]) + 2
        /\ \A i \in 1..Len(outbox[h]) : out[i] = outbox[h][i] /\ outbox[h][i].type # "deactivated"
        /\ out[Len(outbox[h]) + 1] = words[1] /\ out[Len(outbox[h]) + 2] = Exit(0)
    BY <1>3, <2>2, <2>3, ChannelDeactivate
  <2>5. /\ Len(in) = Len(inbox[h]) - 1 /\ \A i \in 1..Len(in) : in[i] = inbox[h][i + 1]
        /\ Len(inbox[h]) \in Nat \ {0} /\ Head(inbox[h]) = inbox[h][1] /\ Len(outbox[h]) \in Nat
    BY <1>3, <2>2, HeadTailProperties, LenProperties, EmptySeq
  <2> HIDE DEF in, out
  <2>6. \A i \in 1..Len(in) : pc'[in[i]] = "stopping"
    <3>1. \A i \in 1..Len(in) : i + 1 \in 1..Len(inbox[h]) /\ in[i] = inbox[h][i + 1]
      BY <2>5
    <3>2. QED
      BY <1>5, <3>1
  <2>7. pc'[Head(inbox[h])] = "stopping"
    BY <1>5, <2>5
  <2>8. \A i \in 1..Len(out) : out[i].type = "deactivated" => pc'[out[i].call] = "stopping"
    <3>1. \A i \in 1..Len(out) : i \in 1..Len(outbox[h]) \/ i = Len(outbox[h]) + 1
                                   \/ i = Len(outbox[h]) + 2
      BY <2>4, <2>5
    <3>2. QED
      BY <2>3, <2>4, <2>7, <3>1
  <2>9. QED
    BY <1>3, <1>6, <1>7, <1>8, <2>2, <2>4, <2>6, <2>8, HostActs
<1>14. QED
  BY <1>10, <1>11, <1>12, <1>13

\* What is known when the parent takes a message: it comes from the host behind the
\* tunnel, and the channels stay in order without it.
LEMMA Received ==
    ASSUME Inv, NEW h \in Hosts, NEW kind, Receive(h, kind)
    PROVE  /\ h = tunnel /\ host[h] # "none" /\ state # "STOPPED"
           /\ \A g \in Hosts : g # h => /\ host[g] = "none" /\ inbox[g] = <<>> /\ outbox[g] = <<>>
                                        /\ owner[g] = None
           /\ outbox' = [outbox EXCEPT ![h] = Tail(outbox[h])]
           /\ Tail(outbox[h]) \in Seq(Message) /\ Channel(inbox[h], Tail(outbox[h]), host[h])
           /\ \A i \in 1..Len(Tail(outbox[h])) :
                 Tail(outbox[h])[i].type = "deactivated" =>
                    /\ pc[Tail(outbox[h])[i].call] = "stopping"
                    /\ Tail(outbox[h])[i].call \in Closers
           /\ \A i \in 1..Len(inbox[h]) : inbox[h][i] \in Closers /\ pc[inbox[h][i]] = "stopping"
           /\ kind = "exit" => Tail(outbox[h]) = <<>>
           /\ kind = "deactivated" =>
                /\ Head(outbox[h]).call \in Closers /\ host[h] = "exited"
                /\ pc[Head(outbox[h]).call] = "stopping"
                /\ \A i \in 1..Len(inbox[h]) : inbox[h][i] # Head(outbox[h]).call
                /\ \A i \in 1..Len(Tail(outbox[h])) : Tail(outbox[h])[i].type # "deactivated"
<1>1. /\ TypeOK /\ StartMatchesState /\ HostMatchesTunnel /\ ChannelsAgree /\ type = "external"
  BY DEF Inv, SerialInv
<1>2. /\ outbox[h] # <<>> /\ Head(outbox[h]).type = kind
      /\ outbox' = [outbox EXCEPT ![h] = Tail(outbox[h])]
  BY DEF Receive
<1>3. h = tunnel /\ host[h] # "none"
  BY <1>1, <1>2 DEF HostMatchesTunnel
<1>4. state # "STOPPED"
  BY <1>1, <1>3, PLAssumption DEF HostMatchesTunnel, PLAssumption
<1>5. \A g \in Hosts : g # h => host[g] = "none"
  BY <1>1, <1>3 DEF HostMatchesTunnel
<1>6. /\ inbox[h] \in Seq(Closers) /\ outbox[h] \in Seq(Message)
      /\ Channel(inbox[h], outbox[h], host[h])
  BY <1>1 DEF TypeOK, ChannelsAgree
<1>7. \A i \in 1..Len(inbox[h]) : inbox[h][i] \in Closers /\ pc[inbox[h][i]] = "stopping"
  BY <1>1, <1>6, ElementOfSeq DEF TypeOK
<1>8. \A i \in 1..Len(outbox[h]) : outbox[h][i].type = "deactivated" =>
         pc[outbox[h][i].call] = "stopping" /\ outbox[h][i].call \in Closers
  <2>1. \A i \in 1..Len(outbox[h]) : outbox[h][i] \in Message
    BY <1>6, ElementOfSeq
  <2>2. \A m \in Message : m.type = "deactivated" => m.call \in Closers
    BY DEF Message
  <2>3. QED
    BY <1>1, <2>1, <2>2 DEF TypeOK
<1> DEFINE rest == Tail(outbox[h])
<1>9. /\ Channel(inbox[h], rest, host[h]) /\ rest \in Seq(Message)
      /\ Len(rest) = Len(outbox[h]) - 1 /\ Head(outbox[h]) = outbox[h][1] /\ Len(outbox[h]) \in Nat \ {0}
      /\ \A i \in 1..Len(rest) : rest[i] = outbox[h][i + 1]
      /\ kind = "exit" => rest = <<>>
      /\ kind = "deactivated" =>
            /\ Head(outbox[h]).call \in Closers /\ host[h] = "exited"
            /\ \A i \in 1..Len(inbox[h]) : inbox[h][i] # Head(outbox[h]).call
            /\ \A i \in 1..Len(rest) : rest[i].type # "deactivated"
  BY <1>2, <1>6, ChannelReceive
<1> HIDE DEF rest
<1>10. \A i \in 1..Len(rest) : rest[i].type = "deactivated" =>
          pc[rest[i].call] = "stopping" /\ rest[i].call \in Closers
  <2>1. \A i \in 1..Len(rest) : i + 1 \in 1..Len(outbox[h]) /\ rest[i] = outbox[h][i + 1]
    BY <1>9
  <2>2. QED
    BY <1>8, <2>1
<1>11. kind = "deactivated" => pc[Head(outbox[h]).call] = "stopping"
  BY <1>2, <1>8, <1>9
<1>12. \A g \in Hosts : g # h => inbox[g] = <<>> /\ outbox[g] = <<>> /\ owner[g] = None
  BY <1>1, <1>5 DEF HostMatchesTunnel
<1>13. QED
  BY <1>2, <1>3, <1>4, <1>5, <1>7, <1>9, <1>10, <1>11, <1>12 DEF rest

\* Taking a message that leaves the host where it is.
LEMMA HostStays ==
    ASSUME Inv, NEW h \in Hosts, NEW kind, Receive(h, kind),
           UNCHANGED <<type, tunnel, host, inbox>>,
           owner' \in [Hosts -> Starters \cup {None}],
           \A g \in Hosts : g # h => owner'[g] = None,
           \A g \in Hosts : owner'[g] # None => pc'[owner'[g]] = "activating",
           pc' \in [Calls -> Places],
           \A c \in Calls : pc'[c] \in Launching \cup {"waitStarted", "waitStopped"} => c \in Starters,
           \A c \in Closers : pc[c] = "stopping" => pc'[c] = "stopping",
           state' \in {"STARTING", "STARTED", "STOPPING"},
           error' \in BOOLEAN, watchers' \in BOOLEAN, leaked' \in BOOLEAN, timer' \in BOOLEAN,
           StartMatchesState'
    PROVE  Inv'
<1>1. /\ TypeOK /\ HostMatchesTunnel /\ ChannelsAgree /\ type = "external"
  BY DEF Inv, SerialInv
<1> DEFINE rest == Tail(outbox[h])
<1>2. /\ h = tunnel /\ host[h] # "none"
      /\ \A g \in Hosts : g # h => host[g] = "none" /\ inbox[g] = <<>> /\ outbox[g] = <<>>
      /\ outbox' = [outbox EXCEPT ![h] = rest]
      /\ rest \in Seq(Message) /\ Channel(inbox[h], rest, host[h])
      /\ \A i \in 1..Len(inbox[h]) : pc'[inbox[h][i]] = "stopping"
  BY Received
<1>3. \A i \in 1..Len(rest) : rest[i].type = "deactivated" => pc'[rest[i].call] = "stopping"
  BY Received
<1> HIDE DEF rest
<1>4. /\ outbox'[h] = rest /\ \A g \in Hosts : g # h => outbox'[g] = <<>>
      /\ outbox' \in [Hosts -> Seq(Message)]
  BY <1>1, <1>2 DEF TypeOK
<1>5. \A g \in Hosts : \A i \in 1..Len(inbox'[g]) : pc'[inbox'[g][i]] = "stopping"
  BY <1>2
<1>6. \A g \in Hosts : \A i \in 1..Len(outbox'[g]) :
         outbox'[g][i].type = "deactivated" => pc'[outbox'[g][i].call] = "stopping"
  BY <1>3, <1>4
<1>7. TypeOK'
  BY <1>1, <1>4, <1>5, <1>6 DEF TypeOK, Places
<1>8. HostMatchesTunnel'
  BY <1>1, <1>2, <1>4, PLAssumption DEF HostMatchesTunnel, PLAssumption
<1>9. ChannelsAgree'
  <2>1. \A x : Channel(<<>>, <<>>, x)
    BY DEF Channel
  <2>2. \A g \in Hosts : Channel(inbox'[g], outbox'[g], host'[g])
    BY <1>2, <1>4, <2>1
  <2>3. QED
    BY <2>2 DEF ChannelsAgree
<1>10. QED
  BY <1>1, <1>7, <1>8, <1>9 DEF Inv, SerialInv

\* The news of a failed activation moves nobody.
LEMMA ActivationErrorStep ==
    ASSUME Inv, NEW h \in Hosts, ActivationError(h)
    PROVE  Inv'
<1>1. /\ TypeOK /\ StartMatchesState /\ HostMatchesTunnel
  BY DEF Inv, SerialInv
<1>2. Receive(h, "activation_error") /\ error' = TRUE
      /\ UNCHANGED <<state, watchers, leaked, type, timer, tunnel, pc, host, owner, inbox>>
  BY DEF ActivationError
<1>3. state # "STOPPED" /\ \A g \in Hosts : g # h => owner[g] = None
  BY <1>2, Received
<1>4. StartMatchesState'
  BY <1>1, <1>2 DEF StartMatchesState
<1>5. /\ UNCHANGED <<type, tunnel, host, inbox>> /\ owner' \in [Hosts -> Starters \cup {None}]
      /\ \A g \in Hosts : g # h => owner'[g] = None
      /\ state' \in {"STARTING", "STARTED", "STOPPING"}
      /\ error' \in BOOLEAN /\ watchers' \in BOOLEAN /\ leaked' \in BOOLEAN /\ timer' \in BOOLEAN
  BY <1>1, <1>2, <1>3 DEF TypeOK
<1>6. /\ pc' \in [Calls -> Places]
      /\ \A x \in Calls : pc'[x] \in Launching \cup {"waitStarted", "waitStopped"} => x \in Starters
      /\ \A g \in Hosts : owner'[g] # None => pc'[owner'[g]] = "activating"
      /\ \A x \in Closers : pc[x] = "stopping" => pc'[x] = "stopping"
  BY <1>1, <1>2 DEF TypeOK, Places
<1>7. QED
  BY <1>2, <1>4, <1>5, <1>6, HostStays

\* An answer ends the one stop() that it names.
LEMMA DeactivatedStep ==
    ASSUME NEW s, Starters = {s}, Inv, NEW h \in Hosts, Deactivated(h)
    PROVE  Inv'
<1>1. /\ TypeOK /\ StartMatchesState /\ HostMatchesTunnel
  BY DEF Inv, SerialInv
<1>2. Receive(h, "deactivated")
      /\ UNCHANGED <<state, leaked, type, timer, tunnel, host, owner, inbox>>
  BY DEF Deactivated
<1> DEFINE c == Head(outbox[h]).call
           in == inbox[h]
           out == Tail(outbox[h])
<1>3. /\ h = tunnel /\ state # "STOPPED" /\ host[h] # "none"
      /\ c \in Closers /\ pc[c] = "stopping"
      /\ outbox' = [outbox EXCEPT ![h] = out] /\ out \in Seq(Message)
      /\ Channel(in, out, host[h])
      /\ \A i \in 1..Len(in) : in[i] \in Closers /\ pc[in[i]] = "stopping" /\ in[i] # c
      /\ \A i \in 1..Len(out) : out[i].type # "deactivated"
  BY <1>2, Received
<1>4. pc' = [pc EXCEPT ![c] = "returned"] /\ watchers' = FALSE /\ error' \in BOOLEAN
  BY DEF Deactivated, Stopped, SetError
<1> HIDE DEF c
<1>5. c # s /\ s \in Calls /\ c \in Calls
  BY <1>3, PLAssumption DEF PLAssumption, Calls
<1>6. /\ pc' \in [Calls -> Places] /\ pc'[s] = pc[s]
      /\ \A x \in Calls : x # c => pc'[x] = pc[x]
      /\ \A x \in Calls : pc'[x] \in Launching \cup {"waitStarted", "waitStopped"} => x \in Starters
  BY <1>1, <1>4, <1>5 DEF TypeOK, Places, Idle, Launching
<1>7. \A g \in Hosts : owner[g] # None => pc'[owner[g]] = "activating"
  BY <1>1, <1>6 DEF TypeOK
<1>8. StartMatchesState'
  BY <1>1, <1>2, <1>6 DEF StartMatchesState
<1>9. /\ UNCHANGED <<type, tunnel, owner>> /\ host' = [host EXCEPT ![h] = host[h]]
      /\ inbox' = [inbox EXCEPT ![h] = in] /\ in \in Seq(Closers)
      /\ host[h] \in {"activating", "active", "exited"}
      /\ state' \in {"STOPPED", "STARTING", "STARTED", "STOPPING"} /\ state' # "STOPPED"
      /\ error' \in BOOLEAN /\ watchers' \in BOOLEAN /\ leaked' \in BOOLEAN /\ timer' \in BOOLEAN
  <2>1. /\ error' \in BOOLEAN /\ watchers' \in BOOLEAN
        /\ leaked' \in BOOLEAN /\ timer' \in BOOLEAN
    BY <1>1, <1>2, <1>4 DEF TypeOK
  <2>2. UNCHANGED <<type, tunnel, owner>> /\ state' = state /\ host' = host /\ inbox' = inbox
    BY <1>2
  <2>3. host' = [host EXCEPT ![h] = host[h]] /\ host[h] \in {"activating", "active", "exited"}
    BY <1>1, <1>3, <2>2 DEF TypeOK
  <2>4. inbox' = [inbox EXCEPT ![h] = in] /\ in \in Seq(Closers)
    BY <1>1, <2>2 DEF TypeOK
  <2>5. state' \in {"STOPPED", "STARTING", "STARTED", "STOPPING"} /\ state' # "STOPPED"
    BY <1>1, <1>3, <2>2 DEF TypeOK
  <2>6. QED
    BY <2>1, <2>2, <2>3, <2>4, <2>5
<1>10. \A i \in 1..Len(in) : pc'[in[i]] = "stopping"
  BY <1>3, <1>6 DEF Calls
<1> HIDE DEF in, out
<1>11. QED
  BY <1>3, <1>6, <1>7, <1>8, <1>9, <1>10, HostActs

\* An activated host hands its start() back.
LEMMA ActivatedStep ==
    ASSUME NEW s, Starters = {s}, Inv, NEW h \in Hosts, Activated(h)
    PROVE  Inv'
<1>1. /\ TypeOK /\ StartMatchesState /\ HostMatchesTunnel /\ type = "external"
  BY DEF Inv, SerialInv
<1>2. /\ Receive(h, "activated") /\ owner' = [owner EXCEPT ![h] = None]
      /\ UNCHANGED <<error, watchers, leaked, type, timer, tunnel, host, inbox>>
  BY DEF Activated
<1>3. /\ h = tunnel /\ state # "STOPPED"
      /\ \A g \in Hosts : g # h => owner[g] = None
  BY <1>2, Received
<1>4. /\ owner' \in [Hosts -> Starters \cup {None}] /\ \A g \in Hosts : owner'[g] = None
      /\ error' \in BOOLEAN /\ watchers' \in BOOLEAN /\ leaked' \in BOOLEAN /\ timer' \in BOOLEAN
  BY <1>1, <1>2, <1>3 DEF TypeOK
<1>5. /\ s \in Calls /\ s \notin Closers /\ pc \in [Calls -> Places] /\ None \notin Calls
      /\ \A x \in Calls : x # s => x \in Closers
  BY <1>1, PLAssumption DEF PLAssumption, Calls, TypeOK, Places
<1>6. CASE state = "STARTING"
  <2>1. owner[h] = s /\ pc[s] = "activating"
    <3>1. pc[s] \in Launching /\ tunnel # None
      BY <1>1, <1>3, <1>6, PLAssumption DEF StartMatchesState, PLAssumption
    <3>2. QED
      BY <1>1, <1>3, <3>1 DEF StartMatchesState, Launching
  <2> DEFINE after == Emit("STARTED", FALSE)
  <2>2. /\ pc' = [c \in Calls |-> IF c \in {s} THEN "returned" ELSE after[c]]
        /\ state' = IF \E c \in Calls : pc[c] = "waitStopped" /\ after[c] = OnStart
                    THEN "STARTING" ELSE "STARTED"
    <3>1. SetState("STARTED", FALSE, [c \in {s} |-> "returned"])
      BY <1>6, <2>1 DEF Activated
    <3>2. QED
      BY <1>6, <3>1 DEF SetState
  <2>3. \A c \in Closers : pc[c] # "waitStarted" /\ pc[c] # "waitStopped"
    BY <1>1, PLAssumption DEF TypeOK, PLAssumption, Calls
  <2>4. \A c \in Closers : after[c] = pc[c]
    BY <2>3 DEF Emit, Calls, Waiting
  <2> HIDE DEF after
  <2>5. state' = "STARTED"
    BY <1>5, <2>1, <2>2, <2>3
  <2>6. pc'[s] = "returned" /\ \A c \in Closers : pc'[c] = pc[c]
    BY <1>5, <2>2, <2>4 DEF Calls
  <2>7. "returned" \in Places /\ "returned" \in Idle
    BY DEF Places, Idle
  <2>8. pc' \in [Calls -> Places]
    <3>1. \A x \in Calls : pc'[x] \in Places
      BY <1>5, <2>6, <2>7
    <3>2. QED
      BY <2>2, <3>1
  <2>9. \A x \in Calls : pc'[x] \in Launching \cup {"waitStarted", "waitStopped"} => x \in Starters
    BY <1>1, <1>5, <2>6 DEF TypeOK
  <2>10. StartMatchesState'
    BY <1>2, <1>3, <2>5, <2>6, <2>7 DEF StartMatchesState, Idle
  <2>11. QED
    BY <1>2, <1>4, <2>5, <2>6, <2>8, <2>9, <2>10, HostStays
<1>7. CASE state \in {"STARTED", "STOPPING"}
  <2>1. owner[h] = None
    <3>1. pc[s] # "activating"
      BY <1>1, <1>7 DEF StartMatchesState, Idle
    <3>2. owner[h] = None \/ owner[h] = s
      BY <1>1 DEF TypeOK
    <3>3. QED
      BY <1>1, <3>1, <3>2 DEF TypeOK
  <2>2. SetState(state, FALSE, [c \in {None} |-> "returned"])
    BY <1>7, <2>1 DEF Activated
  <2>3. /\ pc' = [c \in Calls |-> IF c \in {None} THEN "returned" ELSE pc[c]]
        /\ state' = IF \E c \in Calls : pc[c] = "waitStopped" /\ pc[c] = OnStart
                    THEN "STARTING" ELSE state
    BY <2>2 DEF SetState
  <2>4. pc' = pc /\ state' = state
    BY <1>1, <1>5, <2>3 DEF OnStart
  <2>5. StartMatchesState'
    BY <1>1, <1>2, <1>7, <2>4 DEF StartMatchesState, Idle
  <2>6. \A x \in Calls : pc'[x] \in Launching \cup {"waitStarted", "waitStopped"} => x \in Starters
    BY <1>1, <2>4 DEF TypeOK
  <2>7. state' \in {"STARTING", "STARTED", "STOPPING"} /\ pc' \in [Calls -> Places]
        /\ \A c \in Closers : pc[c] = "stopping" => pc'[c] = "stopping"
    BY <1>5, <1>7, <2>4
  <2>8. QED
    BY <1>2, <1>4, <2>5, <2>6, <2>7, HostStays
<1>8. QED
  BY <1>1, <1>3, <1>6, <1>7 DEF TypeOK

\* The exit of the host ends what is on its channels, and starts at most one start()
\* anew.
LEMMA HostExitedStep ==
    ASSUME NEW s, Starters = {s}, Inv, NEW h \in Hosts, HostExited(h)
    PROVE  Inv'
<1>1. /\ TypeOK /\ StartMatchesState /\ HostMatchesTunnel /\ type = "external"
  BY DEF Inv, SerialInv
<1>2. /\ Receive(h, "exit") /\ owner' = [owner EXCEPT ![h] = None]
      /\ host' = [host EXCEPT ![h] = "none"] /\ inbox' = [inbox EXCEPT ![h] = <<>>]
      /\ tunnel' = None
      /\ UNCHANGED <<watchers, leaked, type, timer>>
  BY DEF HostExited
<1>3. /\ h = tunnel /\ state # "STOPPED" /\ Tail(outbox[h]) = <<>>
      /\ outbox' = [outbox EXCEPT ![h] = Tail(outbox[h])]
      /\ \A g \in Hosts : g # h => /\ host[g] = "none" /\ inbox[g] = <<>> /\ outbox[g] = <<>>
                                   /\ owner[g] = None
  BY <1>2, Received
<1>4. /\ \A g \in Hosts : /\ host'[g] = "none" /\ inbox'[g] = <<>> /\ outbox'[g] = <<>>
                          /\ owner'[g] = None
      /\ host' \in [Hosts -> {"none", "activating", "active", "exited"}]
      /\ inbox' \in [Hosts -> Seq(Closers)] /\ outbox' \in [Hosts -> Seq(Message)]
      /\ owner' \in [Hosts -> Starters \cup {None}]
  <2>1. <<>> \in Seq(Closers) /\ <<>> \in Seq(Message)
    OBVIOUS
  <2>2. outbox' = [outbox EXCEPT ![h] = <<>>]
    BY <1>3
  <2>3. /\ host' \in [Hosts -> {"none", "activating", "active", "exited"}]
        /\ inbox' \in [Hosts -> Seq(Closers)] /\ outbox' \in [Hosts -> Seq(Message)]
        /\ owner' \in [Hosts -> Starters \cup {None}]
    BY <1>1, <1>2, <2>1, <2>2 DEF TypeOK
  <2>4. /\ \A g \in Hosts : host'[g] = IF g = h THEN "none" ELSE host[g]
        /\ \A g \in Hosts : inbox'[g] = IF g = h THEN <<>> ELSE inbox[g]
        /\ \A g \in Hosts : outbox'[g] = IF g = h THEN <<>> ELSE outbox[g]
        /\ \A g \in Hosts : owner'[g] = IF g = h THEN None ELSE owner[g]
    BY <1>1, <1>2, <2>2 DEF TypeOK
  <2>5. QED
    BY <1>3, <2>3, <2>4
<1>5. /\ s \in Calls /\ s \notin Closers /\ pc \in [Calls -> Places] /\ None \notin Calls
      /\ \A x \in Calls : x # s => x \in Closers
      /\ \A x \in Closers : x \in Calls /\ pc[x] # "waitStarted" /\ pc[x] # "waitStopped"
                            /\ pc[x] \notin Launching
  BY <1>1, PLAssumption DEF PLAssumption, Calls, TypeOK, Places
<1> DEFINE err == ExitError(Head(outbox[h]).code)
           after == Emit("STOPPED", err)
           own == [c \in ExitSettles(h) |-> IF err THEN "rejected" ELSE "returned"]
<1>6. /\ pc' = [c \in Calls |-> IF c \in DOMAIN own THEN own[c] ELSE after[c]]
      /\ state' = IF \E c \in Calls : pc[c] = "waitStopped" /\ after[c] = OnStart
                  THEN "STARTING" ELSE "STOPPED"
  <2>1. SetState("STOPPED", err, own)
    BY DEF HostExited
  <2>2. QED
    BY <1>3, <2>1 DEF SetState
<1>7. error' \in BOOLEAN
  BY DEF HostExited, SetError
<1>8. \A c \in Closers : after[c] \in {pc[c], "returned", "rejected"}
  BY <1>5 DEF Emit
<1>9. \A c \in Closers : pc[c] \notin Waiting => after[c] = pc[c]
  BY <1>5 DEF Emit, Waiting
<1>10. DOMAIN own \subseteq {s}
  <2>1. owner[h] \in Starters \cup {None}
    BY <1>1 DEF TypeOK
  <2>2. QED
    BY <2>1 DEF ExitSettles
<1>11. \A c \in Closers : pc'[c] = after[c]
  BY <1>5, <1>6, <1>10
<1>12. \/ pc'[s] \in Idle /\ state' = "STOPPED"
       \/ pc'[s] = "configuring" /\ state' = "STARTING"
  <2>1. CASE state = "STARTING"
    <3>1. pc[s] \in Launching /\ tunnel # None
      BY <1>1, <1>3, <2>1, PLAssumption DEF StartMatchesState, PLAssumption
    <3>2. owner[h] = s /\ pc[s] = "activating"
      BY <1>1, <1>3, <3>1 DEF StartMatchesState, Launching
    <3>3. s # None
      BY <1>5
    <3>4. s \in DOMAIN own /\ own[s] \in Idle
      BY <2>1, <3>2, <3>3 DEF ExitSettles, Idle
    <3>5. pc'[s] \in Idle
      BY <1>5, <1>6, <3>4
    <3>6. state' = "STOPPED"
      BY <1>5, <1>6, <3>2
    <3>7. QED
      BY <3>5, <3>6
  <2>2. CASE state \in {"STARTED", "STOPPING"}
    <3>1. err = FALSE
      BY <2>2 DEF ExitError
    <3>2. DOMAIN own = {}
      BY <2>2 DEF ExitSettles
    <3>3. pc'[s] = after[s]
      BY <1>5, <1>6, <3>2
    <3>4. CASE pc[s] = "waitStopped"
      <4>1. after[s] = "configuring" /\ OnStart = "configuring"
        BY <1>1, <1>5, <3>1, <3>4 DEF Emit, Waiting, OnStart
      <4>2. QED
        BY <1>5, <1>6, <3>3, <3>4, <4>1
    <3>5. CASE pc[s] \in Idle
      <4>1. after[s] = pc[s]
        BY <1>5, <3>5 DEF Emit, Waiting, Idle
      <4>2. state' = "STOPPED"
        BY <1>5, <1>6, <3>5 DEF Idle
      <4>3. QED
        BY <3>3, <3>5, <4>1, <4>2
    <3>6. QED
      BY <1>1, <2>2, <3>4, <3>5 DEF StartMatchesState
  <2>3. QED
    BY <1>1, <1>3, <2>1, <2>2 DEF TypeOK
<1> HIDE DEF err, own, after
<1>13. pc' \in [Calls -> Places]
  <2>1. pc'[s] \in Places
    BY <1>12 DEF Places, Idle, Launching
  <2>2. \A c \in Closers : pc'[c] \in Places
    BY <1>5, <1>8, <1>11 DEF Places, Idle
  <2>3. \A c \in Calls : pc'[c] \in Places
    BY <1>5, <2>1, <2>2
  <2>4. QED
    BY <1>6, <2>3
<1>14. \A x \in Calls : pc'[x] \in Launching \cup {"waitStarted", "waitStopped"} => x \in Starters
  <2>1. \A x \in Closers : pc'[x] \notin Launching \cup {"waitStarted", "waitStopped"}
    BY <1>5, <1>8, <1>11 DEF Launching
  <2>2. QED
    BY <1>5, <2>1
<1>15. TypeOK'
  <2>1. /\ \A g \in Hosts : owner'[g] # None => pc'[owner'[g]] = "activating"
        /\ \A g \in Hosts : \A i \in 1..Len(inbox'[g]) : pc'[inbox'[g][i]] = "stopping"
        /\ \A g \in Hosts : \A i \in 1..Len(outbox'[g]) :
              outbox'[g][i].type = "deactivated" => pc'[outbox'[g][i].call] = "stopping"
    BY <1>4
  <2>2. state' \in {"STOPPED", "STARTING", "STARTED", "STOPPING"}
    BY <1>12
  <2>3. QED
    BY <1>1, <1>2, <1>4, <1>7, <1>13, <1>14, <2>1, <2>2 DEF TypeOK, Places
<1>16. StartMatchesState'
  BY <1>2, <1>12 DEF StartMatchesState, Idle, Launching
<1>17. HostMatchesTunnel'
  BY <1>2, <1>4, <1>12, PLAssumption DEF HostMatchesTunnel, PLAssumption
<1>18. ChannelsAgree'
  BY <1>4 DEF ChannelsAgree, Channel
<1>19. QED
  BY <1>1, <1>2, <1>15, <1>16, <1>17, <1>18 DEF Inv, SerialInv

-------------------------------------------------------------------------------
(***************************************************************************)
(* The theorems.                                                           *)
(***************************************************************************)
\* Nothing runs and nothing is under way at first.
LEMMA InitInv ==
    ASSUME Types = {"external"}, Init
    PROVE  Inv
<1>1. /\ type = "external" /\ state = "STOPPED" /\ tunnel = None
      /\ error = FALSE /\ watchers = FALSE /\ leaked = FALSE /\ timer = FALSE
      /\ pc = [c \in Calls |-> "returned"] /\ host = [h \in Hosts |-> "none"]
      /\ owner = [h \in Hosts |-> None]
      /\ inbox = [h \in Hosts |-> <<>>] /\ outbox = [h \in Hosts |-> <<>>]
  BY DEF Init
<1>2. /\ inbox \in [Hosts -> Seq(Closers)] /\ outbox \in [Hosts -> Seq(Message)]
      /\ \A h \in Hosts : inbox[h] = <<>> /\ outbox[h] = <<>>
  BY <1>1
<1>3. /\ pc \in [Calls -> Places] /\ \A c \in Calls : pc[c] = "returned"
  BY <1>1 DEF Places, Idle
<1>4. TypeOK
  <2>1. /\ type \in Types /\ state \in {"STOPPED", "STARTING", "STARTED", "STOPPING"}
        /\ error \in BOOLEAN /\ watchers \in BOOLEAN /\ leaked \in BOOLEAN /\ timer \in BOOLEAN
        /\ tunnel \in Hosts \cup {None}
    BY <1>1
  <2>2. /\ host \in [Hosts -> {"none", "activating", "active", "exited"}]
        /\ owner \in [Hosts -> Starters \cup {None}] /\ \A h \in Hosts : owner[h] = None
    BY <1>1
  <2>3. \A c \in Calls : pc[c] \notin Launching \cup {"waitStarted", "waitStopped"}
    BY <1>3 DEF Launching
  <2>4. QED
    BY <1>2, <1>3, <2>1, <2>2, <2>3 DEF TypeOK, Places
<1>5. StartMatchesState
  BY <1>1, <1>3 DEF StartMatchesState, Calls, Idle
<1>6. HostMatchesTunnel
  BY <1>1, <1>2, PLAssumption DEF HostMatchesTunnel, PLAssumption
<1>7. ChannelsAgree
  BY <1>2 DEF ChannelsAgree, Channel
<1>8. QED
  BY <1>1, <1>4, <1>5, <1>6, <1>7 DEF Inv, SerialInv

\* Every step of the daemon and of the hosts keeps the invariant.
LEMMA NextInv ==
    ASSUME NEW s, Starters = {s}, Inv, [Next]_vars
    PROVE  Inv'
<1>1. type = "external"
  BY DEF Inv, SerialInv
<1>2. CASE \E c \in Starters : Start(c) \/ WatchSources(c) \/ Spawn(c) \/ SpawnFails(c)
                               \/ InternalActivated(c)
  <2>1. Start(s) \/ WatchSources(s) \/ Spawn(s) \/ SpawnFails(s)
    BY <1>1, <1>2 DEF InternalActivated
  <2>2. QED
    BY <2>1, StartStep, WatchStep, SpawnStep, SpawnFailsStep
<1>3. CASE \E c \in Closers : Stop(c) \/ InternalDeactivated(c)
  <2>1. PICK c \in Closers : Stop(c)
    BY <1>1, <1>3 DEF InternalDeactivated
  <2>2. QED
    BY <2>1, StopStep
<1>4. CASE FileChange
  BY <1>4, FileChangeStep
<1>5. CASE \E h \in Hosts : HostActivates(h) \/ HostFails(h) \/ HostDeactivates(h) \/ HostDies(h)
  BY <1>5, HostSteps
<1>6. CASE \E h \in Hosts : ParentReceives(h)
  <2>1. PICK h \in Hosts : Activated(h) \/ ActivationError(h) \/ Deactivated(h) \/ HostExited(h)
    BY <1>6 DEF ParentReceives
  <2>2. QED
    BY <2>1, ActivatedStep, ActivationErrorStep, DeactivatedStep, HostExitedStep
<1>7. CASE UNCHANGED vars
  <2>1. TypeOK' /\ SerialInv'
    BY <1>7 DEF vars, parentVars, hostVars, Inv, TypeOK, SerialInv, StartMatchesState,
                HostMatchesTunnel, ChannelsAgree
  <2>2. QED
    BY <2>1 DEF Inv
<1>8. QED
  BY <1>2, <1>3, <1>4, <1>5, <1>6, <1>7 DEF Next

\* start() and stop() of an external plugin that one caller starts: every variable
\* keeps its type, and the state, the calls under way, the tunnel, the host and
\* what is on its channels stay in agreement.
THEOREM SerialCorrect ==
    ASSUME NEW s, Starters = {s}, Types = {"external"}
    PROVE  Spec => [](TypeOK /\ SerialInv /\ StateIsSound)
<1>1. Init => Inv
  BY InitInv
<1>2. Inv /\ [Next]_vars => Inv'
  BY NextInv
<1>3. Inv => TypeOK /\ SerialInv /\ StateIsSound
  BY DEF Inv, StateIsSound
<1>4. QED
  BY <1>1, <1>2, <1>3, PTL DEF Spec

\* Such a plugin has one host process at most that runs or is about to be spawned.
THEOREM HostIsUnique ==
    ASSUME NEW s, Starters = {s}, Types = {"external"}
    PROVE  Spec => []OneHost
<1>1. TypeOK /\ SerialInv => OneHost
  <2> SUFFICES ASSUME TypeOK, SerialInv
               PROVE  OneHost
    OBVIOUS
  <2> DEFINE alive == {h \in Hosts : Alive(h)}
             launch == {c \in Calls : pc[c] \in {"configuring", "spawning"}}
  <2>1. alive \subseteq {tunnel}
    BY DEF SerialInv, HostMatchesTunnel, Alive
  <2>2. launch \subseteq {s}
    BY DEF TypeOK, Launching
  <2>3. alive = {} \/ launch = {}
    <3>1. ASSUME s \in launch
          PROVE  alive = {}
      <4>1. tunnel = None
        BY <3>1 DEF SerialInv, StartMatchesState
      <4>2. QED
        BY <2>1, <4>1, PLAssumption DEF PLAssumption
    <3>2. QED
      BY <2>2, <3>1
  <2>4. /\ Cardinality(alive) \in Nat /\ Cardinality(alive) <= 1
        /\ Cardinality(launch) \in Nat /\ Cardinality(launch) <= 1
    <3>1. \A x : IsFiniteSet({x}) /\ Cardinality({x}) = 1
      BY FS_Singleton
    <3>2. IsFiniteSet(alive) /\ Cardinality(alive) <= 1
      <4>1. IsFiniteSet({tunnel}) /\ Cardinality({tunnel}) = 1 /\ alive \in SUBSET {tunnel}
        BY <2>1, <3>1
      <4> HIDE DEF alive
      <4>2. QED
        BY <4>1, FS_Subset
    <3>3. IsFiniteSet(launch) /\ Cardinality(launch) <= 1
      <4>1. IsFiniteSet({s}) /\ Cardinality({s}) = 1 /\ launch \in SUBSET {s}
        BY <2>2, <3>1
      <4> HIDE DEF launch
      <4>2. QED
        BY <4>1, FS_Subset
    <3>4. QED
      BY <3>2, <3>3, FS_CardinalityType
  <2>5. alive = {} => Cardinality(alive) = 0
    BY FS_EmptySet
  <2>6. launch = {} => Cardinality(launch) = 0
    BY FS_EmptySet
  <2>7. Cardinality(alive) + Cardinality(launch) <= 1
    <3> HIDE DEF alive, launch
    <3>1. QED
      BY <2>3, <2>4, <2>5, <2>6
  <2>8. QED
    BY <2>7 DEF OneHost
<1>2. QED
  BY <1>1, SerialCorrect, PTL

\* info.state of such a plugin is true to its host.
THEOREM StateIsTrue ==
    ASSUME NEW s, Starters = {s}, Types = {"external"}
    PROVE  Spec => []StateMatchesHost
<1>1. TypeOK /\ SerialInv => StateMatchesHost
  BY PLAssumption DEF SerialInv, HostMatchesTunnel, StateMatchesHost, PLAssumption
<1>2. QED
  BY <1>1, SerialCorrect, PTL

\* Only what a host sends makes a stop() that awaits return.
LEMMA HostsEndStops ==
    ASSUME NEW s, Starters = {s}, Inv, Next, NEW c \in Closers, Returns(c)
    PROVE  \E h \in Hosts : Deactivated(h) \/ HostExited(h)
<1>1. TypeOK /\ type = "external"
  BY DEF Inv, SerialInv
<1>2. /\ c \in Calls /\ c # s /\ c \notin Starters /\ None \notin Calls
      /\ pc[c] \notin Launching \cup {"waitStarted", "waitStopped"}
      /\ pc \in [Calls -> Places]
  BY <1>1, PLAssumption DEF PLAssumption, Calls, TypeOK, Places
<1>3. pc'[c] = "returned" /\ pc[c] # "returned" /\ pc[c] \notin Idle
  BY DEF Returns, Idle
<1>4. ASSUME NEW st, st # "STOPPED", NEW x \in Starters \cup {None},
             SetState(st, FALSE, [y \in {x} |-> "returned"])
      PROVE  FALSE
  <2> DEFINE own == [y \in {x} |-> "returned"]
             after == IF st = state THEN pc ELSE Emit(st, FALSE)
  <2>1. pc' = [y \in Calls |-> IF y \in DOMAIN own THEN own[y] ELSE after[y]]
    BY <1>4 DEF SetState
  <2>2. DOMAIN own = {x} /\ c # x
    BY <1>2
  <2>3. after[c] = pc[c]
    BY <1>2, <1>4 DEF Emit, Waiting
  <2> HIDE DEF own, after
  <2>4. pc'[c] = pc[c]
    BY <1>2, <2>1, <2>2, <2>3
  <2>5. QED
    BY <1>3, <2>4
<1>5. ASSUME Start(s) \/ WatchSources(s) \/ Spawn(s)
      PROVE  FALSE
  BY <1>2, <1>3, <1>5 DEF Start, WatchSources, Spawn
<1>6. ASSUME SpawnFails(s)
      PROVE  FALSE
  <2> DEFINE emitted == Emit("STOPPED", TRUE)
             own == [y \in {s} |-> "rejected"]
             after == IF "STOPPED" = state THEN pc ELSE emitted
  <2>1. pc' = [y \in Calls |-> IF y \in DOMAIN own THEN own[y] ELSE after[y]]
    BY <1>6 DEF SpawnFails, SetState
  <2>2. DOMAIN own = {s}
    OBVIOUS
  <2>3. /\ \A x \in Calls : pc[x] \notin Waiting => emitted[x] = pc[x]
        /\ \A x \in Calls : pc[x] \in Waiting => emitted[x] # "returned"
    BY <1>1, <1>2 DEF Emit, Waiting, OnStart
  <2> HIDE DEF own, emitted
  <2>4. after[c] # "returned"
    BY <1>2, <1>3, <2>3
  <2> HIDE DEF after
  <2>5. pc'[c] = after[c]
    BY <1>2, <2>1, <2>2
  <2>6. QED
    BY <1>3, <2>4, <2>5
<1>7. ASSUME NEW x \in Closers, Stop(x)
      PROVE  FALSE
  BY <1>2, <1>3, <1>7 DEF Stop
<1>8. ASSUME FileChange
      PROVE  FALSE
  BY <1>3, <1>8 DEF FileChange
<1>9. ASSUME NEW h \in Hosts,
             HostActivates(h) \/ HostFails(h) \/ HostDeactivates(h) \/ HostDies(h)
      PROVE  FALSE
  <2>1. pc' = pc
    BY <1>9 DEF HostActivates, HostFails, HostDeactivates, HostDies, parentVars
  <2>2. QED
    BY <1>3, <2>1
<1>10. ASSUME NEW h \in Hosts, Activated(h)
       PROVE  FALSE
  <2>1. PICK st : st = IF state = "STARTING" THEN "STARTED" ELSE state
    OBVIOUS
  <2>2. SetState(st, FALSE, [y \in {owner[h]} |-> "returned"])
    BY <1>10, <2>1 DEF Activated
  <2>3. state # "STOPPED"
    BY <1>10, Received DEF Activated
  <2>4. st # "STOPPED" /\ owner[h] \in Starters \cup {None}
    BY <1>1, <2>1, <2>3 DEF TypeOK
  <2>5. QED
    BY <1>4, <2>2, <2>4
<1>11. ASSUME NEW h \in Hosts, ActivationError(h)
       PROVE  FALSE
  BY <1>3, <1>11 DEF ActivationError
<1>12. QED
  BY <1>1, <1>5, <1>6, <1>7, <1>8, <1>9, <1>10, <1>11
     DEF Next, ParentReceives, InternalActivated, InternalDeactivated

\* When a stop() of such a plugin that had to wait returns, no host runs any more.
THEOREM StopEndsHost ==
    ASSUME NEW s, Starters = {s}, Types = {"external"}
    PROVE  Spec => StopLeavesNoHost
<1>1. TypeOK /\ SerialInv /\ [Next]_vars
        => [\A c \in Closers : Returns(c) => \A h \in Hosts : ~Alive(h)']_vars
  <2> SUFFICES ASSUME Inv, Next, NEW c \in Closers, Returns(c), NEW g \in Hosts
               PROVE  ~Alive(g)'
    BY DEF Inv
  <2>1. PICK h \in Hosts : Deactivated(h) \/ HostExited(h)
    BY HostsEndStops
  <2>2. TypeOK
    BY DEF Inv
  <2>3. CASE Deactivated(h)
    <3>1. Receive(h, "deactivated") /\ host' = host
      BY <2>3 DEF Deactivated
    <3>2. host[h] = "exited" /\ \A x \in Hosts : x # h => host[x] = "none"
      BY <3>1, Received
    <3>3. QED
      BY <3>1, <3>2 DEF Alive
  <2>4. CASE HostExited(h)
    <3>1. Receive(h, "exit") /\ host' = [host EXCEPT ![h] = "none"]
      BY <2>4 DEF HostExited
    <3>2. \A x \in Hosts : x # h => host[x] = "none"
      BY <3>1, Received
    <3>3. QED
      BY <2>2, <3>1, <3>2 DEF Alive, TypeOK
  <2>5. QED
    BY <2>1, <2>3, <2>4
<1>2. QED
  BY <1>1, SerialCorrect, PTL DEF Spec, StopLeavesNoHost

-------------------------------------------------------------------------------
(***************************************************************************)
(* A plugin that any number of callers start and nobody stops.             *)
(***************************************************************************)
Launch == {c \in Starters : pc[c] \in Launching}

\* What a host has still to tell when nobody has asked it anything: it speaks once when
\* activate() has ended, and once when it exits.
Says(h) ==
    \/ host[h] = "none" /\ owner[h] = None /\ outbox[h] = <<>>
    \/ host[h] = "activating" /\ owner[h] # None /\ outbox[h] = <<>>
    \/ host[h] = "active" /\ owner[h] # None /\ outbox[h] = <<[type |-> "activated"]>>
    \/ host[h] = "active" /\ owner[h] = None /\ outbox[h] = <<>>
    \/ /\ host[h] = "exited"
       /\ \E code \in {0, 1} :
            /\ code = 0 => "kill" \in Failures
            /\ \/ outbox[h] = <<Exit(code)>>
               \/ owner[h] # None /\ outbox[h] = <<[type |-> "activated"], Exit(code)>>
    \/ /\ host[h] = "exited" /\ owner[h] # None
       /\ \/ outbox[h] = <<[type |-> "activation_error"], Exit(6)>>
          \/ outbox[h] = <<Exit(6)>>

SharedTypes ==
    /\ type \in {"external", "internal"}
    /\ state \in {"STOPPED", "STARTING", "STARTED"}
    /\ tunnel \in Hosts \cup {None}
    /\ pc \in [Starters -> Idle \cup Launching \cup {"waitStarted"}]
    /\ host \in [Hosts -> {"none", "activating", "active", "exited"}]
    /\ owner \in [Hosts -> Starters \cup {None}]
    /\ outbox \in [Hosts -> Seq(Message)]
    /\ \A h \in Hosts : inbox[h] = <<>>

\* A plugin that is STARTING has one start() past its checks, any other has none.
SharedStart ==
    /\ state = "STARTING" => \E s \in Starters : Launch = {s}
    /\ state # "STARTING" => Launch = {}

\* The one host there is is behind the tunnel, and it has an owner, the start() under
\* way, until that has heard of it.
SharedHost ==
    /\ \A h \in Hosts : (host[h] # "none" <=> h = tunnel) /\ Says(h)
    /\ state = "STOPPED" => tunnel = None
    /\ state = "STARTED" /\ type = "external" => tunnel # None
    /\ tunnel # None => (owner[tunnel] # None <=> state = "STARTING")
    /\ \A c \in Launch : tunnel # None => pc[c] = "activating" /\ owner[tunnel] = c
    /\ type = "internal" =>
         tunnel = None /\ \A c \in Starters : pc[c] \notin {"configuring", "spawning"}

SharedInv == SharedTypes /\ SharedStart /\ SharedHost

\* With nobody to stop the plugin, every call is a start().
LEMMA OnlyStarters ==
    ASSUME Closers = {}
    PROVE  Calls = Starters
  BY DEF Calls

\* setState() that ends a start() ends them all, or leaves those waiting that wait.
LEMMA SharedEnd ==
    ASSUME SharedTypes, Closers = {}, NEW s \in Starters, Launch = {s}, state = "STARTING",
           NEW st \in {"STARTED", "STOPPED"}, NEW err \in BOOLEAN, err => st = "STOPPED",
           NEW place \in Idle, SetState(st, err, [c \in {s} |-> place])
    PROVE  /\ pc' \in [Starters -> Idle \cup Launching \cup {"waitStarted"}]
           /\ state' = st /\ Launch' = {}
           /\ \A c \in Starters :
                c # s /\ pc[c] \notin Idle /\ pc'[c] = "returned" => st = "STARTED"
           /\ pc'[s] = place
           /\ \A c \in Starters : pc'[c] \notin {"configuring", "spawning"}
<1> DEFINE own == [c \in {s} |-> place]
           after == Emit(st, err)
<1>1. Calls = Starters
  BY OnlyStarters
<1>2. /\ pc' = [c \in Starters |-> IF c \in DOMAIN own THEN own[c] ELSE after[c]]
      /\ state' = IF \E c \in Calls : pc[c] = "waitStopped" /\ after[c] = OnStart
                  THEN "STARTING" ELSE st
  BY <1>1 DEF SetState
<1>3. \A c \in Starters :
        /\ pc[c] # "waitStarted" => after[c] = pc[c]
        /\ pc[c] = "waitStarted" =>
             after[c] = IF err THEN "rejected" ELSE IF st = "STARTED" THEN "returned" ELSE "waitStarted"
  BY <1>1 DEF Emit, Waiting, SharedTypes, Idle, Launching
<1>4. \A c \in Starters : pc[c] \in Launching <=> c = s
  BY DEF Launch
<1>5. \A c \in Starters : pc'[c] = IF c = s THEN place ELSE after[c]
  BY <1>2
<1>6. \A c \in Starters : pc[c] # "waitStopped" /\ pc[c] \in Idle \cup Launching \cup {"waitStarted"}
  BY DEF SharedTypes, Idle, Launching
<1>7. state' = st
  BY <1>1, <1>2, <1>6
<1> HIDE DEF own, after
<1>8. \A c \in Starters : pc'[c] \in Idle \cup {"waitStarted"}
  BY <1>3, <1>4, <1>5, <1>6 DEF Idle, Launching
<1>9. DOMAIN pc' = Starters /\ pc' = [c \in Starters |-> pc'[c]]
  BY <1>2
<1>10. pc' \in [Starters -> Idle \cup Launching \cup {"waitStarted"}]
  BY <1>8, <1>9
<1>11. Launch' = {}
  BY <1>8 DEF Launch, Idle, Launching
<1>12. \A c \in Starters :
         c # s /\ pc[c] \notin Idle /\ pc'[c] = "returned" => st = "STARTED"
  BY <1>3, <1>4, <1>5, <1>6 DEF Idle, Launching
<1>13. QED
  BY <1>5, <1>7, <1>8, <1>10, <1>11, <1>12 DEF Idle

\* What the next message of a host tells of it.
LEMMA SharedReceived ==
    ASSUME SharedInv, NEW h \in Hosts, NEW kind, Receive(h, kind)
    PROVE  /\ h = tunnel /\ tunnel # None
           /\ kind = "activated" => /\ owner[h] # None
                                    /\ \/ host[h] = "active" /\ outbox'[h] = <<>>
                                       \/ /\ host[h] = "exited"
                                          /\ \E code \in {0, 1} :
                                               /\ code = 0 => "kill" \in Failures
                                               /\ outbox'[h] = <<Exit(code)>>
           /\ kind = "activation_error" =>
                owner[h] # None /\ host[h] = "exited" /\ outbox'[h] = <<Exit(6)>>
           /\ kind = "exit" => outbox'[h] = <<>>
           /\ kind = "exit" /\ Head(outbox[h]).code = 0 => "kill" \in Failures
           /\ kind # "deactivated"
           /\ outbox' \in [Hosts -> Seq(Message)]
           /\ \A g \in Hosts : g # h => outbox'[g] = outbox[g]
<1> USE DEF Receive, Exit
<1>1. Says(h) /\ (host[h] # "none" <=> h = tunnel) /\ outbox \in [Hosts -> Seq(Message)]
  BY DEF SharedInv, SharedHost, SharedTypes
<1>2. outbox[h] # <<>> /\ Head(outbox[h]).type = kind
  OBVIOUS
<1>3. outbox'[h] = Tail(outbox[h]) /\ \A g \in Hosts : g # h => outbox'[g] = outbox[g]
  BY <1>1
<1>4. outbox' \in [Hosts -> Seq(Message)]
  <2>1. Tail(outbox[h]) \in Seq(Message)
    BY <1>1, <1>2, HeadTailProperties
  <2>2. QED
    BY <1>1, <2>1
<1>5. host[h] # "none"
  BY <1>1, <1>2 DEF Says
<1>6. tunnel # None
  BY <1>1, <1>5, PLAssumption DEF PLAssumption
<1>7. /\ \A x : Head(<<x>>) = x /\ Tail(<<x>>) = <<>>
      /\ \A x, y : Head(<<x, y>>) = x /\ Tail(<<x, y>>) = <<y>>
  OBVIOUS
<1>8. CASE host[h] = "active" /\ owner[h] # None /\ outbox[h] = <<[type |-> "activated"]>>
  BY <1>1, <1>2, <1>3, <1>4, <1>5, <1>6, <1>7, <1>8
<1>9. ASSUME host[h] = "exited", NEW code \in {0, 1}, code = 0 => "kill" \in Failures,
             outbox[h] = <<Exit(code)>>
      PROVE  /\ kind = "exit" /\ outbox'[h] = <<>> 
             /\ (Head(outbox[h]).code = 0 => "kill" \in Failures)
  BY <1>2, <1>3, <1>7, <1>9
<1>10. ASSUME host[h] = "exited", NEW code \in {0, 1}, code = 0 => "kill" \in Failures,
              outbox[h] = <<[type |-> "activated"], Exit(code)>>
       PROVE  kind = "activated" /\ outbox'[h] = <<Exit(code)>>
  BY <1>2, <1>3, <1>7, <1>10
<1>11. CASE host[h] = "exited" /\ owner[h] # None
              /\ outbox[h] = <<[type |-> "activation_error"], Exit(6)>>
  BY <1>1, <1>2, <1>3, <1>4, <1>5, <1>6, <1>7, <1>11
<1>12. CASE host[h] = "exited" /\ owner[h] # None /\ outbox[h] = <<Exit(6)>>
  BY <1>1, <1>2, <1>3, <1>4, <1>5, <1>6, <1>7, <1>12
<1>13. CASE host[h] = "exited" /\ \E code \in {0, 1} :
            /\ code = 0 => "kill" \in Failures
            /\ \/ outbox[h] = <<Exit(code)>>
               \/ owner[h] # None /\ outbox[h] = <<[type |-> "activated"], Exit(code)>>
  <2>1. PICK code \in {0, 1} :
            /\ code = 0 => "kill" \in Failures
            /\ \/ outbox[h] = <<Exit(code)>>
               \/ owner[h] # None /\ outbox[h] = <<[type |-> "activated"], Exit(code)>>
    BY <1>13
  <2>2. CASE outbox[h] = <<Exit(code)>>
    BY <1>1, <1>3, <1>4, <1>5, <1>6, <1>9, <1>13, <2>1, <2>2
  <2>3. CASE owner[h] # None /\ outbox[h] = <<[type |-> "activated"], Exit(code)>>
    <3>1. kind = "activated" /\ outbox'[h] = <<Exit(code)>>
      BY <1>10, <1>13, <2>1, <2>3
    <3>2. \E x \in {0, 1} : (x = 0 => "kill" \in Failures) /\ outbox'[h] = <<Exit(x)>>
      BY <2>1, <3>1
    <3>3. QED
      BY <1>1, <1>3, <1>4, <1>5, <1>6, <1>13, <2>3, <3>1, <3>2
  <2>4. QED
    BY <2>1, <2>2, <2>3
<1>14. QED
  <2> HIDE DEF Receive, Exit
  <2>1. QED
    BY <1>1, <1>2, <1>8, <1>11, <1>12, <1>13 DEF Says

\* start(): the caller goes on, or it waits for the one that does.
LEMMA SharedStartStep ==
    ASSUME SharedInv, Closers = {}, NEW c \in Starters, Start(c)
    PROVE  SharedInv'
<1> USE DEF SharedInv
<1>1. /\ pc \in [Starters -> Idle \cup Launching \cup {"waitStarted"}] /\ pc[c] \in Idle
      /\ UNCHANGED <<type, tunnel, hostVars>>
  BY DEF SharedTypes, Start
<1>2. ASSUME NEW p \in Idle \cup Launching \cup {"waitStarted"}, pc' = [pc EXCEPT ![c] = p]
      PROVE  /\ pc' \in [Starters -> Idle \cup Launching \cup {"waitStarted"}]
             /\ Launch' = IF p \in Launching THEN Launch \cup {c} ELSE Launch
             /\ pc'[c] = p /\ \A x \in Starters : x # c => pc'[x] = pc[x]
  BY <1>1, <1>2 DEF Launch, Idle, Launching
<1>3. ASSUME NEW p \in {"returned", "waitStarted"}, pc' = [pc EXCEPT ![c] = p], state' = state
      PROVE  SharedInv'
  <2>1. p \in Idle \cup {"waitStarted"} /\ p \notin Launching
    BY <1>3 DEF Idle, Launching
  <2>2. Launch' = Launch /\ c \notin Launch
    BY <1>1, <1>2, <1>3, <2>1 DEF Launch, Idle, Launching
  <2>3. SharedTypes'
    BY <1>1, <1>2, <1>3, <2>1 DEF SharedTypes, hostVars
  <2>4. SharedStart'
    BY <1>3, <2>2 DEF SharedStart
  <2>5. SharedHost'
    BY <1>1, <1>2, <1>3, <2>1, <2>2 DEF SharedHost, Says, hostVars, Launch, Idle, Launching
  <2>6. QED
    BY <2>3, <2>4, <2>5
<1>4. CASE state = "STOPPED"
  <2>1. pc' = [pc EXCEPT ![c] = OnStart] /\ state' = "STARTING"
    BY <1>4 DEF Start
  <2>2. OnStart \in Launching /\ (type = "internal" => OnStart = "activating")
    BY DEF OnStart, Launching, SharedTypes
  <2>3. Launch' = {c}
    BY <1>2, <1>4, <2>1, <2>2 DEF SharedStart
  <2>4. tunnel' = None
    BY <1>1, <1>4 DEF SharedHost
  <2>5. SharedTypes'
    BY <1>1, <1>2, <2>1, <2>2 DEF SharedTypes, hostVars
  <2>6. SharedStart'
    BY <2>1, <2>3 DEF SharedStart
  <2>7. SharedHost'
    BY <1>1, <1>2, <2>1, <2>2, <2>4 DEF SharedHost, Says, hostVars
  <2>8. QED
    BY <2>5, <2>6, <2>7
<1>5. CASE state = "STARTED"
  BY <1>3, <1>5 DEF Start
<1>6. CASE state = "STARTING"
  BY <1>3, <1>6 DEF Start
<1>7. QED
  BY <1>4, <1>5, <1>6 DEF SharedTypes

\* Before there is a tunnel, the start() under way gets on with its host.
LEMMA SharedLaunchStep ==
    ASSUME SharedInv, Closers = {}, NEW c \in Starters, WatchSources(c) \/ Spawn(c)
    PROVE  SharedInv'
<1> USE DEF SharedInv
<1>1. /\ pc \in [Starters -> Idle \cup Launching \cup {"waitStarted"}]
      /\ pc[c] \in {"configuring", "spawning"} /\ c \in Launch
  BY DEF SharedTypes, WatchSources, Spawn, Launch, Launching
<1>2. /\ tunnel = None /\ type = "external" /\ state = "STARTING" /\ Launch = {c}
      /\ \A h \in Hosts : host[h] = "none"
  BY <1>1, PLAssumption DEF SharedHost, SharedStart, SharedTypes, PLAssumption
<1>3. PICK p \in {"spawning", "activating"} : pc' = [pc EXCEPT ![c] = p]
  BY DEF WatchSources, Spawn
<1>4. /\ pc' \in [Starters -> Idle \cup Launching \cup {"waitStarted"}]
      /\ Launch' = {c} /\ pc'[c] = p
  BY <1>1, <1>2, <1>3 DEF Launch, Launching
<1>5. state' = state /\ type' = type /\ inbox' = inbox /\ outbox' = outbox
  BY DEF WatchSources, Spawn, hostVars
<1>6. SharedStart'
  BY <1>2, <1>4, <1>5 DEF SharedStart
<1>7. CASE WatchSources(c)
  <2>1. UNCHANGED <<tunnel, host, owner>>
    BY <1>7 DEF WatchSources, hostVars
  <2>2. SharedTypes'
    BY <1>4, <1>5, <2>1 DEF SharedTypes
  <2>3. SharedHost'
    BY <1>2, <1>4, <1>5, <2>1 DEF SharedHost, Says
  <2>4. QED
    BY <1>6, <2>2, <2>3
<1>8. CASE Spawn(c)
  <2>1. PICK h \in Hosts : /\ host' = [host EXCEPT ![h] = "activating"]
                           /\ owner' = [owner EXCEPT ![h] = c] /\ tunnel' = h
    BY <1>8 DEF Spawn
  <2>2. pc'[c] = "activating"
    BY <1>1, <1>8 DEF Spawn
  <2>3. SharedTypes'
    BY <1>4, <1>5, <2>1 DEF SharedTypes
  <2>4. c # None /\ h # None
    BY PLAssumption DEF PLAssumption, Calls
  <2>5. host'[h] = "activating" /\ owner'[h] = c /\ outbox'[h] = <<>>
    BY <1>2, <1>5, <2>1 DEF SharedTypes, SharedHost, Says
  <2>6. \A g \in Hosts : g # h => host'[g] = "none" /\ owner'[g] = None /\ outbox'[g] = <<>>
    BY <1>2, <1>5, <2>1 DEF SharedTypes, SharedHost, Says
  <2>7. \A g \in Hosts : Says(g)'
    BY <2>4, <2>5, <2>6 DEF Says
  <2>8. SharedHost'
    BY <1>2, <1>4, <1>5, <2>1, <2>2, <2>4, <2>5, <2>6, <2>7 DEF SharedHost
  <2>9. QED
    BY <1>6, <2>3, <2>8
<1>9. QED
  BY <1>7, <1>8

\* A start() that fails before there is a host leaves the plugin as it was.
LEMMA SharedSpawnFails ==
    ASSUME SharedInv, Closers = {}, NEW c \in Starters, SpawnFails(c)
    PROVE  /\ SharedInv'
           /\ \A x \in Starters : ~Returns(x)
<1> USE DEF SharedInv
<1>1. c \in Launch /\ pc[c] = "spawning"
  BY DEF SpawnFails, Launch, Launching
<1>2. /\ tunnel = None /\ type = "external" /\ state = "STARTING" /\ Launch = {c}
  BY <1>1 DEF SharedHost, SharedStart, SharedTypes
<1>3. SetState("STOPPED", TRUE, [x \in {c} |-> "rejected"]) /\ "rejected" \in Idle
  BY DEF SpawnFails, Idle
<1>4. /\ pc' \in [Starters -> Idle \cup Launching \cup {"waitStarted"}]
      /\ state' = "STOPPED" /\ Launch' = {} /\ pc'[c] = "rejected"
      /\ \A x \in Starters : ~(x # c /\ pc[x] \notin Idle /\ pc'[x] = "returned")
      /\ \A x \in Starters : pc'[x] \notin {"configuring", "spawning"}
  BY <1>2, <1>3, SharedEnd
<1>5. UNCHANGED <<type, tunnel, host, owner, inbox, outbox>>
  BY DEF SpawnFails, hostVars
<1>6. SharedTypes' /\ SharedStart'
  BY <1>4, <1>5 DEF SharedTypes, SharedStart
<1>7. SharedHost'
  BY <1>2, <1>4, <1>5 DEF SharedHost, Says
<1>8. QED
  BY <1>4, <1>6, <1>7 DEF Returns

\* An internal plugin has no host, and nobody but the caller activates it.
LEMMA SharedInternalStep ==
    ASSUME SharedInv, Closers = {}, NEW c \in Starters, InternalActivated(c)
    PROVE  SharedInv'
<1> USE DEF SharedInv
<1>1. c \in Launch /\ type = "internal"
  BY DEF InternalActivated, Launch, Launching
<1>2. tunnel = None /\ state = "STARTING" /\ Launch = {c}
  BY <1>1 DEF SharedHost, SharedStart, SharedTypes
<1>3. \/ SetState("STARTED", FALSE, [x \in {c} |-> "returned"])
      \/ SetState("STOPPED", FALSE, [x \in {c} |-> "rejected"])
  BY <1>2 DEF InternalActivated
<1>4. "rejected" \in Idle /\ "returned" \in Idle
  BY DEF Idle
<1>5. /\ pc' \in [Starters -> Idle \cup Launching \cup {"waitStarted"}]
      /\ state' \in {"STARTED", "STOPPED"} /\ Launch' = {}
      /\ \A x \in Starters : pc'[x] \notin {"configuring", "spawning"}
  <2>1. CASE SetState("STARTED", FALSE, [x \in {c} |-> "returned"])
    BY <1>2, <1>4, <2>1, SharedEnd
  <2>2. CASE SetState("STOPPED", FALSE, [x \in {c} |-> "rejected"])
    BY <1>2, <1>4, <2>2, SharedEnd
  <2>3. QED
    BY <1>3, <2>1, <2>2
<1>6. UNCHANGED <<type, tunnel, host, owner, inbox, outbox>>
  BY DEF InternalActivated, hostVars
<1>7. SharedTypes' /\ SharedStart'
  BY <1>5, <1>6 DEF SharedTypes, SharedStart
<1>8. SharedHost'
  BY <1>1, <1>2, <1>5, <1>6 DEF SharedHost, Says
<1>9. QED
  BY <1>7, <1>8

\* What a host says comes after what it has said.
LEMMA SharedHostStep ==
    ASSUME SharedInv, NEW h \in Hosts,
           HostActivates(h) \/ HostFails(h) \/ HostDeactivates(h) \/ HostDies(h)
    PROVE  SharedInv'
<1> USE DEF SharedInv
<1>1. /\ outbox \in [Hosts -> Seq(Message)] /\ host \in [Hosts -> {"none", "activating", "active", "exited"}]
      /\ inbox[h] = <<>> /\ Says(h)
  BY DEF SharedTypes, SharedHost
<1>2. \A x, y \in Message : <<x>> \in Seq(Message) /\ <<x, y>> \in Seq(Message)
  OBVIOUS
<1>3. \A x, y \in Message :
        <<>> \o <<x>> = <<x>> /\ <<x>> \o <<y>> = <<x, y>> /\ <<>> \o <<x, y>> = <<x, y>>
  <2> TAKE x, y \in Message
  <2>1. <<>> \o <<x>> = <<x>> /\ <<>> \o <<x, y>> = <<x, y>>
    BY <1>2, ConcatEmptySeq
  <2>2. <<x>> \o <<y>> = Append(<<x>>, y)
    BY <1>2, AppendIsConcat
  <2>3. Append(<<x>>, y) = <<x, y>>
    <3> DEFINE one == Append(<<x>>, y)
               two == <<x, y>>
    <3>1. one \in Seq(Message) /\ Len(one) = 2 /\ one[1] = x /\ one[2] = y
      BY <1>2, AppendProperties
    <3>2. two \in Seq(Message) /\ Len(two) = 2 /\ two[1] = x /\ two[2] = y
      BY <1>2
    <3>3. one = two
      <4> HIDE DEF one, two
      <4>1. Len(one) = Len(two) /\ \A i \in 1..Len(one) : one[i] = two[i]
        BY <3>1, <3>2
      <4>2. QED
        BY <3>1, <3>2, <4>1, SeqEqual
    <3>4. QED
      BY <3>3
  <2>4. QED
    BY <2>1, <2>2, <2>3
<1>4. /\ [type |-> "activated"] \in Message /\ [type |-> "activation_error"] \in Message
      /\ Exit(0) \in Message /\ Exit(1) \in Message /\ Exit(6) \in Message
  BY DEF Message, Exit
<1>5. ASSUME NEW m \in Seq(Message), Send(h, m)
      PROVE  /\ outbox' \in [Hosts -> Seq(Message)] /\ outbox'[h] = outbox[h] \o m
             /\ \A g \in Hosts : g # h => outbox'[g] = outbox[g]
  <2>1. outbox[h] \o m \in Seq(Message)
    BY <1>1, ConcatProperties
  <2>2. QED
    BY <1>1, <1>5, <2>1 DEF Send
<1>6. UNCHANGED parentVars /\ owner' = owner
  BY DEF HostActivates, HostFails, HostDeactivates, HostDies
<1>7. /\ host[h] # "none" /\ host'[h] # "none"
      /\ host' \in [Hosts -> {"none", "activating", "active", "exited"}]
      /\ \A g \in Hosts : g # h => host'[g] = host[g]
  BY <1>1 DEF HostActivates, HostFails, HostDeactivates, HostDies, Alive
<1>8. /\ outbox' \in [Hosts -> Seq(Message)] /\ inbox'[h] = <<>>
      /\ \A g \in Hosts : g # h => outbox'[g] = outbox[g] /\ inbox'[g] = inbox[g]
      /\ Says(h)'
  <2>1. CASE HostActivates(h)
    <3>1. outbox[h] = <<>> /\ host[h] = "activating" /\ owner[h] # None
      BY <1>1, <2>1 DEF HostActivates, Says
    <3>2. Send(h, <<[type |-> "activated"]>>) /\ <<[type |-> "activated"]>> \in Seq(Message)
      BY <1>2, <1>4, <2>1 DEF HostActivates
    <3>3. outbox'[h] = <<[type |-> "activated"]>> /\ host'[h] = "active" /\ owner'[h] # None
      BY <1>1, <1>3, <1>4, <1>5, <1>6, <2>1, <3>1, <3>2 DEF HostActivates
    <3>4. Says(h)'
      BY <3>3 DEF Says
    <3>5. QED
      BY <1>1, <1>5, <2>1, <3>2, <3>4 DEF HostActivates
  <2>2. CASE HostFails(h)
    <3> DEFINE words == <<[type |-> "activation_error"], Exit(6)>>
    <3>1. outbox[h] = <<>> /\ host[h] = "activating" /\ owner[h] # None
      BY <1>1, <2>2 DEF HostFails, Says
    <3>2. Send(h, words) /\ words \in Seq(Message)
      BY <1>2, <1>4, <2>2 DEF HostFails
    <3>3. outbox'[h] = words /\ host'[h] = "exited" /\ owner'[h] # None
      BY <1>1, <1>3, <1>4, <1>5, <1>6, <2>2, <3>1, <3>2 DEF HostFails
    <3>4. Says(h)'
      BY <3>3 DEF Says
    <3>5. QED
      BY <1>1, <1>5, <2>2, <3>2, <3>4 DEF HostFails
  <2>3. CASE HostDeactivates(h)
    BY <1>1, <2>3 DEF HostDeactivates
  <2>4. CASE HostDies(h)
    <3>1. PICK code \in {0, 1} : (code = 0 => "kill" \in Failures) /\ Send(h, <<Exit(code)>>)
      BY <2>4 DEF HostDies
    <3>2. Exit(code) \in Message /\ <<Exit(code)>> \in Seq(Message)
      BY <1>2, <1>4
    <3>3. outbox'[h] = outbox[h] \o <<Exit(code)>> /\ host'[h] = "exited" /\ owner'[h] = owner[h]
      BY <1>1, <1>5, <1>6, <2>4, <3>1, <3>2 DEF HostDies
    <3>4. \/ outbox[h] = <<>>
          \/ outbox[h] = <<[type |-> "activated"]>> /\ owner[h] # None
      BY <1>1, <2>4 DEF HostDies, Alive, Says
    <3>5. \/ outbox'[h] = <<Exit(code)>>
          \/ outbox'[h] = <<[type |-> "activated"], Exit(code)>> /\ owner'[h] # None
      BY <1>3, <1>4, <3>2, <3>3, <3>4
    <3>6. Says(h)'
      BY <3>1, <3>3, <3>5 DEF Says
    <3>7. QED
      BY <1>1, <1>5, <2>4, <3>1, <3>2, <3>6 DEF HostDies
  <2>5. QED
    BY <2>1, <2>2, <2>3, <2>4
<1>9. SharedTypes'
  BY <1>6, <1>7, <1>8 DEF SharedTypes, parentVars
<1>10. SharedStart'
  BY <1>6 DEF SharedStart, Launch, parentVars
<1>11. \A g \in Hosts : Says(g)'
  BY <1>6, <1>7, <1>8 DEF Says, SharedHost
<1>12. SharedHost'
  BY <1>6, <1>7, <1>11 DEF SharedHost, Launch, parentVars
<1>13. QED
  BY <1>9, <1>10, <1>12

\* A message of the host settles the start() that owns it and all who wait for it.
LEMMA SharedReceiveStep ==
    ASSUME SharedInv, Closers = {}, NEW h \in Hosts, ParentReceives(h)
    PROVE  /\ SharedInv'
           /\ "kill" \notin Failures =>
                \A c \in Starters : Returns(c) => type' = "external" /\ tunnel' # None
<1> USE DEF SharedInv
<1>1. CASE Activated(h)
  <2>1. Receive(h, "activated")
    BY <1>1 DEF Activated
  <2>2. /\ h = tunnel /\ tunnel # None /\ owner[h] # None
        /\ \/ host[h] = "active" /\ outbox'[h] = <<>>
           \/ /\ host[h] = "exited"
              /\ \E code \in {0, 1} : (code = 0 => "kill" \in Failures) /\ outbox'[h] = <<Exit(code)>>
        /\ outbox' \in [Hosts -> Seq(Message)] /\ \A g \in Hosts : g # h => outbox'[g] = outbox[g]
    BY <2>1, SharedReceived
  <2>3. state = "STARTING" /\ type = "external"
    BY <2>2 DEF SharedHost, SharedTypes
  <2>4. owner[h] \in Starters /\ Launch = {owner[h]}
    BY <2>2, <2>3 DEF SharedHost, SharedStart
  <2>5. SetState("STARTED", FALSE, [c \in {owner[h]} |-> "returned"]) /\ "returned" \in Idle
    BY <1>1, <2>3 DEF Activated, Idle
  <2>6. /\ pc' \in [Starters -> Idle \cup Launching \cup {"waitStarted"}]
        /\ state' = "STARTED" /\ Launch' = {}
    BY <2>3, <2>4, <2>5, SharedEnd
  <2>7. owner' = [owner EXCEPT ![h] = None] /\ UNCHANGED <<type, tunnel, host, inbox>>
    BY <1>1 DEF Activated
  <2>8. SharedTypes' /\ SharedStart'
    BY <2>2, <2>6, <2>7 DEF SharedTypes, SharedStart
  <2>9. owner'[h] = None /\ \A g \in Hosts : g # h => owner'[g] = owner[g]
    BY <2>7 DEF SharedTypes
  <2>10. \A g \in Hosts : Says(g)'
    BY <2>2, <2>7, <2>9 DEF SharedHost, Says
  <2>11. SharedHost'
    BY <2>2, <2>3, <2>6, <2>7, <2>9, <2>10 DEF SharedHost
  <2>12. QED
    BY <2>2, <2>3, <2>7, <2>8, <2>11
<1>2. CASE ActivationError(h)
  <2>1. Receive(h, "activation_error")
    BY <1>2 DEF ActivationError
  <2>2. /\ owner[h] # None /\ host[h] = "exited" /\ outbox'[h] = <<Exit(6)>>
        /\ outbox' \in [Hosts -> Seq(Message)] /\ \A g \in Hosts : g # h => outbox'[g] = outbox[g]
    BY <2>1, SharedReceived
  <2>3. UNCHANGED <<state, type, tunnel, pc, host, owner, inbox>>
    BY <1>2 DEF ActivationError
  <2>4. SharedTypes' /\ SharedStart' /\ Launch' = Launch
    BY <2>2, <2>3 DEF SharedTypes, SharedStart, Launch
  <2>5. \A g \in Hosts : Says(g)'
    BY <2>2, <2>3 DEF SharedHost, Says
  <2>6. SharedHost'
    BY <2>3, <2>4, <2>5 DEF SharedHost
  <2>7. \A c \in Starters : ~Returns(c)
    BY <2>3 DEF Returns, Idle
  <2>8. QED
    BY <2>4, <2>6, <2>7
<1>3. CASE Deactivated(h)
  BY <1>3, SharedReceived DEF Deactivated
<1>4. CASE HostExited(h)
  <2> DEFINE code == Head(outbox[h]).code
             err == ExitError(code)
  <2>1. Receive(h, "exit")
    BY <1>4 DEF HostExited
  <2>2. /\ h = tunnel /\ tunnel # None /\ outbox'[h] = <<>>
        /\ code = 0 => "kill" \in Failures
        /\ outbox' \in [Hosts -> Seq(Message)] /\ \A g \in Hosts : g # h => outbox'[g] = outbox[g]
    BY <2>1, SharedReceived
  <2>3. type = "external" /\ state \in {"STARTING", "STARTED"}
    BY <2>2 DEF SharedHost, SharedTypes
  <2>4. /\ tunnel' = None /\ host' = [host EXCEPT ![h] = "none"]
        /\ owner' = [owner EXCEPT ![h] = None] /\ inbox' = [inbox EXCEPT ![h] = <<>>]
        /\ type' = type
        /\ SetState("STOPPED", err, [c \in ExitSettles(h) |-> IF err THEN "rejected" ELSE "returned"])
    BY <1>4 DEF HostExited
  <2> HIDE DEF code
  <2>5. err \in BOOLEAN
    BY DEF ExitError
  <2>6. /\ pc' \in [Starters -> Idle \cup Launching \cup {"waitStarted"}]
        /\ state' = "STOPPED" /\ Launch' = {}
        /\ "kill" \notin Failures => \A c \in Starters : ~Returns(c)
        /\ \A c \in Starters : pc'[c] \notin {"configuring", "spawning"}
    <3>1. CASE state = "STARTING"
      <4>1. owner[h] \in Starters /\ Launch = {owner[h]} /\ owner[h] # None
        BY <2>2, <3>1 DEF SharedHost, SharedStart
      <4>2. ExitSettles(h) = {owner[h]}
        BY <3>1, <4>1 DEF ExitSettles
      <4> DEFINE place == IF err THEN "rejected" ELSE "returned"
      <4>3. place \in Idle
        BY DEF Idle
      <4>4. SetState("STOPPED", err, [c \in {owner[h]} |-> place])
        BY <2>4, <4>2
      <4>5. "kill" \notin Failures => place = "rejected"
        BY <2>2, <3>1 DEF ExitError
      <4> HIDE DEF place, err
      <4>6. PICK s \in Starters : s = owner[h]
        BY <4>1
      <4>7. /\ Launch = {s} /\ "STOPPED" \in {"STARTED", "STOPPED"}
            /\ SetState("STOPPED", err, [c \in {s} |-> place])
        BY <4>1, <4>4, <4>6
      <4>8. /\ pc' \in [Starters -> Idle \cup Launching \cup {"waitStarted"}]
            /\ state' = "STOPPED" /\ Launch' = {} /\ pc'[s] = place
            /\ \A x \in Starters : x # s /\ pc[x] \notin Idle /\ pc'[x] = "returned" => FALSE
            /\ \A x \in Starters : pc'[x] \notin {"configuring", "spawning"}
        BY <2>5, <3>1, <4>3, <4>7, SharedEnd
      <4>9. QED
        BY <4>5, <4>8 DEF Returns
    <3>2. CASE state = "STARTED"
      <4>1. ExitSettles(h) = {} /\ err = FALSE
        BY <3>2 DEF ExitSettles, ExitError
      <4>2. Launch = {}
        BY <3>2 DEF SharedStart
      <4>3. \A c \in Starters : Emit("STOPPED", FALSE)[c] = pc[c]
        BY OnlyStarters DEF Emit, Waiting, SharedTypes, Idle, Launching
      <4>4. pc' = [c \in Starters |-> Emit("STOPPED", FALSE)[c]]
        BY <2>4, <3>2, <4>1, OnlyStarters DEF SetState
      <4>5. pc' = pc
        BY <4>3, <4>4 DEF SharedTypes
      <4>6. \A c \in Starters : pc[c] # "waitStopped"
        BY DEF SharedTypes, Idle, Launching
      <4>7. state' = "STOPPED"
        BY <2>4, <3>2, <4>6, OnlyStarters DEF SetState
      <4>8. QED
        BY <4>2, <4>5, <4>7 DEF SharedTypes, Launch, Returns, Launching, Idle
    <3>3. QED
      BY <2>3, <3>1, <3>2
  <2>7. SharedTypes' /\ SharedStart'
    BY <2>2, <2>4, <2>6 DEF SharedTypes, SharedStart
  <2>8. /\ host'[h] = "none" /\ owner'[h] = None
        /\ \A g \in Hosts : g # h => host'[g] = host[g] /\ owner'[g] = owner[g]
    BY <2>4 DEF SharedTypes
  <2>9. \A g \in Hosts : Says(g)'
    BY <2>2, <2>8 DEF SharedHost, Says
  <2>10. SharedHost'
    BY <2>2, <2>3, <2>4, <2>6, <2>8, <2>9, PLAssumption DEF SharedHost, PLAssumption
  <2>11. QED
    BY <2>6, <2>7, <2>10
<1>5. QED
  BY <1>1, <1>2, <1>3, <1>4 DEF ParentReceives

\* Every step keeps the invariant, and one that lets a start() of an external plugin return
\* leaves it a tunnel.
LEMMA SharedNext ==
    ASSUME SharedInv, Closers = {}, [Next]_vars
    PROVE  /\ SharedInv'
           /\ "kill" \notin Failures =>
                \A c \in Starters : type = "external" /\ Returns(c) => tunnel' # None
<1>1. CASE \E c \in Starters : Start(c) \/ WatchSources(c) \/ Spawn(c) \/ SpawnFails(c)
                               \/ InternalActivated(c)
  <2>1. PICK c \in Starters : Start(c) \/ WatchSources(c) \/ Spawn(c) \/ SpawnFails(c)
                               \/ InternalActivated(c)
    BY <1>1
  <2>2. SharedInv'
    BY <2>1, SharedStartStep, SharedLaunchStep, SharedSpawnFails, SharedInternalStep
  <2>3. ASSUME type = "external", NEW x \in Starters, Returns(x)
        PROVE  FALSE
    <3>1. ~SpawnFails(c) /\ ~InternalActivated(c)
      BY <2>3, SharedSpawnFails DEF InternalActivated
    <3>2. pc \in [Starters -> Idle \cup Launching \cup {"waitStarted"}]
      BY DEF SharedInv, SharedTypes
    <3>3. QED
      BY <2>1, <2>3, <3>1, <3>2 DEF Start, WatchSources, Spawn, Returns, Idle
  <2>4. QED
    BY <2>2, <2>3
<1>2. CASE FileChange
  <2>1. UNCHANGED <<type, state, tunnel, pc, host, owner, inbox, outbox>>
    BY <1>2 DEF FileChange, hostVars
  <2>2. SharedInv'
    BY <2>1 DEF SharedInv, SharedTypes, SharedStart, SharedHost, Says, Launch
  <2>3. QED
    BY <2>1, <2>2 DEF Returns, Idle
<1>3. CASE \E h \in Hosts : HostActivates(h) \/ HostFails(h) \/ HostDeactivates(h) \/ HostDies(h)
  <2>1. pc' = pc
    BY <1>3 DEF HostActivates, HostFails, HostDeactivates, HostDies, parentVars
  <2>2. QED
    BY <1>3, <2>1, SharedHostStep DEF Returns, Idle
<1>4. CASE \E h \in Hosts : ParentReceives(h)
  BY <1>4, SharedReceiveStep
<1>5. CASE UNCHANGED vars
  <2>1. UNCHANGED <<type, state, tunnel, pc, host, owner, inbox, outbox>>
    BY <1>5 DEF vars, parentVars, hostVars
  <2>2. SharedInv'
    BY <2>1 DEF SharedInv, SharedTypes, SharedStart, SharedHost, Says, Launch
  <2>3. QED
    BY <2>1, <2>2 DEF Returns, Idle
<1>6. QED
  BY <1>1, <1>2, <1>3, <1>4, <1>5 DEF Next

\* Nobody has called start() yet.
LEMMA SharedInit ==
    ASSUME Closers = {}, Init
    PROVE  SharedInv
<1>1. /\ \A c \in Starters : pc[c] = "returned"
      /\ pc \in [Starters -> Idle \cup Launching \cup {"waitStarted"}]
  BY OnlyStarters DEF Init, Idle
<1>2. /\ host = [h \in Hosts |-> "none"] /\ owner = [h \in Hosts |-> None]
      /\ inbox = [h \in Hosts |-> <<>>] /\ outbox = [h \in Hosts |-> <<>>]
      /\ state = "STOPPED" /\ tunnel = None /\ type \in {"external", "internal"}
  BY PLAssumption DEF Init, PLAssumption
<1>3. SharedTypes
  BY <1>1, <1>2 DEF SharedTypes
<1>4. Launch = {}
  BY <1>1 DEF Launch, Launching
<1>5. SharedHost
  BY <1>1, <1>2, <1>4, PLAssumption DEF SharedHost, Says, PLAssumption
<1>6. QED
  BY <1>2, <1>3, <1>4, <1>5 DEF SharedInv, SharedStart

\* However many callers start a plugin of either type, at any time, as long as nobody
\* stops it one of them activates it and the others wait, whatever fails.
THEOREM OneActivates ==
    ASSUME Closers = {}
    PROVE  Spec => []OneStart
<1>1. Init => SharedInv
  BY SharedInit
<1>2. SharedInv /\ [Next]_vars => SharedInv'
  BY SharedNext
<1>3. SharedInv => OneStart
  <2> SUFFICES ASSUME SharedInv PROVE Cardinality(Launch) <= 1
    BY DEF OneStart, Launch
  <2>1. CASE Launch = {}
    BY <2>1, FS_EmptySet
  <2>2. ASSUME NEW s, Launch = {s}
        PROVE  Cardinality(Launch) <= 1
    BY <2>2, FS_Singleton
  <2>3. QED
    BY <2>1, <2>2 DEF SharedInv, SharedStart
<1>4. QED
  BY <1>1, <1>2, <1>3, PTL DEF Spec

\* When start() of an external plugin returns after it had to wait, the plugin has a tunnel
\* for what the caller is to dispatch, as long as nobody stops it and no signal kills its host
\* (which the parent takes for a normal exit).
THEOREM StartLeavesTunnel ==
    ASSUME Closers = {}, "kill" \notin Failures
    PROVE  Spec => DispatchHasTunnel
<1>1. Init => SharedInv
  BY SharedInit
<1>2. SharedInv /\ [Next]_vars => SharedInv'
  BY SharedNext
<1>3. SharedInv /\ [Next]_vars =>
        [\A c \in Starters : type = "external" /\ Returns(c) => tunnel' # None]_vars
  BY SharedNext
<1>4. QED
  BY <1>1, <1>2, <1>3, PTL DEF Spec, DispatchHasTunnel

=============================================================================
